--------------------------- MODULE EmailCodeProofs --------------------------
(***************************************************************************)
(* Proofs about EmailCode, for any number of requests and addresses and    *)
(* any limits.                                                             *)
(***************************************************************************)
EXTENDS EmailCode, FiniteSetTheorems, TLAPS

----------------------------------------------------------------------------
(* The inductive invariants *)

\* The request has a place in the limits, given back to nobody.
Live(r) == pc[r] \in {"sending", "sent", "panicked", "forfeited"}

\* The request was given a place.
Placed(r) == Live(r) \/ pc[r] = "failed"

\* The address of a request is known once it has read the clock; the clock waits for it to
\* have the mutex.
RequestOK(r) ==
    /\ pc[r] # "new" => email[r] \in Emails /\ at[r] <= clock
    /\ pc[r] = "ready" => at[r] = clock
    /\ Placed(r) => era[r] <= forgotten[email[r]]
    /\ r \in late => at[r] + Cooldown <= clock
    /\ r \in late \/ r \in taken => Placed(r)
    /\ used[r] <= 1 /\ tries[r] <= MaxAttempts
    /\ pc[r] # "sent" => used[r] = 0 /\ tries[r] = 0

\* A stored code was sent to its address, is unused, and remembers the registrations that
\* tried it.
CodeOK(e) ==
    LET r == codes[e].of IN
    pc[r] = "sent" /\ email[r] = e /\ used[r] = 0 /\ tries[r] = codes[e].attempts

\* The request that a record names was given its place.
RecordOK(e) == Placed(sends[e].of)

\* What a request and an entry say by themselves.
Stored ==
    /\ TypeOK
    /\ IsFiniteSet(DOMAIN codes) /\ IsFiniteSet(DOMAIN sends)
    /\ \A r \in Requests : RequestOK(r)
    /\ \A e \in DOMAIN codes : CodeOK(e)
    /\ \A e \in DOMAIN sends : RecordOK(e)

\* The requests that have places in the current records.
Current(r) == Live(r) /\ era[r] = forgotten[email[r]]

\* Requests of an address and era with places in the limits are a cooldown apart, unless the
\* reservation of the earlier one was taken.
Apart(r, s) ==
    \/ Distance(r, s) >= Cooldown
    \/ at[r] <= at[s] /\ r \in taken
    \/ at[s] <= at[r] /\ s \in taken

Spaced == \A r, s \in Requests :
    r # s /\ Live(r) /\ Live(s) /\ Together(r, s) => Apart(r, s)

\* A request with a place rests since a cooldown, or its record knows of it, or its
\* reservation was taken.
Rested == \A r \in Requests : Current(r) =>
    \/ r \in taken
    \/ at[r] + Cooldown <= clock
    \/ email[r] \in DOMAIN sends /\ at[r] <= sends[email[r]].last

\* While a mail is sent the record is the request's own, for a cooldown and unless taken.
Held == \A r \in Requests :
    Current(r) /\ pc[r] = "sending" /\ r \notin taken /\ clock - at[r] < Cooldown =>
        /\ email[r] \in DOMAIN sends
        /\ sends[email[r]].last = at[r] /\ sends[email[r]].of = r

\* A record that was not rolled back shows the last place of its window.
ShownAt(e) ==
    /\ sends[e].from <= clock
    /\ sends[e].last # Never =>
          /\ email[sends[e].of] = e /\ Current(sends[e].of) /\ sends[e].of \notin taken
          /\ at[sends[e].of] = sends[e].last /\ sends[e].from <= sends[e].last

Shown == \A e \in DOMAIN sends : ShownAt(e)

\* What holds of the places, however long mails take.
Limits == /\ Spaced /\ Rested /\ Held /\ Shown
          /\ TakenOnlyLate /\ ForfeitedOnlyLate /\ QuotaCounts /\ OlderCodeOnlyLate
----------------------------------------------------------------------------
(* The tables *)

\* The constants are numbers.
LEMMA Numbers ==
  /\ Cooldown \in Nat /\ Cooldown > 0 /\ HourWindow \in Nat /\ Cooldown <= HourWindow
  /\ HourLimit \in Nat /\ HourLimit > 0 /\ TTL \in Nat
  /\ MaxAttempts \in Nat /\ MaxAttempts > 0 /\ MaxEntries \in Nat /\ MaxEntries > 0
  /\ MaxSend \in Nat /\ MaxTime \in Nat /\ Never \in Int /\ Never < 0 /\ NoEmail \notin Emails
  /\ IsFiniteSet(Requests)
BY EmailAssumption DEF Never

\* An empty table.
LEMMA Empty == DOMAIN <<>> = {}
<1>1. DOMAIN <<>> = 1 .. 0
  OBVIOUS
<1>2. 1 .. 0 = {}
  OBVIOUS
<1>3. QED
  BY <1>1, <1>2

\* A table that is left with few entries has room for one more.
LEMMA Room ==
  ASSUME NEW S, IsFiniteSet(S), NEW T \in SUBSET S, NEW e, Cardinality(T) < MaxEntries
  PROVE  IsFiniteSet(T \cup {e}) /\ Cardinality(T \cup {e}) <= MaxEntries
<1>1. IsFiniteSet(T) /\ Cardinality(T) \in Nat
  BY FS_Subset, FS_CardinalityType
<1>2. IsFiniteSet(T \cup {e})
        /\ Cardinality(T \cup {e}) = IF e \in T THEN Cardinality(T) ELSE Cardinality(T) + 1
  BY <1>1, FS_AddElement
<1>3. QED
  BY <1>1, <1>2, Numbers

\* Eviction keeps records as they are and leaves room for a new one.
LEMMA KeptSendsSmall ==
  ASSUME Stored, NEW e \in Emails, NEW now
  PROVE  /\ DOMAIN KeptSends(e, now) \subseteq DOMAIN sends
         /\ \A x \in DOMAIN KeptSends(e, now) : KeptSends(e, now)[x] = sends[x]
         /\ IsFiniteSet(DOMAIN KeptSends(e, now) \cup {e})
         /\ Cardinality(DOMAIN KeptSends(e, now) \cup {e}) <= MaxEntries
<1> DEFINE D == DOMAIN sends
<1>1. IsFiniteSet(D) /\ Cardinality(D) <= MaxEntries
  BY DEF Stored, TypeOK
<1>2. CASE e \in D
  <2>1. KeptSends(e, now) = sends /\ D \cup {e} = D
    BY <1>2 DEF KeptSends
  <2>2. QED
    BY <1>1, <2>1
<1>3. CASE e \notin D /\ Cardinality(D) < MaxEntries
  <2>1. KeptSends(e, now) = sends
    BY <1>3 DEF KeptSends
  <2>2. QED
    BY <1>1, <1>3, <2>1, Room
<1>4. CASE e \notin D /\ ~(Cardinality(D) < MaxEntries) /\ Overflow(e, now)
  <2>1. KeptSends(e, now) = <<>> /\ DOMAIN KeptSends(e, now) = {}
    BY <1>4, Empty DEF KeptSends
  <2>2. Cardinality({}) = 0 /\ IsFiniteSet({})
    BY FS_EmptySet
  <2>3. IsFiniteSet({} \cup {e}) /\ Cardinality({} \cup {e}) <= MaxEntries
    BY <2>2, Numbers, Room
  <2>4. QED
    BY <2>1, <2>3
<1>5. CASE e \notin D /\ ~(Cardinality(D) < MaxEntries) /\ ~Overflow(e, now)
  <2>1. KeptSends(e, now) = Drop(sends, StaleSends(now))
    BY <1>5 DEF KeptSends
  <2>2. /\ DOMAIN KeptSends(e, now) = D \ StaleSends(now)
        /\ \A x \in D \ StaleSends(now) : KeptSends(e, now)[x] = sends[x]
    BY <2>1 DEF Drop
  <2>3. Cardinality(D \ StaleSends(now)) < MaxEntries
    <3>1. Cardinality(D \ StaleSends(now)) \in Nat
      BY <1>1, FS_Subset, FS_CardinalityType
    <3>2. QED
      BY <1>5, <3>1, Numbers DEF Overflow
  <2>4. QED
    BY <1>1, <2>2, <2>3, Room
<1>6. QED
  BY <1>2, <1>3, <1>4, <1>5

\* So does the eviction of codes.
LEMMA KeptCodesSmall ==
  ASSUME Stored, NEW e \in Emails, NEW now
  PROVE  /\ DOMAIN KeptCodes(now) \subseteq DOMAIN codes
         /\ \A x \in DOMAIN KeptCodes(now) : KeptCodes(now)[x] = codes[x]
         /\ IsFiniteSet(DOMAIN KeptCodes(now) \cup {e})
         /\ Cardinality(DOMAIN KeptCodes(now) \cup {e}) <= MaxEntries
<1> DEFINE D == DOMAIN codes
           live == {x \in D : now <= codes[x].expires}
<1>1. IsFiniteSet(D)
  BY DEF Stored
<1>2. CASE Cardinality(D) < MaxEntries
  <2>1. KeptCodes(now) = codes
    BY <1>2 DEF KeptCodes
  <2>2. QED
    BY <1>1, <1>2, <2>1, Room
<1>3. CASE ~(Cardinality(D) < MaxEntries) /\ Cardinality(live) < MaxEntries
  <2>1. KeptCodes(now) = Drop(codes, D \ live)
    BY <1>3 DEF KeptCodes
  <2>2. DOMAIN KeptCodes(now) = live /\ \A x \in live : KeptCodes(now)[x] = codes[x]
    BY <2>1 DEF Drop
  <2>3. QED
    BY <1>1, <1>3, <2>2, Room
<1>4. CASE ~(Cardinality(D) < MaxEntries) /\ ~(Cardinality(live) < MaxEntries)
  <2>1. KeptCodes(now) = <<>> /\ DOMAIN KeptCodes(now) = {}
    BY <1>4, Empty DEF KeptCodes
  <2>2. Cardinality({}) = 0 /\ IsFiniteSet({})
    BY FS_EmptySet
  <2>3. IsFiniteSet({} \cup {e}) /\ Cardinality({} \cup {e}) <= MaxEntries
    BY <2>2, Numbers, Room
  <2>4. QED
    BY <2>1, <2>3
<1>5. QED
  BY <1>2, <1>3, <1>4

\* Putting an entry into a table.
LEMMA PutEntry ==
  ASSUME NEW f, NEW e, NEW x
  PROVE  /\ DOMAIN Put(f, e, x) = DOMAIN f \cup {e} /\ Put(f, e, x)[e] = x
         /\ \A d \in DOMAIN f \ {e} : Put(f, e, x)[d] = f[d]
BY DEF Put

\* Dropping entries from one.
LEMMA DropEntries ==
  ASSUME NEW f, NEW gone
  PROVE  /\ DOMAIN Drop(f, gone) = DOMAIN f \ gone
         /\ \A d \in DOMAIN f \ gone : Drop(f, gone)[d] = f[d]
BY DEF Drop

\* A smaller table stays small.
LEMMA Smaller ==
  ASSUME NEW S, IsFiniteSet(S), Cardinality(S) <= MaxEntries, NEW T \in SUBSET S
  PROVE  IsFiniteSet(T) /\ Cardinality(T) <= MaxEntries
<1>1. IsFiniteSet(T) /\ Cardinality(T) <= Cardinality(S) /\ Cardinality(S) \in Nat /\ Cardinality(T) \in Nat
  BY FS_Subset, FS_CardinalityType
<1>2. QED
  BY <1>1, Numbers

\* The record a reservation leaves.
LEMMA ReservedRecord ==
  ASSUME Stored, NEW r \in Requests, Reserve(r)
  PROVE  LET e == email[r] IN
         /\ e \in Emails /\ at[r] = clock /\ at[r] \in Nat
         /\ DOMAIN sends' = DOMAIN KeptSends(e, at[r]) \cup {e}
         /\ \A x \in DOMAIN sends' \ {e} : x \in DOMAIN sends /\ sends'[x] = sends[x]
         /\ sends'[e] \in Record /\ sends'[e].last = at[r] /\ sends'[e].of = r
         /\ \/ /\ e \in DOMAIN sends /\ ~WindowOver(sends[e], at[r])
               /\ sends'[e].from = sends[e].from /\ sends'[e].sent = sends[e].sent + 1
            \/ /\ e \in DOMAIN sends => WindowOver(sends[e], at[r])
               /\ sends'[e].from = at[r] /\ sends'[e].sent = 1
<1> DEFINE e == email[r]
           now == at[r]
           k == KeptSends(e, now)
<1>1. /\ e \in Emails /\ now = clock /\ now \in Nat /\ MaySend(e, now)
      /\ sends' = Marked(k, e, now, r)
      /\ \A x \in DOMAIN sends : sends[x] \in Record
  BY DEF Stored, RequestOK, Reserve, TypeOK
<1>2. DOMAIN k \subseteq DOMAIN sends /\ \A x \in DOMAIN k : k[x] = sends[x]
  BY <1>1, KeptSendsSmall
<1>3. e \in DOMAIN sends => k = sends
  BY DEF KeptSends
<1> HIDE DEF k
<1>4. CASE e \in DOMAIN sends /\ ~WindowOver(sends[e], now)
  <2> DEFINE new == [last |-> now, from |-> sends[e].from, sent |-> sends[e].sent + 1, of |-> r]
  <2>1. sends' = Put(k, e, new)
    BY <1>1, <1>3, <1>4 DEF Marked
  <2>2. sends[e].sent < HourLimit /\ sends[e] \in Record
    BY <1>1, <1>4 DEF MaySend
  <2>3. /\ new \in Record /\ new.last = now /\ new.from = sends[e].from
        /\ new.sent = sends[e].sent + 1 /\ new.of = r
    BY <1>1, <2>2, Numbers DEF Record
  <2> HIDE DEF new
  <2>4. /\ DOMAIN sends' = DOMAIN k \cup {e} /\ sends'[e] = new
        /\ \A x \in DOMAIN k \ {e} : sends'[x] = k[x]
    BY <2>1 DEF Put
  <2>5. QED
    BY <1>1, <1>2, <1>4, <2>3, <2>4 DEF k
<1>5. CASE e \in DOMAIN sends => WindowOver(sends[e], now)
  <2> DEFINE new == [last |-> now, from |-> now, sent |-> 1, of |-> r]
  <2>1. sends' = Put(k, e, new)
    BY <1>1, <1>2, <1>5 DEF Marked
  <2>2. new \in Record /\ new.last = now /\ new.from = now /\ new.sent = 1 /\ new.of = r
    BY <1>1, Numbers DEF Record
  <2> HIDE DEF new
  <2>3. /\ DOMAIN sends' = DOMAIN k \cup {e} /\ sends'[e] = new
        /\ \A x \in DOMAIN k \ {e} : sends'[x] = k[x]
    BY <2>1 DEF Put
  <2>4. QED
    BY <1>1, <1>2, <1>5, <2>2, <2>3 DEF k
<1>6. QED
  BY <1>4, <1>5

\* What a rollback leaves.
LEMMA RolledRecords ==
  ASSUME Stored, NEW e \in Emails, NEW now \in Nat, sends' = RolledBack(e, now)
  PROVE  /\ DOMAIN sends' \subseteq DOMAIN sends
         /\ \A x \in DOMAIN sends' : sends'[x] \in Record
         /\ \A x \in DOMAIN sends \ {e} : x \in DOMAIN sends' /\ sends'[x] = sends[x]
         /\ \/ sends' = sends /\ (e \in DOMAIN sends => now > sends[e].last)
            \/ e \in DOMAIN sends /\ sends[e].sent = 1 /\ DOMAIN sends' = DOMAIN sends \ {e}
            \/ /\ e \in DOMAIN sends /\ sends[e].sent > 1 /\ DOMAIN sends' = DOMAIN sends
               /\ sends'[e].last = Never /\ sends'[e].from = sends[e].from
               /\ sends'[e].sent = sends[e].sent - 1 /\ sends'[e].of = sends[e].of
         /\ sends' # sends => e \in DOMAIN sends /\ now <= sends[e].last
<1>1. \A x \in DOMAIN sends : sends[x] \in Record
  BY DEF Stored, TypeOK
<1>2. CASE e \notin DOMAIN sends \/ now > sends[e].last
  <2>1. sends' = sends
    BY <1>2 DEF RolledBack
  <2>2. e \in DOMAIN sends => now > sends[e].last
    BY <1>2
  <2>3. DOMAIN sends' \subseteq DOMAIN sends /\ \A x \in DOMAIN sends' : sends'[x] \in Record
    BY <1>1, <2>1
  <2>4. QED
    BY <2>1, <2>2, <2>3
<1>3. CASE e \in DOMAIN sends /\ ~(now > sends[e].last) /\ sends[e].sent <= 1
  <2>1. sends' = Drop(sends, {e}) /\ sends[e].sent = 1
    BY <1>1, <1>3 DEF RolledBack, Record
  <2>2. /\ DOMAIN sends' = DOMAIN sends \ {e}
        /\ \A x \in DOMAIN sends \ {e} : sends'[x] = sends[x]
    BY <2>1 DEF Drop
  <2>3. now <= sends[e].last
    BY <1>1, <1>3 DEF Record
  <2>4. QED
    BY <1>1, <1>3, <2>1, <2>2, <2>3
<1>4. CASE e \in DOMAIN sends /\ ~(now > sends[e].last) /\ ~(sends[e].sent <= 1)
  <2> DEFINE new == [sends[e] EXCEPT !.last = Never, !.sent = @ - 1]
  <2>1. sends' = [sends EXCEPT ![e] = new]
    BY <1>4 DEF RolledBack
  <2>2. /\ new \in Record /\ new.last = Never /\ new.from = sends[e].from
        /\ new.sent = sends[e].sent - 1 /\ new.of = sends[e].of
    <3>1. sends[e] \in Record /\ sends[e].sent - 1 \in 1 .. HourLimit
      BY <1>1, <1>4, Numbers DEF Record
    <3>2. \A n \in 1 .. HourLimit : [sends[e] EXCEPT !.last = Never, !.sent = n] \in Record
      BY <3>1, Numbers DEF Record
    <3>3. new = [sends[e] EXCEPT !.last = Never, !.sent = sends[e].sent - 1]
      OBVIOUS
    <3>4. QED
      BY <3>1, <3>2, <3>3 DEF Record
  <2>3. sends[e].sent > 1 /\ now <= sends[e].last
    BY <1>1, <1>4, Numbers DEF Record
  <2> HIDE DEF new
  <2>4. QED
    BY <1>1, <1>4, <2>1, <2>2, <2>3
<1>5. QED
  BY <1>2, <1>3, <1>4

----------------------------------------------------------------------------
(* Steps and the stored codes *)

\* A step that leaves the codes and the registrations alone, and moves r on.
LEMMA Moved ==
  ASSUME Stored, NEW r \in Requests, NEW l \in Stages, pc[r] # "sent", l # "sent", Goto(r, l),
         UNCHANGED <<clock, codes, at, email, tries, used>>, configured' \in BOOLEAN,
         DOMAIN sends' \subseteq Emails, \A e \in DOMAIN sends' : sends'[e] \in Record,
         IsFiniteSet(DOMAIN sends'), Cardinality(DOMAIN sends') <= MaxEntries,
         era' \in [Requests -> Nat], forgotten' \in [Emails -> Nat],
         \A e \in Emails : forgotten[e] <= forgotten'[e], RequestOK(r)',
         \A s \in Requests \ {r} : era'[s] = era[s],
         late' \subseteq late \cup {r}, taken' \subseteq Requests,
         \A s \in taken' \ {r} : s \in taken \/ Placed(s),
         Placed(r) => Placed(r)',
         \A e \in DOMAIN sends' : \/ Placed(sends'[e].of)
                                  \/ sends'[e].of = r /\ Placed(r)'
  PROVE  Stored'
<1>1. /\ pc' \in [Requests -> Stages] /\ pc'[r] = l
      /\ \A s \in Requests \ {r} : pc'[s] = pc[s]
  BY DEF Goto, Stored, TypeOK
<1>2. TypeOK'
  BY <1>1 DEF Stored, TypeOK
<1>3. ASSUME NEW s \in Requests PROVE RequestOK(s)'
  <2>1. CASE s = r
    BY <2>1
  <2>2. CASE s # r
    <3>1. RequestOK(s) /\ (Placed(s) => email[s] \in Emails) /\ era[s] \in Nat
      BY DEF Stored, RequestOK, Placed, Live, TypeOK
    <3>2. Placed(s) => forgotten[email[s]] \in Nat /\ forgotten'[email[s]] \in Nat
      BY <3>1 DEF Stored, TypeOK
    <3>3. Placed(s) => era[s] <= forgotten'[email[s]]
      BY <3>1, <3>2 DEF RequestOK
    <3>4. (Placed(s)' <=> Placed(s)) /\ (s \in late' => s \in late)
      BY <1>1, <2>2 DEF Placed, Live
    <3>5. s \in taken' => Placed(s)
      BY <2>2, <3>1 DEF RequestOK
    <3>6. QED
      BY <1>1, <2>2, <3>1, <3>3, <3>4, <3>5 DEF RequestOK
  <2>3. QED
    BY <2>1, <2>2
<1>4. \A e \in DOMAIN codes' : CodeOK(e)'
  BY <1>1 DEF Stored, CodeOK, TypeOK, Entry
<1>5. ASSUME NEW e \in DOMAIN sends' PROVE RecordOK(e)'
  <2>1. sends'[e].of \in Requests
    BY DEF Record
  <2>2. CASE sends'[e].of = r
    BY <1>1, <2>1, <2>2 DEF RecordOK, Placed, Live
  <2>3. CASE sends'[e].of # r
    BY <1>1, <2>1, <2>3 DEF RecordOK, Placed, Live
  <2>4. QED
    BY <2>2, <2>3
<1>6. QED
  BY <1>2, <1>3, <1>4, <1>5 DEF Stored

\* The clock is read.
LEMMA AskStored ==
  ASSUME Stored, NEW r \in Requests, NEW e \in Emails, Ask(r, e)
  PROVE  Stored'
<1>1. /\ pc' = [pc EXCEPT ![r] = "ready"] /\ email' = [email EXCEPT ![r] = e]
      /\ at' = [at EXCEPT ![r] = clock] /\ UNCHANGED <<clock, configured, table, book>>
      /\ pc[r] = "new"
  BY DEF Ask, Goto
<1>2. TypeOK'
  BY <1>1 DEF Stored, TypeOK, Stages, table, book
<1>3. ASSUME NEW s \in Requests PROVE RequestOK(s)'
  <2>1. RequestOK(s)
    BY DEF Stored
  <2>2. QED
    BY <1>1, <2>1 DEF RequestOK, Placed, Live, Stored, TypeOK, book
<1>4. \A x \in DOMAIN codes' : CodeOK(x)'
  BY <1>1 DEF Stored, CodeOK, TypeOK, Entry, table, book
<1>5. \A x \in DOMAIN sends' : RecordOK(x)'
  BY <1>1 DEF Stored, RecordOK, TypeOK, Record, table, Placed, Live
<1>6. QED
  BY <1>1, <1>2, <1>3, <1>4, <1>5 DEF Stored, table

\* A place is reserved.
LEMMA ReserveStored ==
  ASSUME Stored, NEW r \in Requests, Reserve(r)
  PROVE  Stored'
<1> DEFINE e == email[r]
           l == IF configured THEN "sending" ELSE "panicked"
<1>1. /\ pc[r] = "ready" /\ Goto(r, l) /\ l \in {"sending", "panicked"}
      /\ UNCHANGED <<clock, configured, codes, email, at, tries, used>>
      /\ e \in Emails /\ RequestOK(r)
  BY DEF Reserve, Stored, RequestOK
<1>2. /\ DOMAIN sends' \subseteq Emails /\ \A x \in DOMAIN sends' : sends'[x] \in Record
      /\ IsFiniteSet(DOMAIN sends') /\ Cardinality(DOMAIN sends') <= MaxEntries
  <2>1. /\ DOMAIN sends' = DOMAIN KeptSends(e, at[r]) \cup {e} /\ sends'[e] \in Record
        /\ \A x \in DOMAIN sends' \ {e} : x \in DOMAIN sends /\ sends'[x] = sends[x]
    BY ReservedRecord
  <2>2. /\ IsFiniteSet(DOMAIN KeptSends(e, at[r]) \cup {e})
        /\ Cardinality(DOMAIN KeptSends(e, at[r]) \cup {e}) <= MaxEntries
    BY <1>1, KeptSendsSmall
  <2>3. \A x \in DOMAIN sends : x \in Emails /\ sends[x] \in Record
    BY DEF Stored, TypeOK
  <2>4. QED
    BY <1>1, <2>1, <2>2, <2>3
<1>3. forgotten' \in [Emails -> Nat] /\ \A x \in Emails : forgotten[x] <= forgotten'[x]
  BY DEF Reserve, Stored, TypeOK
<1>4. era' = [era EXCEPT ![r] = forgotten'[e]] /\ era \in [Requests -> Nat]
  BY DEF Reserve, Stored, TypeOK
<1>5. /\ era' \in [Requests -> Nat] /\ era'[r] = forgotten'[e]
      /\ \A s \in Requests \ {r} : era'[s] = era[s]
  BY <1>1, <1>3, <1>4
<1>6. RequestOK(r)' /\ Placed(r)' /\ ~Placed(r)
  <2>1. pc'[r] = l /\ forgotten'[e] <= forgotten'[e]
    BY <1>1, <1>3 DEF Goto, Stored, TypeOK
  <2>2. Placed(r)' /\ ~Placed(r)
    BY <1>1, <2>1 DEF Placed, Live
  <2>3. QED
    BY <1>1, <1>5, <2>1, <2>2 DEF RequestOK, Reserve, history
<1>7. \A x \in DOMAIN sends' : Placed(sends'[x].of) \/ sends'[x].of = r
  BY ReservedRecord DEF Stored, RecordOK
<1> HIDE DEF l
<1>8. UNCHANGED <<late, taken>> /\ taken \subseteq Requests
  BY DEF Reserve, history, Stored, TypeOK
<1>9. QED
  BY <1>1, <1>2, <1>3, <1>5, <1>6, <1>7, <1>8, Moved DEF Stages, Stored, TypeOK

\* A limit is hit.
LEMMA LimitedStored ==
  ASSUME Stored, NEW r \in Requests, Limited(r)
  PROVE  Stored'
<1>1. /\ pc[r] = "ready" /\ Goto(r, "limited") /\ pc'[r] = "limited"
      /\ UNCHANGED <<clock, configured, table, email, at, book>> /\ RequestOK(r)
  BY DEF Limited, Stored, Goto, TypeOK
<1>2. RequestOK(r)' /\ ~Placed(r)
  BY <1>1 DEF RequestOK, Placed, Live, book
<1>3. QED
  BY <1>1, <1>2, Moved DEF Stages, Stored, RecordOK, TypeOK, table, book

\* The code is stored.
LEMMA MailSentStored ==
  ASSUME Stored, NEW r \in Requests, MailSent(r)
  PROVE  Stored'
<1> DEFINE e == email[r]
           k == KeptCodes(at[r])
           new == [of |-> r, expires |-> at[r] + TTL, attempts |-> 0]
<1>1. /\ pc[r] = "sending" /\ pc' = [pc EXCEPT ![r] = "sent"] /\ codes' = Put(k, e, new)
      /\ UNCHANGED <<clock, configured, sends, email, at, era, forgotten, taken, tries, used>>
      /\ e \in Emails /\ RequestOK(r) /\ at[r] \in Nat
      /\ late' = IF clock - at[r] >= Cooldown THEN late \cup {r} ELSE late
  BY DEF MailSent, Outlasted, Stored, RequestOK, Goto, TypeOK
<1>2. /\ DOMAIN k \subseteq DOMAIN codes /\ \A x \in DOMAIN k : k[x] = codes[x]
      /\ IsFiniteSet(DOMAIN k \cup {e}) /\ Cardinality(DOMAIN k \cup {e}) <= MaxEntries
  BY <1>1, KeptCodesSmall
<1>3. new \in Entry /\ new.of = r /\ new.attempts = 0
  BY <1>1, Numbers DEF Entry
<1> HIDE DEF k, new
<1>4. /\ DOMAIN codes' = DOMAIN k \cup {e} /\ codes'[e] = new
      /\ \A x \in DOMAIN k \ {e} : codes'[x] = k[x]
  BY <1>1 DEF Put
<1>5. TypeOK'
  BY <1>1, <1>2, <1>3, <1>4 DEF Stored, TypeOK, Stages
<1>6. ASSUME NEW s \in Requests PROVE RequestOK(s)'
  <2>1. RequestOK(s) /\ (Placed(s)' <=> Placed(s)) /\ (s = r => Placed(s))
    BY <1>1 DEF Stored, Placed, Live, TypeOK
  <2>2. s \in late' => at[s] + Cooldown <= clock
    <3>1. at[r] \in Nat /\ clock \in Nat
      BY <1>1 DEF Stored, TypeOK
    <3>2. clock - at[r] >= Cooldown => at[r] + Cooldown <= clock
      BY <3>1, Numbers
    <3>3. QED
      BY <1>1, <2>1, <3>2 DEF RequestOK
  <2>3. (s \in late' => s \in late \/ s = r) /\ pc[r] # "sent" /\ pc'[r] = "sent"
        /\ (s # r => pc'[s] = pc[s]) /\ (s = r => pc[s] = "sending")
    BY <1>1 DEF Stored, TypeOK
  <2>4. QED
    BY <1>1, <2>1, <2>2, <2>3 DEF RequestOK
<1>7. ASSUME NEW x \in DOMAIN codes' PROVE CodeOK(x)'
  <2>1. CASE x = e
    BY <1>1, <1>3, <1>4, <2>1 DEF CodeOK, RequestOK, Stored, TypeOK
  <2>2. CASE x # e
    <3>1. x \in DOMAIN codes /\ codes'[x] = codes[x] /\ CodeOK(x) /\ codes[x].of \in Requests
      BY <1>2, <1>4, <2>2 DEF Stored, TypeOK, Entry
    <3>2. QED
      BY <1>1, <3>1 DEF CodeOK, Stored, TypeOK
  <2>3. QED
    BY <2>1, <2>2
<1>8. \A x \in DOMAIN sends' : RecordOK(x)'
  BY <1>1 DEF Stored, RecordOK, TypeOK, Record, Placed, Live
<1>9. QED
  BY <1>1, <1>2, <1>4, <1>5, <1>6, <1>7, <1>8 DEF Stored

\* The reservation is rolled back.
LEMMA MailFailedStored ==
  ASSUME Stored, NEW r \in Requests, MailFailed(r)
  PROVE  Stored'
<1> DEFINE e == email[r]
           l == IF sends' # sends THEN "failed" ELSE "forfeited"
<1>1. /\ pc[r] = "sending" /\ Goto(r, l) /\ pc'[r] = l /\ l \in {"failed", "forfeited"}
      /\ UNCHANGED <<clock, configured, codes, email, at, era, forgotten, tries, used>>
      /\ e \in Emails /\ RequestOK(r) /\ at[r] \in Nat /\ sends' = RolledBack(e, at[r])
      /\ late' = IF clock - at[r] >= Cooldown THEN late \cup {r} ELSE late
  BY DEF MailFailed, Outlasted, Stored, RequestOK, Goto, TypeOK
<1> HIDE DEF l
<1>2. /\ DOMAIN sends' \subseteq DOMAIN sends /\ \A x \in DOMAIN sends' : sends'[x] \in Record
      /\ \A x \in DOMAIN sends' : sends'[x].of = sends[x].of
      /\ sends' # sends => e \in DOMAIN sends
  <2>1. /\ DOMAIN sends' \subseteq DOMAIN sends /\ \A x \in DOMAIN sends' : sends'[x] \in Record
        /\ sends' # sends => e \in DOMAIN sends
        /\ \A x \in DOMAIN sends \ {e} : sends'[x] = sends[x]
        /\ e \in DOMAIN sends' => sends' = sends \/ sends'[e].of = sends[e].of
    BY <1>1, RolledRecords
  <2>2. QED
    BY <2>1
<1>3. /\ DOMAIN sends' \subseteq Emails /\ IsFiniteSet(DOMAIN sends')
      /\ Cardinality(DOMAIN sends') <= MaxEntries
  BY <1>2, Smaller DEF Stored, TypeOK
<1>4. /\ taken' \subseteq Requests /\ \A s \in taken' : s \in taken \/ Placed(s)
      /\ r \in taken' => r \in taken
  <2>1. \/ taken' = taken
        \/ e \in DOMAIN sends /\ taken' = taken \cup ({sends[e].of} \ {r})
    BY <1>2 DEF MailFailed
  <2>2. e \in DOMAIN sends => sends[e].of \in Requests /\ Placed(sends[e].of)
    BY DEF Stored, RecordOK, TypeOK, Record
  <2>3. taken \subseteq Requests
    BY DEF Stored, TypeOK
  <2>4. QED
    BY <2>1, <2>2, <2>3
<1>5. RequestOK(r)' /\ Placed(r) /\ Placed(r)'
  <2>1. Placed(r) /\ Placed(r)'
    BY <1>1 DEF Placed, Live
  <2>2. clock - at[r] >= Cooldown => at[r] + Cooldown <= clock
    BY <1>1, Numbers DEF Stored, TypeOK
  <2>3. QED
    BY <1>1, <1>4, <2>1, <2>2 DEF RequestOK
<1>6. \A x \in DOMAIN sends' : Placed(sends'[x].of)
  BY <1>2 DEF Stored, RecordOK
<1>7. era' \in [Requests -> Nat] /\ forgotten' \in [Emails -> Nat] /\ configured' \in BOOLEAN
      /\ \A x \in Emails : forgotten[x] <= forgotten'[x]
  BY <1>1 DEF Stored, TypeOK
<1>8. late' \subseteq late \cup {r} /\ l \in Stages /\ l # "sent"
  BY <1>1 DEF Stages
<1>9. QED
  BY <1>1, <1>2, <1>3, <1>4, <1>5, <1>6, <1>7, <1>8, Moved

\* A registration tries a code.
LEMMA VerifyStored ==
  ASSUME Stored, NEW e \in Emails, Verify(e)
  PROVE  Stored'
<1> DEFINE r == codes[e].of
<1>1. /\ e \in DOMAIN codes /\ codes[e] \in Entry /\ r \in Requests /\ CodeOK(e)
      /\ codes[e].attempts \in 0 .. (MaxAttempts - 1)
      /\ UNCHANGED <<clock, configured, sends, pc, email, at, era, forgotten, late, taken>>
      /\ tries[r] = codes[e].attempts /\ used[r] = 0 /\ pc[r] = "sent" /\ email[r] = e
  BY DEF Verify, history, Stored, TypeOK, Entry, CodeOK
<1>2. \A x \in DOMAIN codes \ {e} : codes[x].of # r
  BY <1>1 DEF Stored, CodeOK
<1>3. ASSUME codes' = Drop(codes, {e}), used' \in [Requests -> Nat], tries' \in [Requests -> Nat],
             \A s \in Requests \ {r} : used'[s] = used[s] /\ tries'[s] = tries[s],
             used'[r] <= 1, tries'[r] <= MaxAttempts
      PROVE  Stored'
  <2>1. DOMAIN codes' = DOMAIN codes \ {e} /\ \A x \in DOMAIN codes \ {e} : codes'[x] = codes[x]
    BY <1>3 DEF Drop
  <2>2. IsFiniteSet(DOMAIN codes') /\ Cardinality(DOMAIN codes') <= MaxEntries
    BY <2>1, Smaller DEF Stored, TypeOK
  <2>3. TypeOK'
    BY <1>1, <1>3, <2>1, <2>2 DEF Stored, TypeOK
  <2>4. ASSUME NEW s \in Requests PROVE RequestOK(s)'
    <3>1. RequestOK(s)
      BY DEF Stored
    <3>2. QED
      BY <1>1, <1>3, <3>1 DEF RequestOK, Placed, Live
  <2>5. ASSUME NEW x \in DOMAIN codes' PROVE CodeOK(x)'
    <3>1. CodeOK(x) /\ codes'[x] = codes[x] /\ codes[x].of \in Requests \ {r}
      BY <1>2, <2>1 DEF Stored, TypeOK, Entry
    <3>2. QED
      BY <1>1, <1>3, <3>1 DEF CodeOK
  <2>6. QED
    BY <1>1, <2>2, <2>3, <2>4, <2>5 DEF Stored, RecordOK, Placed, Live
<1>4. used \in [Requests -> Nat] /\ tries \in [Requests -> Nat]
  BY DEF Stored, TypeOK
<1>5. CASE Accepted(e)
  <2>1. /\ codes' = Drop(codes, {e})
        /\ used' = [used EXCEPT ![r] = @ + 1] /\ tries' = [tries EXCEPT ![r] = @ + 1]
    BY <1>5 DEF Accepted
  <2>2. /\ used'[r] <= 1 /\ tries'[r] <= MaxAttempts
        /\ used' \in [Requests -> Nat] /\ tries' \in [Requests -> Nat]
        /\ \A s \in Requests \ {r} : used'[s] = used[s] /\ tries'[s] = tries[s]
    BY <1>1, <1>4, <2>1, Numbers
  <2>3. QED
    BY <1>3, <2>1, <2>2
<1>6. CASE Expired(e)
  <2>1. codes' = Drop(codes, {e}) /\ UNCHANGED <<tries, used>>
    BY <1>6 DEF Expired
  <2>2. used'[r] <= 1 /\ tries'[r] <= MaxAttempts
    BY <1>1, <2>1, Numbers
  <2>3. QED
    BY <1>3, <1>4, <2>1, <2>2
<1>7. CASE Mismatched(e)
  <2>1. tries' = [tries EXCEPT ![r] = @ + 1] /\ UNCHANGED used
    BY <1>7 DEF Mismatched
  <2>2. tries'[r] <= MaxAttempts /\ tries' \in [Requests -> Nat] /\ used'[r] <= 1
    BY <1>1, <1>4, <2>1, Numbers
  <2>3. CASE codes' = Drop(codes, {e})
    BY <1>3, <1>4, <2>1, <2>2, <2>3
  <2>4. CASE codes[e].attempts + 1 < MaxAttempts /\ codes' = [codes EXCEPT ![e].attempts = @ + 1]
    <3> DEFINE new == [codes[e] EXCEPT !.attempts = @ + 1]
    <3>1. new \in Entry /\ new.of = r /\ new.attempts = codes[e].attempts + 1
      <4>1. codes[e].attempts + 1 \in 0 .. (MaxAttempts - 1)
        BY <1>1, <2>4, Numbers
      <4>2. QED
        BY <1>1, <4>1 DEF Entry
    <3>2. /\ DOMAIN codes' = DOMAIN codes /\ codes'[e] = new
          /\ \A x \in DOMAIN codes \ {e} : codes'[x] = codes[x]
      BY <1>1, <2>4
    <3> HIDE DEF new
    <3>3. TypeOK'
      BY <1>1, <1>4, <2>1, <2>2, <3>1, <3>2 DEF Stored, TypeOK
    <3>4. ASSUME NEW s \in Requests PROVE RequestOK(s)'
      <4>1. RequestOK(s)
        BY DEF Stored
      <4>2. QED
        BY <1>1, <1>4, <2>1, <2>2, <4>1 DEF RequestOK, Placed, Live
    <3>5. ASSUME NEW x \in DOMAIN codes' PROVE CodeOK(x)'
      <4>1. CASE x = e
        BY <1>1, <1>4, <2>1, <3>1, <3>2, <4>1 DEF CodeOK
      <4>2. CASE x # e
        <5>1. CodeOK(x) /\ codes'[x] = codes[x] /\ codes[x].of \in Requests \ {r}
          BY <1>2, <3>2, <4>2 DEF Stored, TypeOK, Entry
        <5>2. QED
          BY <1>1, <2>1, <5>1 DEF CodeOK
      <4>3. QED
        BY <4>1, <4>2
    <3>6. QED
      BY <1>1, <3>2, <3>3, <3>4, <3>5 DEF Stored, RecordOK, Placed, Live
  <2>5. QED
    BY <1>1, <1>7, <2>3, <2>4, Numbers DEF Mismatched
<1>8. QED
  BY <1>5, <1>6, <1>7 DEF Verify

\* A tick.
LEMMA TickStored ==
  ASSUME Stored, Tick
  PROVE  Stored'
<1>1. clock \in Nat /\ clock' = clock + 1 /\ UNCHANGED <<configured, table, pc, email, at, book>>
  BY DEF Tick, Stored, TypeOK
<1>2. TypeOK'
  BY <1>1 DEF Stored, TypeOK, table, book
<1>3. ASSUME NEW r \in Requests PROVE RequestOK(r)'
  <2>1. RequestOK(r) /\ pc[r] # "ready" /\ at[r] \in Nat
    BY DEF Stored, Tick, TypeOK
  <2>2. /\ at[r] <= clock => at[r] <= clock'
        /\ at[r] + Cooldown <= clock => at[r] + Cooldown <= clock'
    BY <1>1, <2>1, Numbers
  <2>3. QED
    BY <1>1, <2>1, <2>2 DEF RequestOK, Placed, Live, book
<1>4. \A e \in DOMAIN codes' : CodeOK(e)'
  BY <1>1 DEF Stored, CodeOK, table, book
<1>5. \A e \in DOMAIN sends' : RecordOK(e)'
  BY <1>1 DEF Stored, RecordOK, Placed, Live, table
<1>6. QED
  BY <1>1, <1>2, <1>3, <1>4, <1>5 DEF Stored, table

\* Whatever a mail takes, each step keeps what is known of the stored codes.
LEMMA StoredStep == Stored /\ [Next]_vars => Stored'
<1> SUFFICES ASSUME Stored, [Next]_vars PROVE Stored'
  OBVIOUS
<1>1. CASE SetSend
  BY <1>1 DEF SetSend, table, book, Stored, TypeOK, RequestOK, RecordOK, Placed, Live, CodeOK
<1>2. CASE UNCHANGED vars
  BY <1>2 DEF vars, table, book, Stored, TypeOK, RequestOK, RecordOK, Placed, Live, CodeOK
<1>3. QED
  BY <1>1, <1>2, AskStored, ReserveStored, LimitedStored, MailSentStored, MailFailedStored,
     VerifyStored, TickStored DEF Next

\* It holds at the start.
LEMMA StoredInit == Init => Stored
<1> SUFFICES ASSUME Init PROVE Stored
  OBVIOUS
<1>1. DOMAIN codes = {} /\ DOMAIN sends = {} /\ IsFiniteSet({}) /\ Cardinality({}) = 0
  BY Empty, FS_EmptySet DEF Init
<1>2. TypeOK
  BY <1>1, Numbers DEF Init, TypeOK, Stages
<1>3. \A r \in Requests : RequestOK(r)
  BY Numbers DEF Init, RequestOK, Placed, Live
<1>4. QED
  BY <1>1, <1>2, <1>3 DEF Stored

\* So it always holds.
LEMMA AlwaysStored == Spec => []Stored
BY StoredInit, StoredStep, PTL DEF Spec

\* The tables, clocks and requests stay well typed and the tables keep their size, whatever
\* mails take (evictCodesLocked, evictSendRecordsLocked).
THEOREM Typing == Spec => []TypeOK
BY AlwaysStored, PTL DEF Stored

\* A code counts for one registration and MaxAttempts attempts, whatever mails take.
THEOREM SingleUse == Spec => []CodeSingleUse
<1>1. Stored => CodeSingleUse
  BY Numbers DEF Stored, TypeOK, RequestOK, CodeOK, Entry, CodeSingleUse
<1>2. QED
  BY <1>1, AlwaysStored, PTL

----------------------------------------------------------------------------
(* Steps and the limits *)

\* The numbers of a request that was given a place.
LEMMA PlacedFacts ==
  ASSUME Stored, NEW r \in Requests, Placed(r)
  PROVE  /\ email[r] \in Emails /\ at[r] \in Nat /\ clock \in Nat /\ at[r] <= clock
         /\ era[r] \in Nat /\ forgotten[email[r]] \in Nat /\ era[r] <= forgotten[email[r]]
BY DEF Stored, TypeOK, RequestOK, Placed, Live

\* A late or taken request was given one.
LEMMA HistoryFacts ==
  ASSUME Stored, NEW r \in Requests
  PROVE  /\ r \in late => Placed(r) /\ at[r] + Cooldown <= clock
         /\ r \in taken => Placed(r)
BY DEF Stored, RequestOK

\* The request a record names.
LEMMA NamedFacts ==
  ASSUME Stored, NEW e \in DOMAIN sends
  PROVE  /\ sends[e] \in Record /\ sends[e].of \in Requests /\ Placed(sends[e].of) /\ e \in Emails
         /\ sends[e].last \in Int /\ sends[e].from \in Nat /\ sends[e].sent \in Nat
BY DEF Stored, TypeOK, Record, RecordOK

\* The places counted in a record.
Places(e) == PlacesSince(e, sends[e].from)

\* Places are requests, finitely many, and live.
LEMMA PlacesFacts ==
  ASSUME NEW e
  PROVE  /\ Places(e) \subseteq Requests /\ IsFiniteSet(Places(e)) /\ Cardinality(Places(e)) \in Nat
         /\ \A r \in Requests : r \in Places(e) <=>
               email[r] = e /\ era[r] = forgotten[e] /\ at[r] >= sends[e].from /\ Live(r)
<1>1. Places(e) \subseteq Requests
  BY DEF Places, PlacesSince
<1>2. IsFiniteSet(Places(e)) /\ Cardinality(Places(e)) \in Nat
  BY <1>1, Numbers, FS_Subset, FS_CardinalityType
<1>3. QED
  BY <1>1, <1>2 DEF Places, PlacesSince, Live

\* The record counts its places.
Counted(e) ==
    /\ sends[e].sent <= Cardinality(Places(e))
    /\ Places(e) \cap taken = {} => sends[e].sent = Cardinality(Places(e))

\* QuotaCounts in these words.
LEMMA Quota == QuotaCounts <=> \A e \in DOMAIN sends : Counted(e)
BY DEF QuotaCounts, Counted, Places

\* And after a step.
LEMMA QuotaNext ==
  ASSUME \A e \in DOMAIN sends' : Counted(e)'
  PROVE  QuotaCounts'
BY DEF QuotaCounts, Counted, Places

\* A step that leaves the records alone and gives nobody a place.
LEMMA LimitsKept ==
  ASSUME Stored, Limits, UNCHANGED <<forgotten, sends, late, taken>>, clock' \in Nat, clock <= clock',
         \A r \in Requests : (Placed(r)' <=> Placed(r)),
         \A r \in Requests : Placed(r) => /\ pc'[r] = pc[r] /\ email'[r] = email[r]
                                          /\ at'[r] = at[r] /\ era'[r] = era[r],
         \A e \in DOMAIN codes' : e \in DOMAIN codes /\ codes'[e].of = codes[e].of
  PROVE  Limits'
<1>1. \A r \in Requests : /\ Live(r)' <=> Live(r) /\ Placed(r)
                          /\ Placed(r)' => pc'[r] = pc[r]
                          /\ pc'[r] \in {"sending", "sent", "failed", "forfeited"} => Placed(r)'
  BY DEF Live, Placed
<1>2. \A r, s \in Requests : Placed(r) /\ Placed(s) =>
         (Together(r, s)' <=> Together(r, s)) /\ Distance(r, s)' = Distance(r, s)
  BY DEF Together, Distance
<1>3. \A r \in Requests : Current(r)' <=> Current(r)
  <2> SUFFICES ASSUME NEW r \in Requests PROVE Current(r)' <=> Current(r)
    OBVIOUS
  <2>1. CASE Placed(r)
    BY <1>1, <2>1 DEF Current, Live
  <2>2. CASE ~Placed(r)
    BY <1>1, <2>2 DEF Current, Placed, Live
  <2>3. QED
    BY <2>1, <2>2
<1>4. Spaced'
  <2> SUFFICES ASSUME NEW r \in Requests, NEW s \in Requests, r # s, Live(r)', Live(s)', Together(r, s)'
               PROVE  Apart(r, s)'
    BY DEF Spaced
  <2>1. Live(r) /\ Live(s) /\ Placed(r) /\ Placed(s)
    BY <1>1
  <2>2. Together(r, s) /\ Distance(r, s)' = Distance(r, s)
    BY <1>2, <2>1
  <2>3. Apart(r, s)
    BY <2>1, <2>2 DEF Limits, Spaced
  <2>4. QED
    BY <2>1, <2>2, <2>3 DEF Apart
<1>5. Rested'
  <2> SUFFICES ASSUME NEW r \in Requests, Current(r)
               PROVE  \/ r \in taken
                      \/ at[r] + Cooldown <= clock'
                      \/ email[r] \in DOMAIN sends /\ at[r] <= sends[email[r]].last
    BY <1>3 DEF Rested, Current, Placed
  <2>1. at[r] \in Nat /\ clock \in Nat
    BY PlacedFacts DEF Current, Placed
  <2>2. QED
    BY <2>1, Numbers DEF Limits, Rested
<1>6. Held'
  <2> SUFFICES ASSUME NEW r \in Requests, Current(r)', pc'[r] = "sending", r \notin taken,
                      clock' - at'[r] < Cooldown
               PROVE  /\ email'[r] \in DOMAIN sends
                      /\ sends[email'[r]].last = at'[r] /\ sends[email'[r]].of = r
    BY DEF Held
  <2>1. Current(r) /\ Placed(r)
    BY <1>3 DEF Current, Placed
  <2>2. at[r] \in Nat /\ clock \in Nat /\ at'[r] = at[r] /\ pc[r] = "sending" /\ email'[r] = email[r]
    BY <2>1, PlacedFacts
  <2>3. clock - at[r] < Cooldown
    BY <2>2, Numbers
  <2>4. QED
    BY <2>1, <2>2, <2>3 DEF Limits, Held
<1>7. Shown'
  <2> SUFFICES ASSUME NEW e \in DOMAIN sends
               PROVE  ShownAt(e)'
    BY DEF Shown
  <2>1. PICK h \in Requests : h = sends[e].of
    BY NamedFacts
  <2>2. /\ sends[e].from \in Nat /\ clock \in Nat /\ sends[e].from <= clock
    BY <1>3, <2>1, NamedFacts DEF Limits, Shown, ShownAt, Stored, TypeOK
  <2>3. Current(h)' <=> Current(h)
    BY <1>3
  <2>4. Placed(h)
    BY <2>1, NamedFacts
  <2>5. QED
    BY <2>1, <2>2, <2>3, <2>4 DEF Limits, Shown, ShownAt, Current, Live
<1>8. TakenOnlyLate'
  <2> SUFFICES ASSUME NEW s \in taken
               PROVE  \E r \in Requests \ {s} :
                         /\ email'[r] = email'[s] /\ pc'[r] = "failed" /\ at'[r] <= at'[s]
                         /\ r \in late \/ era'[r] < era'[s]
    BY DEF TakenOnlyLate
  <2>1. s \in Requests /\ Placed(s)
    BY HistoryFacts DEF Stored, TypeOK
  <2>2. PICK r \in Requests \ {s} : /\ email[r] = email[s] /\ pc[r] = "failed" /\ at[r] <= at[s]
                                    /\ r \in late \/ era[r] < era[s]
    BY DEF Limits, TakenOnlyLate
  <2>3. Placed(r)
    BY <2>2 DEF Placed
  <2>4. QED
    BY <2>1, <2>2, <2>3
<1>9. ForfeitedOnlyLate'
  BY <1>1 DEF Limits, ForfeitedOnlyLate
<1>10. QuotaCounts'
  <2> SUFFICES ASSUME NEW e \in DOMAIN sends
               PROVE  Counted(e)'
    BY QuotaNext
  <2>1. Places(e)' = Places(e)
    <3>1. \A r \in Requests : Live(r)' => Live(r) /\ Placed(r)
      BY <1>1
    <3>2. \A r \in Requests : Live(r) => Live(r)' /\ Placed(r)
      BY <1>1 DEF Placed
    <3>3. Places(e)' = {r \in Requests : email'[r] = e /\ era'[r] = forgotten[e]
                                        /\ at'[r] >= sends[e].from /\ Live(r)'}
      BY DEF Places, PlacesSince, Live
    <3>4. Places(e) = {r \in Requests : email[r] = e /\ era[r] = forgotten[e]
                                       /\ at[r] >= sends[e].from /\ Live(r)}
      BY DEF Places, PlacesSince, Live
    <3>5. QED
      BY <3>1, <3>2, <3>3, <3>4
  <2>2. QED
    BY <2>1, Quota DEF Limits, Counted
<1>11. OlderCodeOnlyLate'
  <2> SUFFICES ASSUME NEW e \in DOMAIN codes', NEW s \in Requests, pc'[s] = "sent",
                      Together(codes[e].of, s)', at'[codes[e].of] < at'[s]
               PROVE  codes[e].of \in late \/ codes[e].of \in taken
    BY DEF OlderCodeOnlyLate
  <2>1. /\ e \in DOMAIN codes /\ codes'[e].of = codes[e].of
        /\ codes[e].of \in Requests /\ pc[codes[e].of] = "sent" /\ Placed(s)
    BY <1>1 DEF Stored, TypeOK, Entry, CodeOK
  <2>2. Placed(codes[e].of)
    BY <2>1 DEF Placed, Live
  <2>3. Together(codes[e].of, s) /\ at[codes[e].of] < at[s] /\ pc[s] = "sent"
    BY <1>2, <2>1, <2>2
  <2>4. QED
    BY <2>1, <2>3 DEF Limits, OlderCodeOnlyLate
<1>12. QED
  BY <1>4, <1>5, <1>6, <1>7, <1>8, <1>9, <1>10, <1>11 DEF Limits

\* The mail is sent: an older code replaces a newer one only after its mail came late.
LEMMA MailSentLimits ==
  ASSUME Stored, Limits, NEW r \in Requests, MailSent(r)
  PROVE  Limits'
<1> DEFINE e == email[r]
           k == KeptCodes(at[r])
           new == [of |-> r, expires |-> at[r] + TTL, attempts |-> 0]
<1>1. /\ pc[r] = "sending" /\ pc' = [pc EXCEPT ![r] = "sent"] /\ codes' = Put(k, e, new)
      /\ UNCHANGED <<clock, configured, sends, email, at, era, forgotten, taken, tries, used>>
      /\ e \in Emails /\ RequestOK(r) /\ at[r] \in Nat /\ pc \in [Requests -> Stages]
      /\ late' = IF clock - at[r] >= Cooldown THEN late \cup {r} ELSE late
  BY DEF MailSent, Outlasted, Stored, RequestOK, Goto, TypeOK
<1>2. DOMAIN k \subseteq DOMAIN codes /\ \A x \in DOMAIN k : k[x] = codes[x]
  BY <1>1, KeptCodesSmall
<1> HIDE DEF k, new
<1>3. /\ DOMAIN codes' = DOMAIN k \cup {e} /\ codes'[e].of = r
      /\ \A x \in DOMAIN k \ {e} : codes'[x] = codes[x]
  BY <1>1, <1>2 DEF Put, new
<1>4. /\ Live(r) /\ late \subseteq late' /\ \A s \in Requests : Live(s)' <=> Live(s)
      /\ \A s \in Requests \ {r} : pc'[s] = pc[s]
  BY <1>1 DEF Live
<1>5. \A s \in Requests : Current(s)' <=> Current(s)
  BY <1>1, <1>4 DEF Current
<1>6. Spaced'
  BY <1>1, <1>4 DEF Limits, Spaced, Apart, Together, Distance
<1>7. Rested'
  BY <1>1, <1>5 DEF Limits, Rested
<1>8. Held'
  BY <1>1, <1>4, <1>5 DEF Limits, Held
<1>9. Shown'
  <2> SUFFICES ASSUME NEW x \in DOMAIN sends
               PROVE  ShownAt(x)'
    BY <1>1 DEF Shown
  <2>1. PICK h \in Requests : h = sends[x].of
    BY NamedFacts
  <2>2. Current(h)' <=> Current(h)
    BY <1>5
  <2>3. QED
    BY <1>1, <2>1, <2>2 DEF Limits, Shown, ShownAt, Current, Live
<1>10. TakenOnlyLate' /\ ForfeitedOnlyLate'
  BY <1>1, <1>4 DEF Limits, TakenOnlyLate, ForfeitedOnlyLate
<1>11. QuotaCounts'
  <2> SUFFICES ASSUME NEW x \in DOMAIN sends
               PROVE  Counted(x)'
    BY <1>1, QuotaNext
  <2>1. Places(x)' = Places(x)
    BY <1>1, <1>4 DEF Places, PlacesSince, Live
  <2>2. QED
    BY <1>1, <2>1, Quota DEF Limits, Counted
<1>12. OlderCodeOnlyLate'
  <2> SUFFICES ASSUME NEW x \in DOMAIN codes', NEW q \in Requests, q = codes'[x].of,
                      NEW s \in Requests, pc'[s] = "sent", Together(q, s), at[q] < at[s]
               PROVE  q \in late' \/ q \in taken
    <3>1. \A x \in DOMAIN codes' : codes'[x].of \in Requests
      BY <1>2, <1>3 DEF Stored, TypeOK, Entry
    <3>2. QED
      BY <1>1, <3>1 DEF OlderCodeOnlyLate, Together
  <2>1. CASE x = e
    <3>1. q = r /\ s # r /\ Live(s)
      BY <1>1, <1>3, <1>4, <2>1 DEF Live, Stored, TypeOK
    <3>2. at[s] \in Nat /\ at[r] \in Nat /\ clock \in Nat /\ at[s] <= clock
      BY <3>1, PlacedFacts DEF Placed, Stored, TypeOK
    <3>3. Apart(r, s)
      BY <1>4, <3>1 DEF Limits, Spaced
    <3>4. CASE r \in taken
      BY <3>1, <3>4
    <3>5. CASE Distance(r, s) >= Cooldown
      <4>1. clock - at[r] >= Cooldown
        BY <3>1, <3>2, <3>5, Numbers DEF Distance
      <4>2. QED
        BY <1>1, <3>1, <4>1
    <3>6. QED
      BY <3>1, <3>2, <3>3, <3>4, <3>5 DEF Apart
  <2>2. CASE x # e
    <3>1. x \in DOMAIN codes /\ codes'[x] = codes[x] /\ CodeOK(x)
      BY <1>2, <1>3, <2>2 DEF Stored
    <3>2. email[q] = x /\ s # r
      BY <2>2, <3>1 DEF CodeOK, Together
    <3>3. pc[s] = "sent"
      BY <1>1, <3>2
    <3>4. QED
      BY <1>4, <3>1, <3>3 DEF Limits, OlderCodeOnlyLate
  <2>3. QED
    BY <2>1, <2>2
<1>13. QED
  BY <1>6, <1>7, <1>8, <1>9, <1>10, <1>11, <1>12 DEF Limits

\* Stale records only, or all, are evicted.
LEMMA Evicted ==
  ASSUME Stored, NEW e \in Emails, NEW now, ~Overflow(e, now)
  PROVE  DOMAIN sends \subseteq DOMAIN KeptSends(e, now) \cup StaleSends(now)
BY DEF KeptSends, Drop

\* A table too full is replaced.
LEMMA Flooded ==
  ASSUME Stored, NEW e \in Emails, NEW now, Overflow(e, now)
  PROVE  KeptSends(e, now) = <<>>
<1>1. IsFiniteSet(DOMAIN sends) /\ DOMAIN sends \ StaleSends(now) \subseteq DOMAIN sends
  BY DEF Stored
<1>2. /\ Cardinality(DOMAIN sends \ StaleSends(now)) <= Cardinality(DOMAIN sends)
      /\ Cardinality(DOMAIN sends) \in Nat /\ Cardinality(DOMAIN sends \ StaleSends(now)) \in Nat
  BY <1>1, FS_Subset, FS_CardinalityType
<1>3. ~(e \in DOMAIN sends \/ Cardinality(DOMAIN sends) < MaxEntries)
  BY <1>2, Numbers DEF Overflow
<1>4. QED
  BY <1>3 DEF KeptSends

\* A place is reserved: only after a cooldown, or when the one before was taken.
LEMMA ReserveLimits ==
  ASSUME Stored, Limits, NEW r \in Requests, Reserve(r)
  PROVE  Limits'
<1> DEFINE e == email[r]
           now == at[r]
<1>1. /\ pc[r] = "ready" /\ e \in Emails /\ now = clock /\ now \in Nat /\ MaySend(e, now)
      /\ UNCHANGED <<clock, configured, codes, email, at, late, taken, tries, used>>
      /\ era' = [era EXCEPT ![r] = forgotten'[e]] /\ era \in [Requests -> Nat]
      /\ pc' = [pc EXCEPT ![r] = IF configured THEN "sending" ELSE "panicked"]
      /\ pc \in [Requests -> Stages] /\ forgotten \in [Emails -> Nat]
  BY DEF Reserve, Stored, RequestOK, TypeOK, Goto, history
<1>2. /\ era'[r] = forgotten'[e] /\ ~Live(r) /\ Live(r)' /\ pc'[r] \in {"sending", "panicked"}
      /\ \A s \in Requests \ {r} : era'[s] = era[s] /\ pc'[s] = pc[s] /\ (Live(s)' <=> Live(s))
      /\ r \notin taken /\ r \notin late
  <2>1. ~Placed(r)
    BY <1>1 DEF Placed, Live
  <2>2. r \notin taken /\ r \notin late
    BY <2>1, HistoryFacts
  <2>3. QED
    BY <1>1, <2>2 DEF Live
<1>3. /\ Overflow(e, now) => \A x \in Emails : forgotten'[x] = forgotten[x] + 1
      /\ ~Overflow(e, now) => forgotten' = forgotten
  BY DEF Reserve
<1>4. \A x \in Emails : /\ forgotten[x] \in Nat /\ forgotten'[x] \in Nat
                        /\ forgotten[x] <= forgotten'[x]
                        /\ Overflow(e, now) => forgotten[x] < forgotten'[x]
  BY <1>1, <1>3
<1>5. ASSUME NEW s \in Requests \ {r}, Live(s), era[s] = forgotten'[email[s]]
      PROVE  ~Overflow(e, now) /\ forgotten' = forgotten /\ Current(s)
  <2>1. email[s] \in Emails /\ era[s] \in Nat /\ era[s] <= forgotten[email[s]]
    BY <1>5, PlacedFacts DEF Placed
  <2>2. ~Overflow(e, now)
    BY <1>4, <1>5, <2>1
  <2>3. QED
    BY <1>3, <1>5, <2>2 DEF Current
<1>6. ASSUME NEW s \in Requests \ {r}, Live(s), email[s] = e, era[s] = era'[r]
      PROVE  s \in taken \/ at[s] + Cooldown <= clock
  <2>1. Current(s) /\ at[s] \in Nat
    BY <1>2, <1>5, <1>6, PlacedFacts DEF Placed
  <2>2. CASE e \in DOMAIN sends /\ at[s] <= sends[e].last
    <3>1. now - sends[e].last >= Cooldown /\ sends[e].last \in Int
      BY <1>1, <2>2 DEF MaySend, Stored, TypeOK, Record
    <3>2. QED
      BY <1>1, <2>1, <2>2, <3>1, Numbers
  <2>3. QED
    BY <1>6, <2>1, <2>2 DEF Limits, Rested
<1>7. /\ \A x \in DOMAIN sends' \ {e} : x \in DOMAIN sends /\ sends'[x] = sends[x]
      /\ e \in DOMAIN sends' /\ sends'[e].last = now /\ sends'[e].of = r
      /\ \/ /\ e \in DOMAIN sends /\ sends'[e].from = sends[e].from
            /\ sends'[e].sent = sends[e].sent + 1
         \/ sends'[e].from = now /\ sends'[e].sent = 1
  BY ReservedRecord
<1>8. ~Overflow(e, now) => DOMAIN sends \subseteq DOMAIN sends' \cup StaleSends(now)
  <2>1. ~Overflow(e, now) => DOMAIN sends \subseteq DOMAIN KeptSends(e, now) \cup StaleSends(now)
    BY <1>1, Evicted
  <2>2. DOMAIN sends' = DOMAIN KeptSends(e, now) \cup {e}
    BY DEF Reserve, Marked, Put
  <2>3. QED
    BY <2>1, <2>2
<1>9. \A x \in DOMAIN sends' \ {e} : x \in Emails /\ ~Overflow(e, now)
  <2>1. Overflow(e, now) => KeptSends(e, now) = <<>>
    BY <1>1, Flooded
  <2>2. DOMAIN sends' = DOMAIN KeptSends(e, now) \cup {e}
    BY DEF Reserve, Marked, Put
  <2>3. QED
    BY <1>7, <2>1, <2>2, Empty DEF Stored, TypeOK
<1>10. Spaced'
  <2>1. ASSUME NEW s \in Requests \ {r}, Live(s), email[s] = e, era[s] = era'[r]
        PROVE  Apart(r, s) /\ Apart(s, r)
    <3>1. at[s] \in Nat /\ at[s] <= clock
      BY <2>1, PlacedFacts DEF Placed
    <3>2. CASE s \in taken
      BY <1>1, <3>1, <3>2 DEF Apart
    <3>3. CASE at[s] + Cooldown <= now
      BY <1>1, <3>1, <3>3, Numbers DEF Apart, Distance
    <3>4. QED
      BY <1>1, <1>6, <2>1, <3>2, <3>3
  <2> SUFFICES ASSUME NEW q \in Requests, NEW s \in Requests, q # s, Live(q)', Live(s)',
                      Together(q, s)'
               PROVE  Apart(q, s)
    BY <1>1 DEF Spaced, Apart, Distance
  <2>2. CASE q = r
    BY <1>1, <1>2, <2>1, <2>2 DEF Together
  <2>3. CASE s = r
    BY <1>1, <1>2, <2>1, <2>3 DEF Together
  <2>4. CASE q # r /\ s # r
    BY <1>1, <1>2, <2>4 DEF Together, Limits, Spaced
  <2>5. QED
    BY <2>2, <2>3, <2>4
<1>11. Rested'
  <2> SUFFICES ASSUME NEW s \in Requests, Live(s)', era'[s] = forgotten'[email[s]], s \notin taken
               PROVE  \/ at[s] + Cooldown <= clock
                      \/ email[s] \in DOMAIN sends' /\ at[s] <= sends'[email[s]].last
    BY <1>1 DEF Rested, Current
  <2>1. CASE s = r
    BY <1>1, <1>7, <2>1
  <2>2. CASE s # r /\ email[s] = e
    BY <1>2, <1>6, <2>2
  <2>3. CASE s # r /\ email[s] # e
    <3>1. ~Overflow(e, now) /\ Current(s) /\ at[s] \in Nat
      BY <1>2, <1>5, <2>3, PlacedFacts DEF Placed
    <3>2. CASE email[s] \in DOMAIN sends /\ at[s] <= sends[email[s]].last
      <4>1. CASE email[s] \in DOMAIN sends'
        BY <1>7, <2>3, <3>2, <4>1
      <4>2. CASE email[s] \in StaleSends(now)
        <5>1. now - sends[email[s]].last >= HourWindow /\ sends[email[s]].last \in Int
          BY <3>2, <4>2 DEF StaleSends, Stored, TypeOK, Record
        <5>2. QED
          BY <1>1, <3>1, <3>2, <5>1, Numbers
      <4>3. QED
        BY <1>8, <3>1, <3>2, <4>1, <4>2
    <3>3. QED
      BY <3>1, <3>2 DEF Limits, Rested
  <2>4. QED
    BY <2>1, <2>2, <2>3
<1>12. Held'
  <2> SUFFICES ASSUME NEW s \in Requests, Live(s)', era'[s] = forgotten'[email[s]], pc'[s] = "sending",
                      s \notin taken, clock - at[s] < Cooldown
               PROVE  /\ email[s] \in DOMAIN sends'
                      /\ sends'[email[s]].last = at[s] /\ sends'[email[s]].of = s
    BY <1>1 DEF Held, Current
  <2>1. CASE s = r
    BY <1>1, <1>7, <2>1
  <2>2. CASE s # r
    <3>1. ~Overflow(e, now) /\ Current(s) /\ at[s] \in Nat /\ pc[s] = "sending"
      BY <1>2, <1>5, <2>2, PlacedFacts DEF Placed
    <3>2. /\ email[s] \in DOMAIN sends
          /\ sends[email[s]].last = at[s] /\ sends[email[s]].of = s
      BY <2>2, <3>1 DEF Limits, Held
    <3>3. email[s] # e
      <4>1. email[s] = e => s \in taken \/ at[s] + Cooldown <= clock
        BY <1>2, <1>6, <2>2
      <4>2. QED
        BY <1>1, <3>1, <4>1, Numbers
    <3>4. email[s] \notin StaleSends(now)
      BY <1>1, <3>1, <3>2, Numbers DEF StaleSends
    <3>5. QED
      BY <1>7, <1>8, <3>1, <3>2, <3>3, <3>4
  <2>3. QED
    BY <2>1, <2>2
<1>13. Shown'
  <2>1. ASSUME NEW x \in DOMAIN sends' \ {e}
        PROVE  ShownAt(x)'
    <3>1. x \in DOMAIN sends /\ sends'[x] = sends[x] /\ forgotten' = forgotten
      BY <1>3, <1>7, <1>9
    <3>2. PICK h \in Requests : h = sends[x].of
      BY <3>1, NamedFacts
    <3>3. CASE sends[x].last # Never
      <4>1. /\ email[h] = x /\ Current(h) /\ h \notin taken /\ at[h] = sends[x].last
            /\ sends[x].from <= sends[x].last /\ sends[x].from <= clock
        BY <3>1, <3>2, <3>3 DEF Limits, Shown, ShownAt
      <4>2. h # r
        BY <1>2, <4>1 DEF Current
      <4>3. Live(h)' /\ era'[h] = forgotten'[email'[h]]
        BY <1>1, <1>2, <3>1, <4>1, <4>2 DEF Current
      <4>4. QED
        BY <1>1, <3>1, <3>2, <4>1, <4>3 DEF ShownAt, Current, Live
    <3>4. CASE sends[x].last = Never
      BY <1>1, <3>1, <3>4 DEF Limits, Shown, ShownAt
    <3>5. QED
      BY <3>3, <3>4
  <2>2. e \in DOMAIN sends => sends[e].from <= now
    BY <1>1 DEF Limits, Shown, ShownAt
  <2>3. ASSUME NEW x \in DOMAIN sends', x = e
        PROVE  ShownAt(x)'
    BY <1>1, <1>2, <1>7, <2>2, <2>3 DEF ShownAt, Current, Live
  <2>4. QED
    BY <2>1, <2>3 DEF Shown
<1>14. TakenOnlyLate'
  <2> SUFFICES ASSUME NEW s \in taken
               PROVE  \E q \in Requests \ {s} :
                         /\ email[q] = email[s] /\ pc'[q] = "failed" /\ at[q] <= at[s]
                         /\ q \in late \/ era'[q] < era'[s]
    BY <1>1 DEF TakenOnlyLate
  <2>1. PICK q \in Requests \ {s} : /\ email[q] = email[s] /\ pc[q] = "failed" /\ at[q] <= at[s]
                                    /\ q \in late \/ era[q] < era[s]
    BY DEF Limits, TakenOnlyLate
  <2>2. q # r /\ s # r /\ s \in Requests
    BY <1>1, <1>2, <2>1 DEF Stored, TypeOK
  <2>3. QED
    BY <1>2, <2>1, <2>2
<1>15. ForfeitedOnlyLate'
  <2> SUFFICES ASSUME NEW s \in Requests, pc'[s] = "forfeited"
               PROVE  s \in late \/ s \in taken \/ era'[s] < forgotten'[email[s]]
    BY <1>1 DEF ForfeitedOnlyLate
  <2>1. s # r /\ pc[s] = "forfeited" /\ era'[s] = era[s] /\ Placed(s)
    BY <1>2 DEF Placed, Live
  <2>2. s \in late \/ s \in taken \/ era[s] < forgotten[email[s]]
    BY <2>1 DEF Limits, ForfeitedOnlyLate
  <2>3. email[s] \in Emails /\ era[s] \in Nat
    BY <2>1, PlacedFacts
  <2>4. QED
    BY <1>4, <2>1, <2>2, <2>3
<1>16. QuotaCounts'
  <2> SUFFICES ASSUME NEW x \in DOMAIN sends'
               PROVE  Counted(x)'
    BY QuotaNext
  <2>1. CASE x # e
    <3>1. x \in DOMAIN sends /\ sends'[x] = sends[x] /\ forgotten' = forgotten
      BY <1>3, <1>7, <1>9, <2>1
    <3>2. Places(x)' = Places(x)
      BY <1>1, <1>2, <2>1, <3>1 DEF Places, PlacesSince, Live
    <3>3. QED
      BY <1>1, <3>1, <3>2, Quota DEF Limits, Counted
  <2>2. CASE x = e
    <3>1. CASE /\ e \in DOMAIN sends /\ sends'[e].from = sends[e].from
               /\ sends'[e].sent = sends[e].sent + 1
      <4> DEFINE P == Places(e)
      <4>1. forgotten' = forgotten /\ sends[e].from <= now
        BY <1>1, <1>3, <3>1 DEF Overflow, Limits, Shown, ShownAt
      <4>2. Places(x)' = P \cup {r} /\ r \notin P
        BY <1>1, <1>2, <2>2, <3>1, <4>1 DEF Places, PlacesSince, Live
      <4>3. IsFiniteSet(P) /\ Cardinality(P) \in Nat
        BY PlacesFacts
      <4>4. Cardinality(P \cup {r}) = Cardinality(P) + 1
        BY <4>2, <4>3, FS_AddElement
      <4>5. Counted(e) /\ sends[e].sent \in Nat
        BY <3>1, Quota, NamedFacts DEF Limits
      <4>6. sends[e].sent <= Cardinality(P) /\ (P \cap taken = {} => sends[e].sent = Cardinality(P))
        BY <4>5 DEF Counted
      <4>7. Places(x)' \cap taken = {} => P \cap taken = {}
        BY <4>2
      <4> HIDE DEF P
      <4>8. Cardinality(Places(x)') = Cardinality(P) + 1
        BY <4>2, <4>4
      <4>9. /\ sends'[e].sent <= Cardinality(Places(x)')
            /\ Places(x)' \cap taken = {} => sends'[e].sent = Cardinality(Places(x)')
        BY <3>1, <4>3, <4>5, <4>6, <4>7, <4>8
      <4>10. QED
        BY <1>1, <2>2, <4>9 DEF Counted
    <3>2. CASE sends'[e].from = now /\ sends'[e].sent = 1
      <4> DEFINE P == Places(x)'
      <4>1. P = {s \in Requests : /\ email[s] = e /\ era'[s] = forgotten'[e] /\ at[s] >= now
                                  /\ Live(s)'}
        BY <1>1, <2>2, <3>2 DEF Places, PlacesSince, Live
      <4>2. r \in P
        BY <1>1, <1>2, <4>1
      <4>3. IsFiniteSet(P) /\ Cardinality(P) \in Nat
        BY <4>1, Numbers, FS_Subset, FS_CardinalityType
      <4>4. \A s \in P : s = r \/ s \in taken
        <5> SUFFICES ASSUME NEW s \in P, s # r PROVE s \in taken
          OBVIOUS
        <5>1. s \in Requests \ {r} /\ Live(s) /\ email[s] = e /\ era[s] = era'[r] /\ at[s] >= now
          BY <1>2, <4>1
        <5>2. s \in taken \/ at[s] + Cooldown <= clock
          BY <1>6, <5>1
        <5>3. at[s] \in Nat
          BY <5>1, PlacedFacts DEF Placed
        <5>4. QED
          BY <1>1, <5>1, <5>2, <5>3, Numbers
      <4> HIDE DEF P
      <4>5. Cardinality(P) # 0
        BY <4>2, <4>3, FS_EmptySet
      <4>6. P \cap taken = {} => P = {r}
        BY <4>2, <4>4
      <4>7. Cardinality({r}) = 1
        BY FS_Singleton
      <4>8. /\ sends'[x].sent <= Cardinality(P)
            /\ P \cap taken = {} => sends'[x].sent = Cardinality(P)
        BY <2>2, <3>2, <4>3, <4>5, <4>6, <4>7
      <4>9. QED
        BY <1>1, <4>8 DEF Counted, P
    <3>3. QED
      BY <1>7, <3>1, <3>2
  <2>3. QED
    BY <2>1, <2>2
<1>17. OlderCodeOnlyLate'
  <2> SUFFICES ASSUME NEW x \in DOMAIN codes, NEW s \in Requests, pc'[s] = "sent",
                      email[codes[x].of] = email[s], era'[codes[x].of] = era'[s],
                      at[codes[x].of] < at[s]
               PROVE  codes[x].of \in late \/ codes[x].of \in taken
    BY <1>1 DEF OlderCodeOnlyLate, Together
  <2>1. codes[x].of \in Requests /\ pc[codes[x].of] = "sent" /\ codes[x].of # r /\ s # r /\ pc[s] = "sent"
    BY <1>1, <1>2 DEF Stored, TypeOK, Entry, CodeOK
  <2>2. QED
    BY <1>2, <2>1 DEF Limits, OlderCodeOnlyLate, Together
<1>18. QED
  BY <1>10, <1>11, <1>12, <1>13, <1>14, <1>15, <1>16, <1>17 DEF Limits

\* A mail failed: the place given back is the request's own, or another's is taken.
LEMMA MailFailedLimits ==
  ASSUME Stored, Limits, NEW r \in Requests, MailFailed(r)
  PROVE  Limits'
<1> DEFINE e == email[r]
           now == at[r]
<1>1. /\ pc[r] = "sending" /\ e \in Emails /\ now \in Nat /\ sends' = RolledBack(e, now)
      /\ UNCHANGED <<clock, configured, codes, email, at, era, forgotten, tries, used>>
      /\ pc' = [pc EXCEPT ![r] = IF sends' # sends THEN "failed" ELSE "forfeited"]
      /\ pc \in [Requests -> Stages] /\ clock \in Nat /\ now <= clock
      /\ late' = IF clock - now >= Cooldown THEN late \cup {r} ELSE late
      /\ taken' = IF sends' # sends THEN taken \cup ({sends[e].of} \ {r}) ELSE taken
  BY DEF MailFailed, Outlasted, Stored, RequestOK, TypeOK, Goto
<1>2. /\ Live(r) /\ Placed(r) /\ late \subseteq late' /\ taken \subseteq taken'
      /\ pc'[r] = IF sends' # sends THEN "failed" ELSE "forfeited"
      /\ Live(r)' <=> sends' = sends
      /\ \A s \in Requests \ {r} : pc'[s] = pc[s] /\ (Live(s)' <=> Live(s))
  BY <1>1 DEF Live, Placed
<1>3. \A s \in Requests : Live(s)' => Live(s)
  BY <1>2
<1>4. /\ \A x \in DOMAIN sends' : x \in DOMAIN sends
      /\ \A x \in DOMAIN sends \ {e} : x \in DOMAIN sends' /\ sends'[x] = sends[x]
      /\ \/ sends' = sends /\ (e \in DOMAIN sends => now > sends[e].last)
         \/ e \in DOMAIN sends /\ sends[e].sent = 1 /\ DOMAIN sends' = DOMAIN sends \ {e}
         \/ /\ e \in DOMAIN sends /\ sends[e].sent > 1 /\ DOMAIN sends' = DOMAIN sends
            /\ sends'[e].last = Never /\ sends'[e].from = sends[e].from
            /\ sends'[e].sent = sends[e].sent - 1 /\ sends'[e].of = sends[e].of
      /\ sends' # sends => e \in DOMAIN sends /\ now <= sends[e].last
  BY <1>1, RolledRecords
\* The request whose place the record shows, when it is rolled back.
<1>5. ASSUME sends' # sends
      PROVE  \E h \in Requests : /\ h = sends[e].of /\ email[h] = e /\ Current(h) /\ h \notin taken
                                 /\ at[h] = sends[e].last /\ now <= at[h]
                                 /\ sends[e].from <= at[h] /\ taken' = taken \cup ({h} \ {r})
                                 /\ Placed(h)
  <2>1. e \in DOMAIN sends /\ now <= sends[e].last
    BY <1>4, <1>5
  <2>2. sends[e].of \in Requests /\ sends[e].last \in Int /\ Placed(sends[e].of)
    BY <2>1, NamedFacts
  <2>3. sends[e].last # Never
    BY <1>1, <2>1, <2>2, Numbers
  <2>4. /\ email[sends[e].of] = e /\ Current(sends[e].of) /\ sends[e].of \notin taken
        /\ at[sends[e].of] = sends[e].last /\ sends[e].from <= sends[e].last
    BY <2>1, <2>3 DEF Limits, Shown, ShownAt
  <2>5. QED
    BY <1>1, <1>5, <2>1, <2>2, <2>4
<1>6. \A s \in Requests : s \in taken' /\ s \notin taken => sends' # sends /\ s = sends[e].of /\ s # r
  BY <1>1
<1>7. Spaced'
  BY <1>1, <1>2, <1>3 DEF Limits, Spaced, Apart, Together, Distance
<1>8. Rested'
  <2> SUFFICES ASSUME NEW s \in Requests, Live(s)', era[s] = forgotten[email[s]], s \notin taken'
               PROVE  \/ at[s] + Cooldown <= clock
                      \/ email[s] \in DOMAIN sends' /\ at[s] <= sends'[email[s]].last
    BY <1>1 DEF Rested, Current
  <2>1. Live(s) /\ Current(s) /\ s \notin taken /\ at[s] \in Nat
    BY <1>2, <1>3, PlacedFacts DEF Current, Placed
  <2>2. \/ at[s] + Cooldown <= clock
        \/ email[s] \in DOMAIN sends /\ at[s] <= sends[email[s]].last
    BY <2>1 DEF Limits, Rested
  <2>3. CASE email[s] # e \/ sends' = sends
    BY <1>4, <2>2, <2>3
  <2>4. CASE email[s] = e /\ sends' # sends
    <3>1. PICK h \in Requests : /\ h = sends[e].of /\ email[h] = e /\ Current(h) /\ h \notin taken
                                /\ at[h] = sends[e].last /\ taken' = taken \cup ({h} \ {r})
                                /\ Placed(h)
      BY <1>5, <2>4
    <3>2. s # r
      BY <1>2, <2>4
    <3>3. s # h
      BY <3>1, <3>2
    <3>4. Live(h) /\ Together(s, h) /\ at[h] \in Nat /\ at[h] <= clock
      BY <2>1, <2>4, <3>1, PlacedFacts DEF Current, Together
    <3>5. Apart(s, h)
      BY <2>1, <3>3, <3>4 DEF Limits, Spaced
    <3>6. Distance(s, h) >= Cooldown
      BY <2>1, <3>1, <3>5 DEF Apart
    <3>7. at[s] + Cooldown <= clock \/ at[s] <= at[h]
      BY <2>2, <2>4, <3>1
    <3>8. QED
      BY <1>1, <2>1, <3>4, <3>6, <3>7, Numbers DEF Distance
  <2>5. QED
    BY <2>3, <2>4
<1>9. Held'
  <2> SUFFICES ASSUME NEW s \in Requests, Live(s)', era[s] = forgotten[email[s]], pc'[s] = "sending",
                      s \notin taken', clock - at[s] < Cooldown
               PROVE  /\ email[s] \in DOMAIN sends'
                      /\ sends'[email[s]].last = at[s] /\ sends'[email[s]].of = s
    BY <1>1 DEF Held, Current
  <2>1. s # r /\ Current(s) /\ s \notin taken /\ pc[s] = "sending"
    BY <1>2 DEF Current
  <2>2. /\ email[s] \in DOMAIN sends
        /\ sends[email[s]].last = at[s] /\ sends[email[s]].of = s
    BY <2>1 DEF Limits, Held
  <2>3. email[s] # e \/ sends' = sends
    BY <1>5, <2>1, <2>2
  <2>4. QED
    BY <1>4, <2>2, <2>3
<1>10. Shown'
  <2> SUFFICES ASSUME NEW x \in DOMAIN sends'
               PROVE  ShownAt(x)'
    BY DEF Shown
  <2>1. x \in DOMAIN sends /\ sends[x].from <= clock
    BY <1>4 DEF Limits, Shown, ShownAt
  <2>2. CASE x = e /\ sends' # sends
    <3>1. sends'[x].last = Never /\ sends'[x].from = sends[x].from
      BY <1>4, <2>2
    <3>2. QED
      BY <1>1, <2>1, <3>1 DEF ShownAt
  <2>3. CASE x # e \/ sends' = sends
    <3>1. sends'[x] = sends[x]
      BY <1>4, <2>1, <2>3
    <3>2. PICK h \in Requests : h = sends[x].of
      BY <2>1, NamedFacts
    <3>3. CASE sends[x].last # Never
      <4>1. /\ email[h] = x /\ Current(h) /\ h \notin taken /\ at[h] = sends[x].last
            /\ sends[x].from <= sends[x].last
        BY <2>1, <3>2, <3>3 DEF Limits, Shown, ShownAt
      <4>2. Live(h)'
        BY <1>2, <2>3, <4>1 DEF Current
      <4>3. h \notin taken'
        <5>1. h \in taken' => sends' # sends /\ email[h] = e
          BY <1>5, <1>6, <4>1
        <5>2. QED
          BY <2>3, <4>1, <5>1
      <4>4. era'[h] = forgotten'[email'[h]]
        BY <1>1, <4>1 DEF Current
      <4>5. QED
        BY <1>1, <2>1, <3>1, <3>2, <4>1, <4>2, <4>3, <4>4 DEF ShownAt, Current, Live
    <3>4. CASE sends[x].last = Never
      BY <1>1, <2>1, <3>1, <3>4 DEF ShownAt
    <3>5. QED
      BY <3>3, <3>4
  <2>4. QED
    BY <2>2, <2>3
<1>11. TakenOnlyLate'
  <2> SUFFICES ASSUME NEW s \in taken'
               PROVE  \E q \in Requests \ {s} :
                         /\ email[q] = email[s] /\ pc'[q] = "failed" /\ at[q] <= at[s]
                         /\ q \in late' \/ era[q] < era[s]
    BY <1>1 DEF TakenOnlyLate
  <2>1. ASSUME NEW q \in taken
        PROVE  \E t \in Requests \ {q} : /\ email[t] = email[q] /\ pc'[t] = "failed" /\ at[t] <= at[q]
                                         /\ t \in late' \/ era[t] < era[q]
    <3>1. PICK t \in Requests \ {q} : /\ email[t] = email[q] /\ pc[t] = "failed" /\ at[t] <= at[q]
                                      /\ t \in late \/ era[t] < era[q]
      BY DEF Limits, TakenOnlyLate
    <3>2. pc'[t] = "failed"
      BY <1>1, <1>2, <3>1
    <3>3. QED
      BY <1>2, <3>1, <3>2
  <2>2. CASE s \in taken
    BY <2>1, <2>2
  <2>3. CASE s \notin taken
    <3>1. sends' # sends
      BY <1>1, <2>3
    <3>2. PICK h \in Requests : /\ h = sends[e].of /\ email[h] = e /\ Current(h) /\ h \notin taken
                                /\ now <= at[h] /\ taken' = taken \cup ({h} \ {r}) /\ Placed(h)
      BY <1>5, <3>1
    <3>3. s = h /\ s # r /\ pc'[r] = "failed" /\ Live(s)
      BY <1>2, <2>3, <3>1, <3>2 DEF Current
    <3>4. /\ era[r] \in Nat /\ era[s] \in Nat /\ at[s] \in Nat /\ era[r] <= era[s]
          /\ at[s] <= clock
      BY <1>2, <3>2, <3>3, PlacedFacts DEF Current
    <3>5. CASE era[r] < era[s]
      BY <1>1, <3>2, <3>3, <3>5
    <3>6. CASE era[r] = era[s]
      <4>1. Together(r, s)
        BY <3>2, <3>3, <3>6 DEF Together
      <4>2. Apart(r, s)
        BY <1>2, <3>2, <3>3, <4>1 DEF Limits, Spaced
      <4>3. CASE r \in taken
        <5>1. PICK t \in Requests \ {r} : /\ email[t] = email[r] /\ pc'[t] = "failed" /\ at[t] <= at[r]
                                          /\ t \in late' \/ era[t] < era[r]
          BY <2>1, <4>3
        <5>2. t # s
          <6>1. pc[s] # "failed" /\ pc'[s] = pc[s]
            BY <1>2, <3>3 DEF Live
          <6>2. QED
            BY <5>1, <6>1
        <5>3. Placed(t)
          <6>1. t # r /\ pc[t] = "failed"
            BY <1>2, <5>1
          <6>2. QED
            BY <6>1 DEF Placed
        <5>4. at[t] \in Nat /\ at[t] <= at[s]
          BY <1>1, <3>2, <3>3, <3>4, <5>1, <5>3, PlacedFacts
        <5>5. QED
          BY <3>2, <3>3, <3>6, <5>1, <5>2, <5>4
      <4>4. CASE Distance(r, s) >= Cooldown
        <5>1. clock - now >= Cooldown
          BY <1>1, <3>2, <3>3, <3>4, <4>4, Numbers DEF Distance
        <5>2. r \in late'
          BY <1>1, <5>1
        <5>3. QED
          BY <1>1, <3>2, <3>3, <5>2
      <4>5. s \notin taken
        BY <3>2, <3>3
      <4>6. QED
        BY <4>2, <4>3, <4>4, <4>5 DEF Apart
    <3>7. QED
      BY <3>4, <3>5, <3>6
  <2>4. QED
    BY <2>2, <2>3
<1>12. ForfeitedOnlyLate'
  <2> SUFFICES ASSUME NEW s \in Requests, pc'[s] = "forfeited"
               PROVE  s \in late' \/ s \in taken' \/ era[s] < forgotten[email[s]]
    BY <1>1 DEF ForfeitedOnlyLate
  <2>1. CASE s # r
    BY <1>2, <2>1 DEF Limits, ForfeitedOnlyLate
  <2>2. CASE s = r
    <3>1. sends' = sends /\ (e \in DOMAIN sends => now > sends[e].last)
      <4>1. sends' = sends
        BY <1>2, <2>2
      <4>2. e \in DOMAIN sends => sends[e].sent \in Nat
        BY NamedFacts
      <4>3. e \in DOMAIN sends => sends[e].sent # sends[e].sent - 1
        BY <4>2
      <4>4. QED
        BY <1>4, <4>1, <4>3
    <3>2. era[r] \in Nat /\ forgotten[e] \in Nat /\ era[r] <= forgotten[e]
      BY <1>2, PlacedFacts
    <3>3. CASE era[r] = forgotten[e] /\ r \notin taken /\ clock - now < Cooldown
      <4>1. e \in DOMAIN sends /\ sends[e].last = now
        BY <1>1, <1>2, <3>3 DEF Limits, Held, Current
      <4>2. QED
        BY <1>1, <3>1, <4>1
    <3>4. clock - now < Cooldown \/ clock - now >= Cooldown
      BY <1>1, Numbers
    <3>5. QED
      BY <1>1, <1>2, <2>2, <3>2, <3>3, <3>4
  <2>3. QED
    BY <2>1, <2>2
<1>13. QuotaCounts'
  <2> SUFFICES ASSUME NEW x \in DOMAIN sends'
               PROVE  Counted(x)'
    BY QuotaNext
  <2>1. /\ x \in DOMAIN sends /\ x \in Emails /\ sends[x].sent \in Nat /\ Counted(x)
        /\ sends'[x].from = sends[x].from
    BY <1>4, Quota, NamedFacts DEF Limits
  <2>2. /\ Places(x) \subseteq Requests /\ IsFiniteSet(Places(x)) /\ Cardinality(Places(x)) \in Nat
        /\ \A s \in Requests : s \in Places(x) <=>
              email[s] = x /\ era[s] = forgotten[x] /\ at[s] >= sends[x].from /\ Live(s)
    BY PlacesFacts
  <2>3. Places(x)' = {s \in Requests : /\ email[s] = x /\ era[s] = forgotten[x]
                                       /\ at[s] >= sends[x].from /\ Live(s)'}
    BY <1>1, <2>1 DEF Places, PlacesSince, Live
  <2>4. CASE sends' = sends
    <3>1. taken' = taken /\ \A s \in Requests : Live(s)' <=> Live(s)
      BY <1>1, <1>2, <2>4
    <3>2. Places(x)' = Places(x)
      BY <2>2, <2>3, <3>1
    <3>3. QED
      BY <2>1, <2>4, <3>1, <3>2 DEF Counted
  <2>5. CASE sends' # sends
    <3>1. PICK h \in Requests : /\ h = sends[e].of /\ email[h] = e /\ Current(h) /\ h \notin taken
                                /\ at[h] = sends[e].last /\ sends[e].from <= at[h]
                                /\ taken' = taken \cup ({h} \ {r}) /\ Placed(h)
      BY <1>5, <2>5
    <3>2. Places(x)' = Places(x) \ {r}
      BY <1>2, <2>2, <2>3, <2>5
    <3>3. CASE x # e
      <4>1. r \notin Places(x) /\ h \notin Places(x)
        BY <2>2, <3>1, <3>3
      <4>2. Places(x)' = Places(x) /\ sends'[x] = sends[x]
        BY <1>4, <2>1, <3>2, <3>3, <4>1
      <4>3. Places(x) \cap taken' = Places(x) \cap taken
        BY <3>1, <4>1
      <4>4. QED
        BY <2>1, <4>2, <4>3 DEF Counted
    <3>4. CASE x = e
      <4>1. sends'[e].sent = sends[e].sent - 1
        BY <1>4, <2>5, <3>4
      <4>2. \/ r \in Places(x) /\ Cardinality(Places(x) \ {r}) = Cardinality(Places(x)) - 1
            \/ r \notin Places(x) /\ Cardinality(Places(x) \ {r}) = Cardinality(Places(x))
        <5>1. r \notin Places(x) => Places(x) \ {r} = Places(x)
          OBVIOUS
        <5>2. QED
          BY <2>2, <5>1, FS_RemoveElement
      <4>3. h \in Places(x)
        BY <2>2, <3>1, <3>4 DEF Current
      <4>4. (Places(x) \ {r}) \cap taken' = {} => h = r /\ Places(x) \cap taken = {}
        BY <3>1, <4>3
      <4>5. /\ sends[x].sent <= Cardinality(Places(x))
            /\ Places(x) \cap taken = {} => sends[x].sent = Cardinality(Places(x))
        BY <2>1 DEF Counted
      <4> DEFINE n == Cardinality(Places(x))
                 m == Cardinality(Places(x) \ {r})
      <4>6. /\ n \in Nat /\ (m = n - 1 \/ m = n)
            /\ h = r => m = n - 1
        BY <2>2, <4>2, <4>3
      <4>7. sends'[x].sent = sends[x].sent - 1 /\ sends[x].sent \in Nat
        BY <2>1, <3>4, <4>1
      <4> HIDE DEF n, m
      <4>8. sends[x].sent <= n /\ ((Places(x) \ {r}) \cap taken' = {} => sends[x].sent = n /\ h = r)
        BY <4>4, <4>5 DEF n
      <4>9. /\ sends'[x].sent <= m
            /\ (Places(x) \ {r}) \cap taken' = {} => sends'[x].sent = m
        BY <4>6, <4>7, <4>8
      <4>10. QED
        BY <3>2, <4>9 DEF Counted, m
    <3>5. QED
      BY <3>3, <3>4
  <2>6. QED
    BY <2>4, <2>5
<1>14. OlderCodeOnlyLate'
  <2> SUFFICES ASSUME NEW x \in DOMAIN codes, NEW s \in Requests, pc'[s] = "sent",
                      Together(codes[x].of, s), at[codes[x].of] < at[s]
               PROVE  codes[x].of \in late' \/ codes[x].of \in taken'
    BY <1>1 DEF OlderCodeOnlyLate, Together
  <2>1. pc[s] = "sent"
    BY <1>2
  <2>2. QED
    BY <1>2, <2>1 DEF Limits, OlderCodeOnlyLate
<1>15. QED
  BY <1>7, <1>8, <1>9, <1>10, <1>11, <1>12, <1>13, <1>14 DEF Limits

\* The steps that neither take nor give back a place.
LEMMA IdleLimits ==
  ASSUME Stored, Limits,
         \/ \E r \in Requests : Limited(r) \/ \E e \in Emails : Ask(r, e)
         \/ \E e \in Emails : Verify(e)
         \/ SetSend \/ Tick \/ UNCHANGED vars
  PROVE  Limits'
<1>1. clock \in Nat /\ pc \in [Requests -> Stages]
  BY DEF Stored, TypeOK
<1>2. CASE \E r \in Requests : Limited(r) \/ \E e \in Emails : Ask(r, e)
  <2>1. PICK r \in Requests : Limited(r) \/ \E e \in Emails : Ask(r, e)
    BY <1>2
  <2>2. /\ UNCHANGED <<forgotten, sends, clock, codes, era, late, taken>> /\ ~Placed(r)
        /\ \E l \in {"limited", "ready"} : pc' = [pc EXCEPT ![r] = l]
        /\ \A s \in Requests \ {r} : email'[s] = email[s] /\ at'[s] = at[s]
    BY <2>1 DEF Limited, Ask, Goto, table, book, Placed, Live, Stored, TypeOK
  <2>3. /\ \A s \in Requests : Placed(s)' <=> Placed(s)
        /\ \A s \in Requests : (Placed(s) => s # r) /\ (s # r => pc'[s] = pc[s])
    BY <1>1, <2>2 DEF Placed, Live
  <2>4. \A s \in Requests : Placed(s) =>
            pc'[s] = pc[s] /\ email'[s] = email[s] /\ at'[s] = at[s] /\ era'[s] = era[s]
    BY <2>2, <2>3
  <2>5. clock' \in Nat /\ clock <= clock'
    BY <1>1, <2>2
  <2>6. QED
    BY <2>2, <2>3, <2>4, <2>5, LimitsKept
<1>3. CASE \E e \in Emails : Verify(e)
  <2>1. PICK e \in Emails : Verify(e)
    BY <1>3
  <2>2. UNCHANGED <<clock, configured, sends, pc, email, at, era, forgotten, late, taken>>
    BY <2>1 DEF Verify, history
  <2>3. \A x \in DOMAIN codes' : x \in DOMAIN codes /\ codes'[x].of = codes[x].of
    <3>1. \A x \in DOMAIN codes : codes[x] \in Entry
      BY DEF Stored, TypeOK
    <3>2. \/ codes' = Drop(codes, {e})
          \/ codes' = [codes EXCEPT ![e].attempts = @ + 1]
      BY <2>1 DEF Verify, Accepted, Mismatched, Expired
    <3>3. QED
      BY <3>1, <3>2 DEF Drop, Entry
  <2>4. QED
    BY <1>1, <2>2, <2>3, LimitsKept DEF Placed, Live
<1>4. CASE SetSend \/ Tick \/ UNCHANGED vars
  <2>1. /\ UNCHANGED <<codes, sends, pc, email, at, era, forgotten, late, taken, tries, used>>
        /\ clock' \in Nat /\ clock <= clock'
    BY <1>1, <1>4 DEF SetSend, Tick, table, book, vars
  <2>2. QED
    BY <2>1, LimitsKept DEF Placed, Live
<1>5. QED
  BY <1>2, <1>3, <1>4

\* So every step keeps the limits.
LEMMA LimitsStep == Stored /\ Limits /\ [Next]_vars => Limits'
BY ReserveLimits, MailSentLimits, MailFailedLimits, IdleLimits DEF Next

\* They hold at the start.
LEMMA LimitsInit == Init => Limits
<1> SUFFICES ASSUME Init PROVE Limits
  OBVIOUS
<1>1. /\ DOMAIN codes = {} /\ DOMAIN sends = {} /\ taken = {}
      /\ \A r \in Requests : ~Live(r) /\ pc[r] = "new"
  BY Empty DEF Init, Live
<1>2. Spaced /\ Rested /\ Held /\ Shown
  BY <1>1 DEF Spaced, Rested, Held, Shown, Current
<1>3. TakenOnlyLate /\ ForfeitedOnlyLate /\ QuotaCounts /\ OlderCodeOnlyLate
  BY <1>1 DEF TakenOnlyLate, ForfeitedOnlyLate, QuotaCounts, OlderCodeOnlyLate
<1>4. QED
  BY <1>2, <1>3 DEF Limits

\* So they always do.
LEMMA AlwaysLimits == Spec => [](Stored /\ Limits)
<1>1. Stored /\ Limits /\ [Next]_vars => (Stored /\ Limits)'
  BY StoredStep, LimitsStep
<1>2. QED
  BY <1>1, StoredInit, LimitsInit, PTL DEF Spec

\* However long mails take, two go to an address within the cooldown only when the reservation
\* of the earlier was taken, which takes an earlier mail that outlasted the cooldown and failed
\* or a reset of the table; and the count of a record is that of its places but for that
\* (sendLimitLocked, markSentLocked, rollbackSendLocked).
THEOREM SendLimits == Spec => []SendLimitsKept
<1>1. ASSUME Stored, Spaced PROVE CooldownLostOnlyTaken
  <2>1. \A r, s \in Requests : Distance(r, s) \in Int
    <3>1. at \in [Requests -> Nat]
      BY <1>1 DEF Stored, TypeOK
    <3>2. QED
      BY <3>1 DEF Distance
  <2>2. QED
    BY <1>1, <2>1, Numbers DEF Spaced, Apart, Live, CooldownLostOnlyTaken
<1>2. Stored /\ Limits => SendLimitsKept
  BY <1>1 DEF Limits, SendLimitsKept
<1>3. QED
  BY <1>2, AlwaysLimits, PTL

\* And an older code stands in the place of a newer one only after its mail outlasted the
\* cooldown or its reservation was taken; each counts once (RegisterCode, VerifyCode).
THEOREM CodesCount == Spec => []CodesCountOnce
<1>1. Limits /\ CodeSingleUse => CodesCountOnce
  BY DEF Limits, CodesCountOnce
<1>2. QED
  BY <1>1, AlwaysLimits, SingleUse, PTL

=============================================================================
