--------------------------- MODULE AccountsProofs ---------------------------
(***************************************************************************)
(* Proofs about Accounts, for any number of requests, users, credentials   *)
(* and rows.                                                               *)
(***************************************************************************)
EXTENDS Accounts, SequenceTheorems, TLAPS

----------------------------------------------------------------------------
(* The inductive invariant *)

Tokens == 1 .. Len(issued)

\* The caller has obtained credentials that are not in the database yet.
Pending(c) == call[c].at \in {"scanned", "claiming", "fetching", "storing"}

\* Nothing renewed from t has reached the database.
Unreplaced(t) == \A x \in Tokens : issued[x].from = t => ~issued[x].stored

\* What a caller holds goes with the credentials it holds: it has the mutex from Lock to
\* the end of the refresh, what it obtained is not stored, what it refreshes was.
CallOK(c) ==
  LET k == call[c] IN
  /\ lock = c <=> k.at \in {"locked", "presenting", "fetching", "storing", "failed"}
  /\ Pending(c) => k.next \in Tokens /\ ~issued[k.next].stored
  /\ k.at \in {"scanned", "claiming"} => issued[k.next].from = 0
  /\ k.at \in {"fetching", "storing"} => issued[k.next].from = k.token
  /\ k.at \in {"presenting", "fetching", "storing", "failed", "rereading"} =>
        k.token \in Tokens /\ issued[k.token].stored
  /\ k.at \in {"presenting", "fetching", "storing", "failed"} => k.status \in {"alive", "expired"}
  /\ k.at = "presenting" => Unreplaced(k.token)
  /\ k.at = "rereading" /\ Has(k.id) => row.token # k.token

\* The row has stored credentials that nothing stored replaces.
RowOK == row # NoRow => row.token \in Tokens /\ issued[row.token].stored /\ Unreplaced(row.token)

\* Credentials are renewed from stored ones only.
ChainOK == \A t \in Tokens :
  issued[t].from # 0 => issued[t].from \in Tokens /\ issued[issued[t].from].stored

\* No two callers hold the same new credentials.
Apart == \A c, d \in Callers :
  Pending(c) /\ Pending(d) /\ call[c].next = call[d].next => c = d

IInv == TypeOK /\ RowOK /\ ChainOK /\ Apart /\ \A c \in Callers : CallOK(c)

----------------------------------------------------------------------------
(* Types *)

Credential == [from : 0 .. MaxTokens, age : Fresh .. Over, spent : BOOLEAN, stored : BOOLEAN]
RowRecord == [id : 1 .. lastId, token : Tokens, status : {"alive", "expired"}, owner : Owners]
CallRecord == [at : Stages, by : Owners, id : 0 .. lastId, owner : Owners,
               held : Owners, token : 0 .. Len(issued), status : Statuses, next : 0 .. Len(issued),
               again : BOOLEAN]

IssuedTyped == issued \in Seq(Credential) /\ Len(issued) \in 0 .. MaxTokens

\* TypeOK in these words.
LEMMA TypeOKParts ==
  TypeOK <=> /\ IssuedTyped
             /\ row # NoRow => row \in RowRecord
             /\ lastId \in 0 .. MaxIds
             /\ lock \in Callers \cup {Free}
             /\ call \in [Callers -> CallRecord]
             /\ restarts \in 0 .. MaxRestarts
<1>1. issued \in Seq(Credential) => Len(issued) \in Nat
  OBVIOUS
<1>2. issued \in Seq(Credential) => (Len(issued) <= MaxTokens <=> Len(issued) \in 0 .. MaxTokens)
  BY <1>1, AccountsAssumption
<1>3. QED
  BY <1>2 DEF TypeOK, IssuedTyped, Credential, RowRecord, CallRecord, Tokens

\* And after a step.
LEMMA TypeOKNext ==
  ASSUME IssuedTyped', row' # NoRow => row' \in RowRecord', lastId' \in 0 .. MaxIds,
         lock' \in Callers \cup {Free}, call' \in [Callers -> CallRecord'],
         restarts' \in 0 .. MaxRestarts
  PROVE  TypeOK'
<1>1. (TypeOK <=> /\ IssuedTyped
                  /\ row # NoRow => row \in RowRecord
                  /\ lastId \in 0 .. MaxIds
                  /\ lock \in Callers \cup {Free}
                  /\ call \in [Callers -> CallRecord]
                  /\ restarts \in 0 .. MaxRestarts)'
  BY TypeOKParts, PTL
<1>2. QED
  BY <1>1

\* An idle caller.
LEMMA IdleTyped == IssuedTyped /\ lastId \in 0 .. MaxIds => Idle \in CallRecord /\ Idle.at = "idle"
<1> SUFFICES ASSUME IssuedTyped, lastId \in 0 .. MaxIds PROVE Idle \in CallRecord /\ Idle.at = "idle"
  OBVIOUS
<1>1. 0 \in 0 .. Len(issued) /\ 0 \in 0 .. lastId
  BY AccountsAssumption DEF IssuedTyped
<1>2. QED
  BY <1>1 DEF Idle, CallRecord, Stages, Owners, Statuses

\* The entries of the sequence.
LEMMA IssuedFields ==
  ASSUME IssuedTyped
  PROVE  /\ Len(issued) \in Nat
         /\ \A t \in Tokens : /\ t \in Nat /\ t # 0
                              /\ issued[t] \in Credential /\ issued[t].from \in 0 .. MaxTokens
                              /\ issued[t].age \in Fresh .. Over
                              /\ issued[t].spent \in BOOLEAN /\ issued[t].stored \in BOOLEAN
<1>1. Len(issued) \in Nat
  BY DEF IssuedTyped
<1>2. \A t \in Tokens : t \in Nat /\ t # 0 /\ issued[t] \in Credential
  BY <1>1 DEF IssuedTyped, Tokens
<1>3. QED
  BY <1>1, <1>2 DEF Credential

\* New credentials come last, and are not stored.
Grows(from) ==
  /\ IssuedTyped' /\ Len(issued') = Len(issued) + 1
  /\ \A t \in Tokens : issued'[t].from = issued[t].from /\ issued'[t].stored = issued[t].stored
  /\ issued'[Len(issued) + 1].from = from /\ ~issued'[Len(issued) + 1].stored

\* A scan's credentials.
LEMMA ScanGrows ==
  ASSUME IssuedTyped, Len(issued) < MaxTokens, issued' = Append(issued, Credentials(0))
  PROVE  Grows(0)
<1>1. Credentials(0) \in Credential /\ Credentials(0).from = 0 /\ ~Credentials(0).stored
  BY AccountsAssumption DEF Credentials, Credential, Fresh, Over
<1>2. issued' \in Seq(Credential) /\ Len(issued') = Len(issued) + 1
  BY <1>1 DEF IssuedTyped
<1>3. \A t \in Tokens : issued'[t] = issued[t]
  BY <1>1 DEF IssuedTyped, Tokens
<1>4. issued'[Len(issued) + 1] = Credentials(0)
  BY <1>1 DEF IssuedTyped
<1>5. Len(issued') \in 0 .. MaxTokens
  BY <1>2, IssuedFields, AccountsAssumption
<1>6. QED
  BY <1>1, <1>2, <1>3, <1>4, <1>5 DEF Grows, IssuedTyped

\* Renewed credentials.
LEMMA RenewGrows ==
  ASSUME IssuedTyped, NEW t \in Tokens, Renew(t)
  PROVE  Grows(t)
<1>1. PICK rotated \in BOOLEAN :
        issued' = Append([issued EXCEPT ![t].spent = rotated], Credentials(t))
  BY DEF Renew
<1> DEFINE old == [issued EXCEPT ![t].spent = rotated]
<1>2. /\ issued[t] \in Credential /\ [issued[t] EXCEPT !.spent = rotated] \in Credential
      /\ [issued[t] EXCEPT !.spent = rotated].from = issued[t].from
      /\ [issued[t] EXCEPT !.spent = rotated].stored = issued[t].stored
  BY IssuedFields DEF Credential
<1>3. /\ old \in Seq(Credential) /\ Len(old) = Len(issued)
      /\ \A x \in Tokens : old[x].from = issued[x].from /\ old[x].stored = issued[x].stored
  BY <1>2 DEF IssuedTyped, Tokens
<1>4. Credentials(t) \in Credential /\ Credentials(t).from = t /\ ~Credentials(t).stored
  BY AccountsAssumption DEF Credentials, Credential, Fresh, Over, Tokens, IssuedTyped
<1> HIDE DEF old
<1>5. /\ issued' \in Seq(Credential) /\ Len(issued') = Len(issued) + 1
      /\ \A x \in Tokens : issued'[x] = old[x]
      /\ issued'[Len(issued) + 1] = Credentials(t)
  BY <1>1, <1>3, <1>4 DEF old, IssuedTyped, Tokens
<1>6. Len(issued) < MaxTokens
  BY DEF Renew
<1>7. QED
  BY <1>3, <1>4, <1>5, <1>6, AccountsAssumption DEF Grows, IssuedTyped

\* Marking credentials as stored changes nothing else.
LEMMA MarkKeeps ==
  ASSUME IssuedTyped, NEW t \in Tokens, MarkStored(t)
  PROVE  /\ IssuedTyped' /\ Len(issued') = Len(issued) /\ issued'[t].stored
         /\ \A x \in Tokens : issued'[x].from = issued[x].from
         /\ \A x \in Tokens \ {t} : issued'[x].stored = issued[x].stored
<1>1. /\ issued[t] \in Credential /\ [issued[t] EXCEPT !.stored = TRUE] \in Credential
      /\ [issued[t] EXCEPT !.stored = TRUE].from = issued[t].from
      /\ [issued[t] EXCEPT !.stored = TRUE].stored
  BY IssuedFields DEF Credential
<1>2. QED
  BY <1>1 DEF MarkStored, IssuedTyped, Tokens

\* So does growing older.
LEMMA AgeKeeps ==
  ASSUME IssuedTyped, NEW t \in Tokens, Age(t)
  PROVE  /\ IssuedTyped' /\ Len(issued') = Len(issued)
         /\ \A x \in Tokens : issued'[x].from = issued[x].from /\ issued'[x].stored = issued[x].stored
<1> DEFINE older == [issued[t] EXCEPT !.age = @ + 1]
<1>1. older \in Credential /\ older.from = issued[t].from /\ older.stored = issued[t].stored
  BY IssuedFields DEF Credential, Age, Fresh, Over
<1>2. issued' = [issued EXCEPT ![t] = older]
  BY DEF Age
<1>3. QED
  BY <1>1, <1>2 DEF IssuedTyped, Tokens

----------------------------------------------------------------------------
(* What a step does to the others *)

\* The step of c respects what every other caller relies on: the mutex of the others,
\* where credentials come from and which are stored, and the row, which only ever gets
\* credentials that were not stored before.
Respects(c) ==
  /\ call' = [call EXCEPT ![c] = call'[c]]
  /\ \A d \in Callers \ {c} : lock' = d <=> lock = d
  /\ Tokens \subseteq Tokens'
  /\ \A t \in Tokens :
        /\ issued'[t].from = issued[t].from
        /\ issued[t].stored => issued'[t].stored
        /\ issued'[t].stored /\ ~issued[t].stored =>
              /\ call[c].at \in {"claiming", "storing"} /\ t = call[c].next
              /\ row' # NoRow => row'.token = t
  /\ \A t \in Tokens' \ Tokens :
        /\ ~issued'[t].stored
        /\ issued'[t].from # 0 => call[c].at = "presenting" /\ issued'[t].from = call[c].token
  /\ row' # NoRow =>
        \/ row # NoRow /\ row'.id = row.id /\ row'.token = row.token
        \/ /\ call[c].at \in {"claiming", "storing"} /\ row'.token = call[c].next
           /\ issued'[call[c].next].stored
  /\ Pending(c)' =>
        \/ call'[c].next \notin Tokens
        \/ Pending(c) /\ call'[c].next = call[c].next

\* Such a step leaves the others in order ...
LEMMA OthersKept ==
  ASSUME IInv, NEW c \in Callers, Respects(c), NEW d \in Callers \ {c}
  PROVE  CallOK(d)'
<1> DEFINE k == call[d]
<1>1. CallOK(d) /\ call'[d] = k /\ CallOK(c) /\ (lock' = d <=> lock = d)
  BY TypeOKParts DEF IInv, Respects
<1>2. \A t \in Tokens : t \in Tokens' /\ issued'[t].from = issued[t].from
  BY DEF Respects
<1>3. \A t \in Tokens : issued[t].stored => issued'[t].stored
  BY DEF Respects
<1>4. Pending(d) => ~issued'[k.next].stored
  <2> SUFFICES ASSUME Pending(d), issued'[k.next].stored PROVE FALSE
    OBVIOUS
  <2>1. k.next \in Tokens /\ ~issued[k.next].stored
    BY <1>1 DEF CallOK
  <2>2. Pending(c) /\ call[c].next = k.next
    BY <2>1 DEF Respects, Pending
  <2>3. QED
    BY <2>2 DEF IInv, Apart
<1>5. k.at = "presenting" => Unreplaced(k.token)'
  <2> SUFFICES ASSUME k.at = "presenting", NEW x \in Tokens', issued'[x].from = k.token,
                      issued'[x].stored
               PROVE  FALSE
    BY <1>1 DEF Unreplaced
  <2>1. x \in Tokens /\ ~issued[x].stored
    BY <1>1, <1>2 DEF Respects, CallOK, Unreplaced
  <2>2. call[c].at \in {"claiming", "storing"} /\ x = call[c].next
    BY <2>1 DEF Respects
  <2>3. call[c].at # "storing"
    BY <1>1 DEF CallOK
  <2>4. issued[x].from = 0 /\ k.token # 0
    BY <1>1, <2>2, <2>3, IssuedFields, TypeOKParts DEF CallOK, IInv
  <2>5. QED
    BY <1>2, <2>1, <2>4
<1>6. k.at = "rereading" /\ row' # NoRow /\ row'.id = k.id => row'.token # k.token
  <2> SUFFICES ASSUME k.at = "rereading", row' # NoRow, row'.id = k.id PROVE row'.token # k.token
    OBVIOUS
  <2>1. k.token \in Tokens /\ issued[k.token].stored /\ (Has(k.id) => row.token # k.token)
    BY <1>1 DEF CallOK
  <2>2. CASE row # NoRow /\ row'.id = row.id /\ row'.token = row.token
    BY <2>1, <2>2 DEF Has
  <2>3. CASE call[c].at \in {"claiming", "storing"} /\ row'.token = call[c].next
    BY <1>1, <2>1, <2>3 DEF CallOK, Pending
  <2>4. QED
    BY <2>2, <2>3 DEF Respects
<1>7. QED
  BY <1>1, <1>2, <1>3, <1>4, <1>5, <1>6 DEF CallOK, Pending, Has

\* ... and keeps what is shared.
LEMMA SharedKept ==
  ASSUME IInv, NEW c \in Callers, Respects(c)
  PROVE  RowOK' /\ ChainOK' /\ Apart'
<1>1. CallOK(c) /\ RowOK /\ ChainOK /\ Apart
  BY DEF IInv
<1>2. RowOK'
  <2> SUFFICES ASSUME row' # NoRow
               PROVE  /\ row'.token \in Tokens' /\ issued'[row'.token].stored
                      /\ Unreplaced(row.token)'
    BY DEF RowOK
  <2>1. CASE row # NoRow /\ row'.id = row.id /\ row'.token = row.token
    <3>1. row.token \in Tokens /\ issued[row.token].stored /\ Unreplaced(row.token)
      BY <1>1, <2>1 DEF RowOK
    <3>2. \A x \in Tokens' : issued'[x].from = row.token => ~issued'[x].stored
      BY <2>1, <3>1 DEF Respects, Unreplaced
    <3>3. QED
      BY <2>1, <3>1, <3>2 DEF Respects, Unreplaced
  <2>2. CASE /\ call[c].at \in {"claiming", "storing"} /\ row'.token = call[c].next
             /\ issued'[call[c].next].stored
    <3>1. call[c].next \in Tokens /\ ~issued[call[c].next].stored /\ call[c].next # 0
      BY <1>1, <2>2, IssuedFields, TypeOKParts DEF CallOK, Pending, IInv
    <3>2. \A x \in Tokens' : issued'[x].from = call[c].next => ~issued'[x].stored
      BY <1>1, <2>2, <3>1 DEF Respects, ChainOK
    <3>3. QED
      BY <2>2, <3>1, <3>2 DEF Respects, Unreplaced
  <2>3. QED
    BY <2>1, <2>2 DEF Respects
<1>3. ChainOK'
  <2> SUFFICES ASSUME NEW t \in Tokens', issued'[t].from # 0
               PROVE  issued'[t].from \in Tokens' /\ issued'[issued'[t].from].stored
    BY DEF ChainOK
  <2>1. CASE t \in Tokens
    BY <1>1, <2>1 DEF Respects, ChainOK
  <2>2. CASE t \notin Tokens
    BY <1>1, <2>2 DEF Respects, CallOK
  <2>3. QED
    BY <2>1, <2>2
<1>4. Apart'
  <2> SUFFICES ASSUME NEW d \in Callers, NEW e \in Callers, Pending(d)', Pending(e)',
                      call'[d].next = call'[e].next, d # e
               PROVE  FALSE
    BY DEF Apart
  <2>1. \A x \in Callers \ {c} : call'[x] = call[x] /\ (Pending(x)' => call[x].next \in Tokens)
    BY TypeOKParts DEF Respects, Pending, IInv, CallOK
  <2>2. QED
    BY <1>1, <2>1 DEF Respects, Pending, Apart
<1>5. QED
  BY <1>2, <1>3, <1>4

----------------------------------------------------------------------------
(* Each step of a caller *)

\* A step of c keeps what the invariant says of c and the types, and respects the others.
StepOK(c) == TypeOK' /\ Respects(c) /\ CallOK(c)'

\* What the invariant says, part by part.
LEMMA Parts ==
  ASSUME IInv, NEW c \in Callers
  PROVE  /\ IssuedTyped /\ CallOK(c) /\ c # Free
         /\ row # NoRow => row \in RowRecord
         /\ lastId \in 0 .. MaxIds /\ lock \in Callers \cup {Free}
         /\ call \in [Callers -> CallRecord] /\ call[c] \in CallRecord
         /\ restarts \in 0 .. MaxRestarts
BY TypeOKParts, AccountsAssumption DEF IInv, Callers

\* A caller that only moves on: the tables stay, and it obtains nothing.
LEMMA PlainStep ==
  ASSUME IInv, NEW c \in Callers, NEW x \in CallRecord, call' = [call EXCEPT ![c] = x],
         UNCHANGED <<issued, row, lastId, restarts>>,
         lock' \in Callers \cup {Free}, \A d \in Callers \ {c} : lock' = d <=> lock = d,
         CallOK(c)', Pending(c)' => Pending(c) /\ x.next = call[c].next
  PROVE  StepOK(c)
<1> USE Parts
<1>1. call'[c] = x /\ call' \in [Callers -> CallRecord]
  OBVIOUS
<1>2. TypeOK'
  BY <1>1, TypeOKNext DEF IssuedTyped, RowRecord, CallRecord, Tokens
<1>3. Respects(c)
  BY <1>1 DEF Respects, Tokens
<1>4. QED
  BY <1>2, <1>3 DEF StepOK

\* A caller that finishes while it holds no mutex, or lets go of it.
LEMMA FinishStep ==
  ASSUME IInv, NEW c \in Callers, Finish(c), UNCHANGED <<issued, row, lastId, restarts>>,
         lock' = IF lock = c THEN Free ELSE lock
  PROVE  StepOK(c)
<1> USE Parts
<1>1. Idle \in CallRecord /\ Idle.at = "idle"
  BY IdleTyped
<1>2. call'[c] = Idle
  BY DEF Finish
<1>3. lock' \in Callers \cup {Free} /\ lock' # c
  BY AccountsAssumption
<1>4. CallOK(c)'
  BY <1>1, <1>2, <1>3 DEF CallOK, Pending
<1>5. ~Pending(c)'
  BY <1>1, <1>2 DEF Pending
<1>6. QED
  BY <1>1, <1>3, <1>4, <1>5, PlainStep DEF Finish

\* A caller that goes on, with the same record but for the stage.
LEMMA GotoStep ==
  ASSUME IInv, NEW c \in Callers, NEW at \in Stages, Goto(c, at),
         UNCHANGED <<issued, row, lastId, restarts>>,
         lock' \in Callers \cup {Free}, \A d \in Callers \ {c} : lock' = d <=> lock = d,
         lock' = c <=> at \in {"locked", "presenting", "fetching", "storing", "failed"},
         at \in {"scanned", "claiming", "fetching", "storing"} => Pending(c),
         at \in {"scanned", "claiming"} => call[c].at \in {"scanned", "claiming"},
         at \in {"fetching", "storing"} => call[c].at \in {"fetching", "storing"},
         at \in {"presenting", "failed"} => call[c].at \in {"presenting", "fetching", "storing", "failed"},
         at = "presenting" => call[c].at = "presenting",
         at # "rereading"
  PROVE  StepOK(c)
<1> USE Parts
<1> DEFINE x == [call[c] EXCEPT !.at = at]
<1>1. /\ x \in CallRecord /\ x.at = at /\ x.id = call[c].id /\ x.token = call[c].token
      /\ x.status = call[c].status /\ x.next = call[c].next
  BY DEF CallRecord
<1>2. call' = [call EXCEPT ![c] = x] /\ call'[c] = x
  BY DEF Goto
<1> HIDE DEF x
<1>3. CallOK(c)'
  BY <1>1, <1>2 DEF CallOK, Pending, Unreplaced, Tokens
<1>4. Pending(c)' => Pending(c) /\ x.next = call[c].next
  BY <1>1, <1>2 DEF Pending
<1>5. QED
  BY <1>1, <1>2, <1>3, <1>4, PlainStep

\* A request resolves the account, the loop lists it.
LEMMA BeginStep ==
  ASSUME IInv, NEW c \in Callers, NEW at \in {"resolved", "refreshing", "deleting"},
         NEW again \in BOOLEAN, call[c].at = "idle", row # NoRow,
         call' = [call EXCEPT ![c] = [Idle EXCEPT !.at = at, !.id = row.id, !.again = again,
                                                 !.token = row.token]],
         UNCHANGED <<issued, row, lastId, lock, restarts>>
  PROVE  StepOK(c)
<1> USE Parts
<1> DEFINE x == [Idle EXCEPT !.at = at, !.id = row.id, !.again = again, !.token = row.token]
<1>1. row.id \in 0 .. lastId /\ row.token \in 0 .. Len(issued) /\ Len(issued) \in Nat
  BY DEF RowRecord, Tokens, IssuedTyped
<1>2. x \in CallRecord /\ x.at = at
  <2>1. [Idle EXCEPT !.at = at, !.id = row.id] \in CallRecord
    BY <1>1, IdleTyped DEF CallRecord, Stages
  <2>2. [[Idle EXCEPT !.at = at, !.id = row.id] EXCEPT !.again = again, !.token = row.token]
          \in CallRecord
    BY <1>1, <2>1 DEF CallRecord
  <2>3. QED
    BY <2>2, IdleTyped DEF CallRecord
<1>3. call' = [call EXCEPT ![c] = x] /\ call'[c] = x
  OBVIOUS
<1> HIDE DEF x
<1>4. CallOK(c)' /\ ~Pending(c)'
  BY <1>2, <1>3 DEF CallOK, Pending
<1>5. QED
  BY <1>2, <1>3, <1>4, PlainStep

\* Obtaining credentials by a scan.
LEMMA ScanStep ==
  ASSUME IInv, NEW r \in Requests, NEW by \in Users \cup {NoUser}, Scan(r, by)
  PROVE  StepOK(r)
<1> USE Parts DEF Callers
<1> DEFINE x == [Idle EXCEPT !.at = "scanned", !.by = by, !.next = Len(issued')]
<1>1. Grows(0)
  BY ScanGrows DEF Scan
<1>2. Len(issued) \in Nat /\ Tokens' = Tokens \cup {Len(issued) + 1} /\ Len(issued) + 1 \notin Tokens
  BY <1>1, IssuedFields DEF Grows, Tokens
<1>3. x \in CallRecord' /\ x.at = "scanned" /\ x.next = Len(issued) + 1
  <2>1. lastId' = lastId /\ Len(issued') = Len(issued) + 1
    BY <1>1 DEF Grows, Scan
  <2>2. Idle \in CallRecord'
    BY <1>2, <2>1, IdleTyped DEF CallRecord
  <2>3. [Idle EXCEPT !.at = "scanned", !.by = by] \in CallRecord'
    BY <2>2 DEF CallRecord, Stages, Owners
  <2>4. \A n \in 0 .. Len(issued') :
           [[Idle EXCEPT !.at = "scanned", !.by = by] EXCEPT !.next = n] \in CallRecord'
    BY <2>3 DEF CallRecord
  <2>5. Len(issued') \in 0 .. Len(issued')
    BY <1>2, <2>1
  <2>6. QED
    BY <2>1, <2>2, <2>4, <2>5 DEF CallRecord
<1>4. call' = [call EXCEPT ![r] = x] /\ call'[r] = x
  BY DEF Scan
<1>5. call[r].at = "idle" /\ UNCHANGED <<row, lastId, lock, restarts>>
  BY DEF Scan
<1> HIDE DEF x
<1>6. \A z \in CallRecord : z \in CallRecord'
  BY <1>1, <1>2, <1>5 DEF CallRecord, Grows
<1>7. TypeOK'
  <2>1. call' \in [Callers -> CallRecord']
    BY <1>3, <1>4, <1>6
  <2>2. row' # NoRow => row' \in RowRecord'
    BY <1>2, <1>5 DEF RowRecord
  <2>3. QED
    BY <1>1, <1>5, <2>1, <2>2, TypeOKNext DEF Grows
<1>8. Respects(r)
  BY <1>1, <1>2, <1>3, <1>4, <1>5 DEF Respects, Grows
<1>9. CallOK(r)'
  BY <1>1, <1>2, <1>3, <1>4, <1>5 DEF CallOK, Pending, Grows
<1>10. QED
  BY <1>7, <1>8, <1>9 DEF StepOK

\* The service renews the credentials presented; the answer arrives, or is lost.
LEMMA RenewStep ==
  ASSUME IInv, NEW c \in Callers, call[c].at = "presenting", Renew(call[c].token),
         NEW at \in {"fetching", "failed"}, NEW n \in {call[c].next, Len(issued')},
         at = "fetching" => n = Len(issued'),
         call' = [call EXCEPT ![c] = [call[c] EXCEPT !.at = at, !.next = n]],
         UNCHANGED <<row, lastId, lock, restarts>>
  PROVE  StepOK(c)
<1> USE Parts
<1> DEFINE t == call[c].token
           x == [call[c] EXCEPT !.at = at, !.next = n]
<1>1. Grows(t) /\ t \in Tokens /\ issued[t].stored /\ lock = c
      /\ call[c].status \in {"alive", "expired"}
  BY RenewGrows DEF CallOK
<1>2. Len(issued) \in Nat /\ Tokens' = Tokens \cup {Len(issued) + 1} /\ Len(issued) + 1 \notin Tokens
  BY <1>1, IssuedFields DEF Grows, Tokens
<1>3. /\ x \in CallRecord' /\ x.at = at /\ x.next = n /\ x.token = t /\ x.status = call[c].status
      /\ x.id = call[c].id
  <2>1. lastId' = lastId /\ Len(issued') = Len(issued) + 1
    BY <1>1 DEF Grows
  <2>2. call[c] \in CallRecord' /\ n \in 0 .. Len(issued')
    BY <1>2, <2>1 DEF CallRecord
  <2>3. [call[c] EXCEPT !.at = at] \in CallRecord'
    BY <2>2 DEF CallRecord, Stages
  <2>4. [[call[c] EXCEPT !.at = at] EXCEPT !.next = n] \in CallRecord'
    BY <2>2, <2>3 DEF CallRecord
  <2>5. QED
    BY <2>2, <2>4 DEF CallRecord
<1>4. call' = [call EXCEPT ![c] = x] /\ call'[c] = x
  OBVIOUS
<1> HIDE DEF x
<1>6. \A z \in CallRecord : z \in CallRecord'
  BY <1>1, <1>2 DEF CallRecord, Grows
<1>7. TypeOK'
  <2>1. call' \in [Callers -> CallRecord']
    BY <1>3, <1>4, <1>6
  <2>2. row' # NoRow => row' \in RowRecord'
    BY <1>2 DEF RowRecord
  <2>3. QED
    BY <1>1, <2>1, <2>2, TypeOKNext DEF Grows
<1>8. Respects(c)
  BY <1>1, <1>2, <1>3, <1>4, ZenonT(30) DEF Respects, Grows, Pending
<1>9. CallOK(c)'
  BY <1>1, <1>2, <1>3, <1>4 DEF CallOK, Pending, Grows
<1>10. QED
  BY <1>7, <1>8, <1>9 DEF StepOK

\* New credentials reach the row.
LEMMA StoreStep ==
  ASSUME IInv, NEW c \in Callers, call[c].at \in {"claiming", "storing"}, MarkStored(call[c].next),
         row' # NoRow => row' \in RowRecord' /\ row'.token = call[c].next,
         lastId' \in lastId .. MaxIds, UNCHANGED restarts,
         lock' = IF lock = c THEN Free ELSE lock,
         NEW x, call' = [call EXCEPT ![c] = x], x \in CallRecord,
         \/ x.at = "idle"
         \/ call[c].at = "storing" /\ x.at = "rereading" /\ x.token = call[c].token
  PROVE  StepOK(c)
<1> USE Parts
<1> DEFINE n == call[c].next
<1>1. n \in Tokens /\ ~issued[n].stored
  BY DEF CallOK, Pending
<1>2. /\ IssuedTyped' /\ Len(issued') = Len(issued) /\ issued'[n].stored /\ Tokens' = Tokens
      /\ \A t \in Tokens : issued'[t].from = issued[t].from
      /\ \A t \in Tokens \ {n} : issued'[t].stored = issued[t].stored
  BY <1>1, MarkKeeps DEF Tokens
<1>3. call'[c] = x /\ ~Pending(c)'
  BY DEF Pending
<1>4. lock' \in Callers \cup {Free} /\ lock' # c
  BY AccountsAssumption
<1>5. x \in CallRecord' /\ call' \in [Callers -> CallRecord']
  BY <1>2 DEF CallRecord
<1>6. TypeOK'
  BY <1>2, <1>4, <1>5, TypeOKNext
<1>7. Respects(c)
  BY <1>1, <1>2, <1>3 DEF Respects
<1>8. CallOK(c)'
  <2>1. CASE x.at = "idle"
    BY <1>3, <1>4, <2>1 DEF CallOK, Pending
  <2>2. CASE call[c].at = "storing" /\ x.at = "rereading" /\ x.token = call[c].token
    <3>1. x.token \in Tokens /\ issued[x.token].stored
      BY <2>2 DEF CallOK
    <3>2. x.token # n /\ issued'[x.token].stored
      BY <1>1, <1>2, <3>1
    <3>3. QED
      BY <1>2, <1>3, <1>4, <2>2, <3>1, <3>2 DEF CallOK, Pending, Has
  <2>3. QED
    BY <2>1, <2>2
<1>9. QED
  BY <1>6, <1>7, <1>8 DEF StepOK

\* A scan ends with the row.
LEMMA UpsertStep ==
  ASSUME IInv, NEW r \in Requests, Upsert(r)
  PROVE  StepOK(r)
<1> USE Parts DEF Callers
<1> DEFINE n == call[r].next
           claimed == OwnerForScan(call[r].by, call[r].owner)
<1>1. n \in Tokens /\ call[r].at = "claiming" /\ MarkStored(n)
  BY DEF Upsert, CallOK, Pending
<1>2. claimed \in Owners
  BY DEF OwnerForScan, Owners, CallRecord
<1>3. Tokens' = Tokens
  BY <1>1, MarkKeeps DEF Tokens
<1>4. lastId' \in lastId .. MaxIds /\ (row' # NoRow => row' \in RowRecord' /\ row'.token = n)
  <2>1. CASE row = NoRow
    <3>1. lastId' = lastId + 1 /\ lastId < MaxIds
      BY <2>1 DEF Upsert
    <3>2. row' = [id |-> lastId', token |-> n, status |-> "alive", owner |-> claimed]
      BY <2>1 DEF Upsert
    <3> HIDE DEF claimed, n
    <3>3. QED
      BY <1>1, <1>2, <1>3, <3>1, <3>2, AccountsAssumption DEF RowRecord
  <2>2. CASE row # NoRow
    <3>1. /\ row' = [row EXCEPT !.token = n, !.status = "alive",
                                !.owner = IF claimed = NoUser THEN @ ELSE claimed]
          /\ lastId' = lastId
      BY <2>2 DEF Upsert
    <3>2. row \in RowRecord /\ lastId' \in lastId .. MaxIds
      BY <2>2, <3>1
    <3>3. PICK o \in Owners : row' = [row EXCEPT !.token = n, !.status = "alive", !.owner = o]
      BY <1>2, <3>1, <3>2 DEF RowRecord
    <3> HIDE DEF claimed, n
    <3>4. [row EXCEPT !.token = n, !.status = "alive"] \in RowRecord
      BY <1>1, <3>2 DEF RowRecord
    <3>5. row' \in RowRecord /\ row'.token = n
      BY <3>3, <3>4, <3>2 DEF RowRecord
    <3>6. QED
      BY <1>3, <3>1, <3>2, <3>5 DEF RowRecord
  <2>3. QED
    BY <2>1, <2>2
<1>5. Idle \in CallRecord /\ Idle.at = "idle"
  BY IdleTyped
<1>6. lock # r
  BY <1>1 DEF CallOK
<1>7. UNCHANGED <<lock, restarts>> /\ call' = [call EXCEPT ![r] = Idle]
  BY DEF Upsert, Finish
<1>8. QED
  BY <1>1, <1>4, <1>5, <1>6, <1>7, StoreStep

\* A refresh ends with the row, unless it is gone.
LEMMA StoreRenewedStep ==
  ASSUME IInv, NEW c \in Callers, StoreRenewed(c)
  PROVE  StepOK(c)
<1> USE Parts
<1> DEFINE n == call[c].next
           back == [call[c] EXCEPT !.at = "rereading"]
<1>1. n \in Tokens /\ call[c].at = "storing" /\ lock = c /\ lock' = Free
  BY DEF StoreRenewed, CallOK, Pending
<1>2. UNCHANGED <<lastId, restarts>>
  BY DEF StoreRenewed
<1>3. /\ Idle \in CallRecord /\ Idle.at = "idle"
      /\ back \in CallRecord /\ back.at = "rereading" /\ back.token = call[c].token
      /\ back.next = n /\ back.id = call[c].id
  BY IdleTyped DEF CallRecord, Stages
<1>4. PICK x \in {Idle, back} : call' = [call EXCEPT ![c] = x]
  BY DEF StoreRenewed, Goto, Finish
<1> HIDE DEF back
<1>5. CASE Has(call[c].id)
  <2>1. row \in RowRecord /\ row' = [row EXCEPT !.token = n, !.status = "alive"]
    BY <1>5 DEF StoreRenewed, Update, Has
  <2>2. MarkStored(n)
    BY <1>5 DEF StoreRenewed
  <2>3. Tokens' = Tokens
    BY <1>1, <2>2, MarkKeeps DEF Tokens
  <2>4. row' \in RowRecord' /\ row'.token = n
    BY <1>1, <1>2, <2>1, <2>3 DEF RowRecord
  <2>5. lastId' \in lastId .. MaxIds
    BY <1>2
  <2>6. QED
    BY <1>1, <1>2, <1>3, <1>4, <2>2, <2>4, <2>5, StoreStep
<1>6. CASE ~Has(call[c].id)
  <2>1. UNCHANGED <<issued, row>>
    BY <1>6 DEF StoreRenewed, Update
  <2>2. call'[c] = x
    BY <1>4
  <2>3. ~Pending(c)'
    BY <1>3, <2>2 DEF Pending
  <2>4. CallOK(c)'
    BY <1>1, <1>2, <1>3, <1>6, <2>1, <2>2, AccountsAssumption DEF CallOK, Pending, Has, Tokens, Callers
  <2>5. QED
    BY <1>1, <1>2, <1>3, <1>4, <2>1, <2>3, <2>4, PlainStep
<1>7. QED
  BY <1>5, <1>6

\* ownerForScan reads whose account it is.
LEMMA ReadOwnerStep ==
  ASSUME IInv, NEW r \in Requests, ReadOwner(r)
  PROVE  StepOK(r)
<1> USE Parts DEF Callers
<1>1. Owner \in Owners /\ NoUser \in Owners
  BY DEF Owner, Owners, RowRecord
<1>2. PICK o \in {Owner, NoUser} :
        call' = [call EXCEPT ![r].at = "claiming", ![r].owner = o, ![r].held = Owner]
  BY DEF ReadOwner
<1> DEFINE x == [call[r] EXCEPT !.at = "claiming", !.owner = o, !.held = Owner]
<1>3. /\ x \in CallRecord /\ x.at = "claiming" /\ x.next = call[r].next /\ call[r].at = "scanned"
  BY <1>1, ZenonT(30) DEF CallRecord, Stages, ReadOwner
<1>4. call' = [call EXCEPT ![r] = x] /\ call'[r] = x
  BY <1>2
<1> HIDE DEF x
<1>5. UNCHANGED <<issued, row, lastId, lock, restarts>>
  BY DEF ReadOwner
<1>6. CallOK(r)' /\ Pending(r)
  BY <1>3, <1>4, <1>5 DEF CallOK, Pending, Tokens
<1>7. QED
  BY <1>3, <1>4, <1>5, <1>6, PlainStep

\* invokeWXApp reads the account again.
LEMMA RereadStep ==
  ASSUME IInv, NEW r \in Requests, Reread(r)
  PROVE  StepOK(r)
<1> USE Parts DEF Callers
<1> DEFINE n == IF Has(call[r].id) THEN row.token ELSE call[r].token
           x == [call[r] EXCEPT !.at = "retrying", !.next = n]
<1>1. n \in 0 .. Len(issued)
  BY DEF Has, RowRecord, CallRecord, Tokens, IssuedTyped
<1>2. x \in CallRecord /\ x.at = "retrying"
  <2>1. \A m \in 0 .. Len(issued) : [call[r] EXCEPT !.at = "retrying", !.next = m] \in CallRecord
    BY ZenonT(30) DEF CallRecord, Stages
  <2>2. QED
    BY <1>1, <2>1 DEF CallRecord
<1>3. call' = [call EXCEPT ![r] = x] /\ call'[r] = x
  BY DEF Reread
<1> HIDE DEF x
<1>4. UNCHANGED <<issued, row, lastId, lock, restarts>>
  BY DEF Reread
<1>5. lock # r
  BY DEF Reread, CallOK
<1>6. CallOK(r)' /\ ~Pending(r)'
  BY <1>2, <1>3, <1>4, <1>5 DEF CallOK, Pending
<1>7. QED
  BY <1>2, <1>3, <1>4, <1>6, PlainStep

\* An account is deleted.
LEMMA DeleteStep ==
  ASSUME IInv, NEW r \in Requests, Delete(r)
  PROVE  StepOK(r)
<1> USE Parts DEF Callers
<1>1. call' = [call EXCEPT ![r] = Idle] /\ call'[r] = Idle /\ Idle \in CallRecord
      /\ Idle.at = "idle" /\ lock # r
  BY IdleTyped DEF Delete, Finish, CallOK
<1>2. UNCHANGED <<issued, lastId, lock, restarts>> /\ row' \in {row, NoRow}
  BY DEF Delete, Update
<1>3. TypeOK'
  BY <1>1, <1>2, TypeOKNext DEF IssuedTyped, RowRecord, CallRecord, Tokens
<1>4. Respects(r)
  BY <1>1, <1>2 DEF Respects, Tokens, Pending
<1>5. CallOK(r)'
  BY <1>1, <1>2 DEF CallOK, Pending
<1>6. QED
  BY <1>3, <1>4, <1>5 DEF StepOK

\* The mutex is taken.
LEMMA LockStep ==
  ASSUME IInv, NEW c \in Callers, Lock(c)
  PROVE  StepOK(c)
<1>1. lock' = c /\ c # Free /\ UNCHANGED <<issued, row, lastId, restarts>> /\ lock = Free
  BY Parts DEF Lock
<1>2. \A d \in Callers \ {c} : lock' = d <=> lock = d
  BY <1>1, Parts
<1>3. Goto(c, "locked")
  BY DEF Lock
<1>4. QED
  BY <1>1, <1>2, <1>3, GotoStep DEF Stages

\* refreshAccount reads the account under the mutex, and goes on or returns.
LEMMA ReadLatestStep ==
  ASSUME IInv, NEW c \in Callers, ReadLatest(c)
  PROVE  StepOK(c)
<1> USE Parts
<1>1. lock = c /\ UNCHANGED <<issued, row, lastId, restarts>>
  BY DEF ReadLatest, CallOK
<1>2. CASE Finish(c) /\ lock' = Free
  BY <1>1, <1>2, FinishStep
<1>3. CASE /\ Has(call[c].id) /\ UNCHANGED lock
           /\ call' = [call EXCEPT ![c].at = "presenting", ![c].token = row.token,
                                   ![c].status = row.status]
  <2> DEFINE x == [call[c] EXCEPT !.at = "presenting", !.token = row.token, !.status = row.status]
  <2>1. /\ row.token \in Tokens /\ row.token \in 0 .. Len(issued) /\ issued[row.token].stored
        /\ Unreplaced(row.token) /\ row.status \in {"alive", "expired"}
    BY <1>3, IssuedFields DEF Has, IInv, RowOK, RowRecord, Tokens
  <2>2. /\ x \in CallRecord /\ x.at = "presenting" /\ x.token = row.token /\ x.status = row.status
    BY <2>1, ZenonT(30) DEF CallRecord, Stages, Statuses
  <2>3. call' = [call EXCEPT ![c] = x] /\ call'[c] = x
    BY <1>3
  <2> HIDE DEF x
  <2>4. CallOK(c)' /\ ~Pending(c)'
    BY <1>1, <1>3, <2>1, <2>2, <2>3 DEF CallOK, Pending, Unreplaced, Tokens
  <2>5. QED
    BY <1>1, <1>3, <2>2, <2>3, <2>4, PlainStep
<1>4. QED
  BY <1>2, <1>3 DEF ReadLatest

\* RefreshCredentials is answered, or its answer is lost.
LEMMA RenewedStep ==
  ASSUME IInv, NEW c \in Callers, Renewed(c) \/ AnswerLost(c)
  PROVE  StepOK(c)
<1> USE Parts
<1>1. CASE Renewed(c)
  <2>1. call' = [call EXCEPT ![c] = [call[c] EXCEPT !.at = "fetching", !.next = Len(issued')]]
    BY <1>1 DEF Renewed
  <2>2. QED
    BY <1>1, <2>1, RenewStep DEF Renewed
<1>2. CASE AnswerLost(c)
  <2>1. [call[c] EXCEPT !.at = "failed"] = [call[c] EXCEPT !.at = "failed", !.next = call[c].next]
    BY DEF CallRecord
  <2>2. call' = [call EXCEPT ![c] = [call[c] EXCEPT !.at = "failed", !.next = call[c].next]]
    BY <1>2, <2>1 DEF AnswerLost, Goto
  <2>3. QED
    BY <1>2, <2>2, RenewStep DEF AnswerLost
<1>3. QED
  BY <1>1, <1>2

\* A refused refresh.
LEMMA RefusedStep ==
  ASSUME IInv, NEW c \in Callers, Refused(c)
  PROVE  StepOK(c)
BY Parts, GotoStep DEF Refused, Stages, CallOK

\* The login buffer for the new credentials, or none.
LEMMA FetchedStep ==
  ASSUME IInv, NEW c \in Callers, Fetched(c)
  PROVE  StepOK(c)
<1>1. PICK at \in {"storing", "failed"} : Goto(c, at)
  BY DEF Fetched
<1>2. /\ call[c].at = "fetching" /\ lock = c /\ Pending(c) /\ at \in Stages
      /\ UNCHANGED <<issued, row, lastId, lock, restarts>> /\ lock' \in Callers \cup {Free}
  BY Parts DEF Fetched, CallOK, Stages, Pending
<1>3. QED
  BY <1>1, <1>2, GotoStep

\* A failure sets the status and leaves the credentials.
LEMMA StoreFailureStep ==
  ASSUME IInv, NEW c \in Callers, StoreFailure(c)
  PROVE  StepOK(c)
<1> USE Parts
<1>1. /\ call' = [call EXCEPT ![c] = Idle] /\ call'[c] = Idle /\ Idle \in CallRecord
      /\ Idle.at = "idle" /\ lock = c /\ lock' = Free
      /\ UNCHANGED <<issued, lastId, restarts>>
  BY IdleTyped DEF StoreFailure, Finish, CallOK
<1>2. StatusAfterFailure(c) \in {"alive", "expired"}
  BY DEF StoreFailure, StatusAfterFailure, CallOK
<1>3. \/ row' = row
      \/ row # NoRow /\ row' = [row EXCEPT !.status = StatusAfterFailure(c)]
  BY DEF StoreFailure, Update, Has
<1>4. row' # NoRow => /\ row # NoRow /\ row' \in RowRecord
                      /\ row'.id = row.id /\ row'.token = row.token
  BY <1>2, <1>3 DEF RowRecord
<1>5. TypeOK'
  BY <1>1, <1>4, TypeOKNext DEF IssuedTyped, RowRecord, CallRecord, Tokens
<1>6. Respects(c)
  BY <1>1, <1>4 DEF Respects, Tokens, Pending, Callers
<1>7. CallOK(c)'
  BY <1>1 DEF CallOK, Pending
<1>8. QED
  BY <1>5, <1>6, <1>7 DEF StepOK

\* The other steps of a request.
LEMMA ContinueStep ==
  ASSUME IInv, NEW r \in Requests, Continue(r)
  PROVE  StepOK(r)
<1> USE Parts DEF Callers
<1>1. CASE GetSession(r)
  <2>1. PICK at \in {"calling", "refreshing"} : Goto(r, at)
    BY <1>1 DEF GetSession
  <2>2. QED
    BY <1>1, <2>1, GotoStep DEF GetSession, Stages, CallOK
<1>2. CASE CallSucceeds(r)
  BY <1>2, FinishStep DEF CallSucceeds, CallOK
<1>3. CASE CallFails(r)
  BY <1>3, GotoStep DEF CallFails, Stages, CallOK
<1>4. CASE Retry(r)
  BY <1>4, FinishStep DEF Retry, CallOK
<1>5. QED
  BY <1>1, <1>2, <1>3, <1>4, ReadOwnerStep, UpsertStep, DeleteStep, RereadStep DEF Continue

\* And of a refresh.
LEMMA RefreshStep ==
  ASSUME IInv, NEW c \in Callers, Refresh(c)
  PROVE  StepOK(c)
<1>1. CASE StoreFails(c)
  BY <1>1, Parts, FinishStep DEF StoreFails, CallOK
<1>2. QED
  BY <1>1, ReadLatestStep, RenewedStep, RefusedStep, FetchedStep, StoreRenewedStep,
     StoreFailureStep DEF Refresh

\* A request begins, and so does a tick.
LEMMA BeginSteps ==
  ASSUME IInv
  PROVE  /\ \A r \in Requests : Request(r) => StepOK(r)
         /\ Tick => StepOK(KeepAlive)
<1>1. \A r \in Requests : Request(r) => StepOK(r)
  BY BeginStep DEF Request, Resolve, Callers
<1>2. ASSUME Tick PROVE StepOK(KeepAlive)
  <2>1. Idle \in CallRecord /\ Idle.again = FALSE
    BY Parts, IdleTyped DEF Callers, Idle
  <2>2. [Idle EXCEPT !.at = "refreshing", !.id = row.id, !.token = row.token]
          = [Idle EXCEPT !.at = "refreshing", !.id = row.id, !.again = FALSE, !.token = row.token]
    BY <2>1 DEF CallRecord
  <2>3. QED
    BY <1>2, <2>2, BeginStep DEF Tick, Callers
<1>3. QED
  BY <1>1, <1>2

----------------------------------------------------------------------------
(* The invariant *)

\* Each step keeps the invariant.
LEMMA Invariance == IInv /\ [Next]_vars => IInv'
<1> SUFFICES ASSUME IInv, [Next]_vars PROVE IInv'
  OBVIOUS
<1>1. ASSUME NEW c \in Callers, StepOK(c) PROVE IInv'
  <2>1. \A d \in Callers : CallOK(d)'
    BY <1>1, OthersKept DEF StepOK
  <2>2. QED
    BY <1>1, <2>1, SharedKept DEF StepOK, IInv
<1>2. ASSUME NEW t \in Tokens, Age(t) PROVE IInv'
  <2>1. /\ IssuedTyped' /\ Len(issued') = Len(issued) /\ Tokens' = Tokens
        /\ \A x \in Tokens : issued'[x].from = issued[x].from /\ issued'[x].stored = issued[x].stored
    BY <1>2, AgeKeeps, TypeOKParts DEF IInv, Tokens
  <2>2. UNCHANGED <<row, lastId, lock, call, restarts>>
    BY <1>2 DEF Age
  <2>3. TypeOK'
    BY <2>1, <2>2, TypeOKParts, TypeOKNext DEF IInv, RowRecord, CallRecord
  <2>4. RowOK' /\ ChainOK' /\ Apart'
    BY <2>1, <2>2 DEF IInv, RowOK, ChainOK, Apart, Pending, Unreplaced
  <2>5. \A c \in Callers : CallOK(c)'
    <3> SUFFICES ASSUME NEW c \in Callers PROVE CallOK(c)'
      OBVIOUS
    <3>1. CallOK(c)
      BY DEF IInv
    <3>2. QED
      BY <2>1, <2>2, <3>1 DEF CallOK, Pending, Unreplaced, Has
  <2>6. QED
    BY <2>3, <2>4, <2>5 DEF IInv
<1>3. CASE Restart
  <2>1. /\ UNCHANGED <<issued, row, lastId>> /\ lock' = Free
        /\ call' = [c \in Callers |-> Idle] /\ restarts' \in 0 .. MaxRestarts
    BY <1>3, TypeOKParts, AccountsAssumption DEF Restart, IInv
  <2>2. Idle \in CallRecord /\ Idle.at = "idle" /\ Free \notin Callers
    BY TypeOKParts, IdleTyped, AccountsAssumption DEF IInv, Callers
  <2>3. TypeOK'
    BY <2>1, <2>2, TypeOKParts, TypeOKNext DEF IInv, IssuedTyped, RowRecord, CallRecord, Tokens
  <2>4. RowOK' /\ ChainOK' /\ Apart'
    BY <2>1, <2>2 DEF IInv, RowOK, ChainOK, Apart, Pending, Unreplaced, Tokens
  <2>5. \A c \in Callers : CallOK(c)'
    BY <2>1, <2>2 DEF CallOK, Pending
  <2>6. QED
    BY <2>3, <2>4, <2>5 DEF IInv
<1>4. CASE UNCHANGED vars
  BY <1>4 DEF vars, IInv, TypeOK, RowOK, ChainOK, Apart, CallOK, Pending, Unreplaced, Has, Tokens
<1>5. QED
  <2>1. ASSUME NEW r \in Requests, NEW by \in Users \cup {NoUser}, Scan(r, by) PROVE IInv'
    BY <1>1, <2>1, ScanStep DEF Callers
  <2>2. ASSUME NEW r \in Requests, Request(r) \/ Continue(r) PROVE IInv'
    BY <1>1, <2>2, BeginSteps, ContinueStep DEF Callers
  <2>3. ASSUME Tick PROVE IInv'
    BY <1>1, <2>3, BeginSteps DEF Callers
  <2>4. ASSUME NEW c \in Callers, Lock(c) \/ Refresh(c) PROVE IInv'
    BY <1>1, <2>4, LockStep, RefreshStep
  <2>5. QED
    BY <1>2, <1>3, <1>4, <2>1, <2>2, <2>3, <2>4 DEF Next, Tokens

\* It holds in every state of every behaviour.
LEMMA Always == Spec => []IInv
<1>1. Init => IInv
  <2> SUFFICES ASSUME Init PROVE IInv
    OBVIOUS
  <2>1. issued \in Seq(Credential) /\ Len(issued) = 0 /\ Tokens = {}
    BY DEF Init, Tokens
  <2>2. IssuedTyped /\ lastId \in 0 .. MaxIds
    BY <2>1, AccountsAssumption DEF IssuedTyped, Init
  <2>3. Idle \in CallRecord /\ Idle.at = "idle" /\ Free \notin Callers
    BY <2>2, IdleTyped, AccountsAssumption DEF Callers
  <2>4. TypeOK
    BY <2>2, <2>3, TypeOKParts, AccountsAssumption DEF Init
  <2>5. RowOK /\ ChainOK /\ Apart
    BY <2>1, <2>3 DEF Init, RowOK, ChainOK, Apart, Pending
  <2>6. \A c \in Callers : CallOK(c)
    BY <2>3 DEF Init, CallOK, Pending
  <2>7. QED
    BY <2>4, <2>5, <2>6 DEF IInv
<1>2. QED
  BY <1>1, Invariance, PTL DEF Spec

\* Rows, callers and credentials stay well typed.
THEOREM Typing == Spec => []TypeOK
BY Always, PTL DEF IInv

\* A refresh never presents a token whose successor has reached the database
\* (refreshAccount reading the account again under refreshMu).
THEOREM NeverReplayed == Spec => []NoReplay
<1>1. IInv => NoReplay
  BY DEF IInv, CallOK, Unreplaced, NoReplay, Tokens
<1>2. QED
  BY <1>1, Always, PTL

\* The second call of invokeWXApp uses other credentials than those just refreshed.
THEOREM RetryRenewed == Spec => RetryUsesRenewed
<1>1. IInv /\ [Next]_vars
        => [\A r \in Requests : Reread(r) /\ Has(call[r].id) => call'[r].next # call[r].token]_vars
  <2> SUFFICES ASSUME IInv, NEW r \in Requests, Reread(r), Has(call[r].id)
               PROVE  call'[r].next # call[r].token
    OBVIOUS
  <2>1. r \in Callers /\ call[r] \in CallRecord /\ CallOK(r)
    BY Parts DEF Callers
  <2>2. call'[r].next = row.token
    BY <2>1, TypeOKParts DEF Reread, IInv, CallRecord
  <2>3. QED
    BY <2>1, <2>2 DEF CallOK, Reread
<1>2. QED
  BY <1>1, Always, PTL DEF Spec, RetryUsesRenewed

\* An administrator's scan takes an account over only from a user who came to own it after
\* ownerForScan had looked, or when it could not look (ownerForScan, UpsertAccount).
THEOREM SeizedUnseen == Spec => SeizedOnlyUnseen
<1>1. IInv /\ [Next]_vars
        => [\A r \in Requests, u \in Users :
              Seizes(r, u) => call[r].held # u \/ call[r].owner # call[r].held]_vars
  <2> SUFFICES ASSUME IInv, NEW r \in Requests, NEW u \in Users, Seizes(r, u), call[r].owner = u
               PROVE  FALSE
    OBVIOUS
  <2>1. OwnerForScan(call[r].by, call[r].owner) = NoUser
    BY DEF Seizes, OwnerForScan
  <2>2. row # NoRow /\ row \in RowRecord /\ row.owner = u
    BY TypeOKParts DEF Seizes, IInv
  <2>3. row' = [row EXCEPT !.token = call[r].next, !.status = "alive", !.owner = @]
    BY <2>1, <2>2 DEF Seizes, Upsert
  <2>4. row'.owner = row.owner
    BY <2>2, <2>3 DEF RowRecord
  <2>5. QED
    BY <2>2, <2>4 DEF Seizes
<1>2. QED
  BY <1>1, Always, PTL DEF Spec, SeizedOnlyUnseen
=============================================================================
