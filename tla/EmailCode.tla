----------------------------- MODULE EmailCode -----------------------------
(***************************************************************************)
(* Registration codes sent by mail (internal/httpapi/emailverify.go): the  *)
(* table of codes, the table that limits how often an address is sent one, *)
(* and the requests that use both under one mutex.                         *)
(*                                                                         *)
(* A POST to /api/auth/email-code reads the clock, reserves a place in the *)
(* limits under the mutex, sends the mail without it, and then takes the   *)
(* mutex again to store the code, or to roll the reservation back when the *)
(* mail failed.  Requests overlap while they send, the administrator may   *)
(* change the mail settings at any time, and registrations check codes.    *)
(*                                                                         *)
(* A request sends one mail, so a code is the request that made it.  Time  *)
(* is a number of ticks; the rollback's grace of two seconds is less than  *)
(* one tick.                                                               *)
(***************************************************************************)
EXTENDS Integers, FiniteSets

CONSTANTS Requests,     \* sends asked for; a bound on their number
          Emails,       \* normalised addresses
          NoEmail,      \* address of a request not yet made
          Cooldown,     \* emailCodeCooldown
          HourWindow,   \* emailCodeHourWindow
          HourLimit,    \* emailCodeHourLimit
          TTL,          \* emailCodeTTL
          MaxAttempts,  \* emailCodeMaxAttempts
          MaxEntries,   \* emailCodeEntriesMax
          MaxSend,      \* bound: ticks a mail takes; the code sets none past the dialling
          MaxTime       \* bound: ticks in a behaviour

ASSUME EmailAssumption ==
    /\ IsFiniteSet(Requests)
    /\ NoEmail \notin Emails
    /\ Cooldown \in Nat \ {0} /\ HourWindow \in Nat /\ Cooldown <= HourWindow
    /\ HourLimit \in Nat \ {0} /\ TTL \in Nat
    /\ MaxAttempts \in Nat \ {0} /\ MaxEntries \in Nat \ {0}
    /\ MaxSend \in Nat /\ MaxTime \in Nat

VARIABLES clock,
          configured,  \* v.send is not nil: the mail settings are complete
          codes,       \* v.codes
          sends,       \* v.sends
          pc,          \* how far each request has come
          email,       \* the address it asks a code for
          at,          \* the time it read: `now' of RegisterCode
          era,         \* how often its address had been forgotten before its reservation
          forgotten,   \* times v.sends was replaced by an empty one
          late,        \* requests whose mail ended a cooldown or more after they read the clock
          taken,       \* requests whose reservation another's roll-back took
          tries,       \* registrations that tried the code while it was stored
          used         \* registrations that were let through with it

\* From `era' on the variables are history, for the properties only; so are the field
\* `of' of a send record, the request that reserved last, and the stage "forfeited".
table == <<codes, sends>>
history == <<late, taken>>
book == <<era, forgotten, late, taken, tries, used>>
vars == <<clock, configured, codes, sends, pc, email, at, era, forgotten, late, taken, tries, used>>

\* "failed": the mail failed and a place was given back; "forfeited": none was.
Stages == {"new", "ready", "sending", "sent", "limited", "failed", "forfeited", "panicked"}

\* The zero time.Time, longer ago than every window.
Never == -(MaxTime + HourWindow)

Drop(f, gone) == [e \in DOMAIN f \ gone |-> f[e]]
Put(f, e, x) == [d \in DOMAIN f \cup {e} |-> IF d = e THEN x ELSE f[d]]

Goto(r, l) == pc' = [pc EXCEPT ![r] = l]

WindowOver(s, now) == now - s.from >= HourWindow

----------------------------------------------------------------------------
(* Faulty variants, one per property, as in SessionPool. *)

\* markSent that forgets LastSent inside a window.
MarkedCountOnly(f, e, now, r) ==
    Put(f, e, IF e \in DOMAIN f /\ ~WindowOver(f[e], now)
              THEN [f[e] EXCEPT !.sent = @ + 1, !.of = r]
              ELSE [last |-> now, from |-> now, sent |-> 1, of |-> r])

\* No cooldown.
MaySendAtOnce(e, now) ==
    e \in DOMAIN sends => WindowOver(sends[e], now) \/ sends[e].sent < HourLimit

\* No eviction of codes.
KeptCodesAll(now) == codes
----------------------------------------------------------------------------
\* sendLimitLocked.
MaySend(e, now) ==
    e \in DOMAIN sends =>
        /\ now - sends[e].last >= Cooldown
        /\ WindowOver(sends[e], now) \/ sends[e].sent < HourLimit

\* evictSendRecordsLocked, before its reset.
StaleSends(now) ==
    {e \in DOMAIN sends : now - sends[e].last >= HourWindow /\ WindowOver(sends[e], now)}

\* No record of e, and the table full even without the stale records.
Overflow(e, now) ==
    /\ e \notin DOMAIN sends
    /\ Cardinality(DOMAIN sends \ StaleSends(now)) >= MaxEntries

\* What evictSendRecordsLocked leaves.
KeptSends(e, now) ==
    IF e \in DOMAIN sends \/ Cardinality(DOMAIN sends) < MaxEntries THEN sends
    ELSE IF Overflow(e, now) THEN <<>>
    ELSE Drop(sends, StaleSends(now))

\* markSentLocked.
Marked(f, e, now, r) ==
    Put(f, e, IF e \in DOMAIN f /\ ~WindowOver(f[e], now)
              THEN [last |-> now, from |-> f[e].from, sent |-> f[e].sent + 1, of |-> r]
              ELSE [last |-> now, from |-> now, sent |-> 1, of |-> r])

\* evictCodesLocked, which counts the entry it makes room for as well.
KeptCodes(now) ==
    LET live == {e \in DOMAIN codes : now <= codes[e].expires}
    IN  IF Cardinality(DOMAIN codes) < MaxEntries THEN codes
        ELSE IF Cardinality(live) < MaxEntries THEN Drop(codes, DOMAIN codes \ live)
        ELSE <<>>

\* rollbackSendLocked: its guard asks whether the record's last send is older
\* than the request's own reading of the clock by more than the grace.
RolledBack(e, now) ==
    IF e \notin DOMAIN sends \/ now > sends[e].last THEN sends
    ELSE IF sends[e].sent <= 1 THEN Drop(sends, {e})
    ELSE [sends EXCEPT ![e].last = Never, ![e].sent = @ - 1]
----------------------------------------------------------------------------
Init ==
    /\ clock = 0
    /\ configured \in BOOLEAN
    /\ codes = <<>>
    /\ sends = <<>>
    /\ pc = [r \in Requests |-> "new"]
    /\ email = [r \in Requests |-> NoEmail]
    /\ at = [r \in Requests |-> 0]
    /\ era = [r \in Requests |-> 0]
    /\ forgotten = [e \in Emails |-> 0]
    /\ late = {} /\ taken = {}
    /\ tries = [r \in Requests |-> 0]
    /\ used = [r \in Requests |-> 0]

\* RegisterCode up to the mutex: v.send and the clock are read without it.
Ask(r, e) ==
    /\ pc[r] = "new"
    /\ configured
    /\ email' = [email EXCEPT ![r] = e]
    /\ at' = [at EXCEPT ![r] = clock]
    /\ Goto(r, "ready")
    /\ UNCHANGED <<clock, configured, table, book>>

\* The limits are checked and the place reserved under the mutex; then v.send is
\* called, without it: when the settings were taken away since, that is a call of
\* a nil function, and the handler dies with its place reserved.
Reserve(r) ==
    /\ pc[r] = "ready"
    /\ MaySend(email[r], at[r])
    /\ sends' = Marked(KeptSends(email[r], at[r]), email[r], at[r], r)
    /\ forgotten' = IF Overflow(email[r], at[r]) THEN [e \in Emails |-> forgotten[e] + 1]
                    ELSE forgotten
    /\ era' = [era EXCEPT ![r] = forgotten'[email[r]]]
    /\ Goto(r, IF configured THEN "sending" ELSE "panicked")
    /\ UNCHANGED <<clock, configured, codes, email, at, history, tries, used>>

\* 429: the address is within its cooldown or has used its hour up.
Limited(r) ==
    /\ pc[r] = "ready"
    /\ ~MaySend(email[r], at[r])
    /\ Goto(r, "limited")
    /\ UNCHANGED <<clock, configured, table, email, at, book>>

\* The mail ended after the address might have been sent another one.
Outlasted(r) == late' = IF clock - at[r] >= Cooldown THEN late \cup {r} ELSE late

\* The mail server took the mail: the code replaces the one the address had, whichever of
\* the two was asked for first.
MailSent(r) ==
    /\ pc[r] = "sending"
    /\ codes' = Put(KeptCodes(at[r]), email[r],
                    [of |-> r, expires |-> at[r] + TTL, attempts |-> 0])
    /\ Outlasted(r)
    /\ Goto(r, "sent")
    /\ UNCHANGED <<clock, configured, sends, email, at, era, forgotten, taken, tries, used>>

\* The mail failed: the reservation is rolled back, the request's own or, when another has
\* taken the record over, that one's.
MailFailed(r) ==
    /\ pc[r] = "sending"
    /\ sends' = RolledBack(email[r], at[r])
    /\ taken' = IF sends' # sends THEN taken \cup ({sends[email[r]].of} \ {r}) ELSE taken
    /\ Outlasted(r)
    /\ Goto(r, IF sends' # sends THEN "failed" ELSE "forfeited")
    /\ UNCHANGED <<clock, configured, codes, email, at, era, forgotten, tries, used>>

\* The code is right, and is used up.
Accepted(e) ==
    /\ clock <= codes[e].expires
    /\ used' = [used EXCEPT ![codes[e].of] = @ + 1]
    /\ tries' = [tries EXCEPT ![codes[e].of] = @ + 1]
    /\ codes' = Drop(codes, {e})

\* The code is wrong; the last attempt takes it away.
Mismatched(e) ==
    /\ clock <= codes[e].expires
    /\ tries' = [tries EXCEPT ![codes[e].of] = @ + 1]
    /\ codes' = IF codes[e].attempts + 1 >= MaxAttempts
                THEN Drop(codes, {e})
                ELSE [codes EXCEPT ![e].attempts = @ + 1]
    /\ UNCHANGED used

\* The code has expired, and is removed.
Expired(e) ==
    /\ clock > codes[e].expires
    /\ codes' = Drop(codes, {e})
    /\ UNCHANGED <<tries, used>>

\* VerifyCode, called by a registration once the mail settings were found complete.
Verify(e) ==
    /\ configured
    /\ e \in DOMAIN codes
    /\ Accepted(e) \/ Mismatched(e) \/ Expired(e)
    /\ UNCHANGED <<clock, configured, sends, pc, email, at, era, forgotten, history>>

\* setSend: the administrator saved or cleared the mail settings.
SetSend ==
    /\ configured' = ~configured
    /\ UNCHANGED <<clock, table, pc, email, at, book>>

\* A mail takes at most MaxSend ticks; the mutex is had within the tick.
Tick ==
    /\ clock < MaxTime
    /\ \A r \in Requests :
          /\ pc[r] # "ready"
          /\ pc[r] = "sending" => clock - at[r] < MaxSend
    /\ clock' = clock + 1
    /\ UNCHANGED <<configured, table, pc, email, at, book>>

Next ==
    \/ \E r \in Requests :
          \/ \E e \in Emails : Ask(r, e)
          \/ Reserve(r) \/ Limited(r) \/ MailSent(r) \/ MailFailed(r)
    \/ \E e \in Emails : Verify(e)
    \/ SetSend
    \/ Tick

Spec == Init /\ [][Next]_vars
----------------------------------------------------------------------------
(* Properties *)

\* A stored code can still be tried.
Entry == [of : Requests, expires : Nat, attempts : 0 .. (MaxAttempts - 1)]

\* A record stands for one mail at least.
Record == [last : Int, from : Nat, sent : 1 .. HourLimit, of : Requests]

TypeOK ==
    /\ clock \in Nat
    /\ configured \in BOOLEAN
    /\ DOMAIN codes \subseteq Emails
    /\ \A e \in DOMAIN codes : codes[e] \in Entry
    /\ DOMAIN sends \subseteq Emails
    /\ \A e \in DOMAIN sends : sends[e] \in Record
    /\ pc \in [Requests -> Stages]
    /\ email \in [Requests -> Emails \cup {NoEmail}]
    /\ at \in [Requests -> Nat]
    /\ era \in [Requests -> Nat]
    /\ forgotten \in [Emails -> Nat]
    /\ late \subseteq Requests /\ taken \subseteq Requests
    /\ tries \in [Requests -> Nat]
    /\ used \in [Requests -> Nat]
    /\ Cardinality(DOMAIN codes) <= MaxEntries /\ Cardinality(DOMAIN sends) <= MaxEntries

\* Requests of one address between two times that the table of sends was replaced.
Together(r, s) == email[r] = email[s] /\ era[r] = era[s]

Distance(r, s) == IF at[r] <= at[s] THEN at[s] - at[r] ELSE at[r] - at[s]

\* The claim of emailverify.go:9, "at most once in 60 seconds", table resets apart.  The
\* code breaks it: a mail that outlasts the cooldown and then fails rolls back the
\* reservation of the request after it (the guard of rollbackSendLocked looks the wrong way).
CooldownKept ==
    \A r, s \in Requests :
        r # s /\ pc[r] = "sent" /\ pc[s] = "sent" /\ Together(r, s)
            => Distance(r, s) >= Cooldown

\* What the code keeps of the claim, whatever mails take: two mails go to an address within
\* the cooldown only when a roll-back of another request took the earlier one's reservation.
CooldownLostOnlyTaken ==
    \A r, s \in Requests :
        r # s /\ pc[r] = "sent" /\ pc[s] = "sent" /\ Together(r, s) /\ Distance(r, s) < Cooldown
            => \/ at[r] <= at[s] /\ r \in taken
               \/ at[s] <= at[r] /\ s \in taken

\* And no reservation is taken unless an earlier request of the address failed whose mail
\* outlasted the cooldown, or who is from before a reset of the table.
TakenOnlyLate ==
    \A s \in taken : \E r \in Requests \ {s} :
        /\ email[r] = email[s] /\ pc[r] = "failed" /\ at[r] <= at[s]
        /\ r \in late \/ era[r] < era[s]

\* A mail that fails gives a place back, unless it outlasted the cooldown, its reservation was
\* taken, or the table was replaced since.
ForfeitedOnlyLate ==
    \A r \in Requests :
        pc[r] = "forfeited" => r \in late \/ r \in taken \/ era[r] < forgotten[email[r]]

\* The places reserved since n in the current table and not given back.
PlacesSince(e, n) ==
    {r \in Requests : /\ email[r] = e /\ era[r] = forgotten[e] /\ at[r] >= n
                      /\ pc[r] \in {"sending", "sent", "panicked", "forfeited"}}

\* The count of a record is never more than the places reserved in its window and not given
\* back, so no failure uses the hour up; and it is their number, so that the limit of an hour
\* is not lost either, unless a reservation of the window was taken by another's roll-back.
QuotaCounts ==
    \A e \in DOMAIN sends :
        LET places == PlacesSince(e, sends[e].from) IN
        /\ sends[e].sent <= Cardinality(places)
        /\ places \cap taken = {} => sends[e].sent = Cardinality(places)

\* Both limits of an address, the cooldown and the places of an hour, with the only ways in
\* which the code loses them.
SendLimitsKept == CooldownLostOnlyTaken /\ TakenOnlyLate /\ ForfeitedOnlyLate /\ QuotaCounts

\* The code that counts is the one asked for last among the mails sent to the address, but for
\* an older mail that outlasted the cooldown, or whose reservation was taken: RegisterCode
\* stores its code over the newer one.
OlderCodeOnlyLate ==
    \A e \in DOMAIN codes, s \in Requests :
        LET r == codes[e].of IN
        pc[s] = "sent" /\ Together(r, s) /\ at[r] < at[s] => r \in late \/ r \in taken

\* A code lets one registration through at most, is not tried more than
\* MaxAttempts times, and is gone after either, also when another request for
\* the address stores its code in between.
CodeSingleUse ==
    \A r \in Requests :
        /\ used[r] <= 1
        /\ tries[r] <= MaxAttempts
        /\ used[r] = 1 \/ tries[r] = MaxAttempts
              => \A e \in DOMAIN codes : codes[e].of # r

\* Of the codes of an address one counts, once: the newest, or one whose mail came late.
CodesCountOnce == OlderCodeOnlyLate /\ CodeSingleUse
============================================================================
