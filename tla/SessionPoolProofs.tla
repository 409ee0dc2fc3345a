------------------------- MODULE SessionPoolProofs -------------------------
(***************************************************************************)
(* Proofs about SessionPool for any number of callers, accounts, proxies   *)
(* and slots; then, about the link below it (MmtlsLogin), for any answers  *)
(* of the name service, any flights, tickets and numbers of targets.       *)
(***************************************************************************)
EXTENDS SessionPool, MmtlsLogin, TLAPS, FiniteSetTheorems, SequenceTheorems,
        WellFoundedInduction

\* The pool starts out well typed (NewPool: empty channels, no mutex handed out).
LEMMA TypeInit == Init => TypeOK
  BY PoolAssumption DEF Init, TypeOK, Keys, Labels, Outcomes

\* round never passes 2: DropEmpty is reached from the first run only.
RoundInv == \A c \in Callers : pc[c] = "dropEmpty" => round[c] = 1

\* The key a caller works on is a key.
LEMMA KeyTyped ==
  ASSUME TypeOK, NEW c \in Callers
  PROVE  Key(c) \in Keys /\ <<acct[c], proxy[c]>> \in Keys
  BY DEF TypeOK, Key, Keys

\* The part of the type invariant that a call's progress can disturb.
ProgressOK ==
    /\ pc \in [Callers -> Labels]
    /\ via \in [Callers -> Proxies]
    /\ round \in [Callers -> {1, 2}]
    /\ held \in [Callers -> Nat]
    /\ emptied \in [Callers -> Nat]
    /\ outcome \in [Callers -> Outcomes]
    /\ RoundInv

\* The part it cannot: tables, locks and slots.
StoreOK ==
    /\ accounts \in SUBSET Accounts
    /\ session \in [Keys -> Nat]
    /\ minted \in Seq(Keys)
    /\ lock \in [Keys -> Callers \cup {NoCaller}]
    /\ loginSem \in Nat
    /\ shortSem \in Nat
    /\ acct \in [Callers -> Accounts]
    /\ proxy \in [Callers -> Proxies]
    /\ codeCall \in [Callers -> BOOLEAN]

\* The two parts together are the type invariant and the bound on rounds.
LEMMA TypeSplit == (TypeOK /\ RoundInv) <=> (ProgressOK /\ StoreOK)
  BY DEF TypeOK, ProgressOK, StoreOK

\* However a call goes on or ends, its progress stays well typed.
LEMMA ProgressTyped ==
  ASSUME ProgressOK, NEW c \in Callers, NEW s \in Nat,
         \/ \E o \in Outcomes : Return(c, o)
         \/ FallBack(c)
         \/ UseSession(c, s)
         \/ /\ \E l \in Labels \ {"dropEmpty"} : Goto(c, l)
            /\ UNCHANGED <<via, round, held, emptied, outcome>>
  PROVE  ProgressOK'
<1>1. ASSUME NEW o \in Outcomes, Return(c, o) PROVE ProgressOK'
  BY <1>1 DEF ProgressOK, RoundInv, Return, Goto, Labels
<1>2. CASE FallBack(c)
  BY <1>2, PoolAssumption DEF ProgressOK, RoundInv, FallBack, Goto, Labels
<1>3. CASE UseSession(c, s)
  BY <1>3 DEF ProgressOK, RoundInv, UseSession, Goto, Labels
<1>4. ASSUME NEW l \in Labels \ {"dropEmpty"}, Goto(c, l),
             UNCHANGED <<via, round, held, emptied, outcome>>
      PROVE  ProgressOK'
  BY <1>4 DEF ProgressOK, RoundInv, Goto
<1>5. QED
  BY <1>1, <1>2, <1>3, <1>4

\* So it does after an error of state or of the operation.
LEMMA FailureTyped ==
  ASSUME ProgressOK, NEW c \in Callers, StateFailed(c) \/ OpFailed(c)
  PROVE  ProgressOK'
<1>1. "error" \in Outcomes /\ "dropProxied" \in Labels \ {"dropEmpty"} /\ 0 \in Nat
  BY DEF Outcomes, Labels
<1>2. \/ Return(c, "error")
      \/ FallBack(c)
      \/ Goto(c, "dropProxied") /\ UNCHANGED <<via, round, held, emptied, outcome>>
  BY DEF StateFailed, OpFailed
<1>3. QED
  BY <1>1, <1>2, ProgressTyped

\* Taking and giving back mutexes and slots keeps tables, locks and slots typed.
LEMMA StoreTyped ==
  ASSUME StoreOK, NEW k \in Keys, NEW c \in Callers \cup {NoCaller}
  PROVE  /\ [session EXCEPT ![k] = 0] \in [Keys -> Nat]
         /\ [lock EXCEPT ![k] = c] \in [Keys -> Callers \cup {NoCaller}]
         /\ Released(loginSem) \in Nat
         /\ Released(shortSem) \in Nat
  BY DEF StoreOK, Released

\* Every step keeps every type: in particular no release takes a semaphore
\* below zero and GetCode never starts a third run.
LEMMA TypeStep ==
  ASSUME TypeOK, RoundInv, [Next]_vars
  PROVE  TypeOK' /\ RoundInv'
<1> SUFFICES ProgressOK' /\ StoreOK'
  BY TypeSplit DEF TypeOK, RoundInv, ProgressOK, StoreOK
<1> DEFINE Typed == ProgressOK' /\ StoreOK'
<1>t. ProgressOK /\ StoreOK
  BY TypeSplit
<1>k. \A c \in Callers : Key(c) \in Keys /\ <<acct[c], proxy[c]>> \in Keys
  BY KeyTyped
<1>u. \A c \in Callers, l \in Labels \ {"dropEmpty"} :
         Goto(c, l) /\ (UNCHANGED <<via, round, held, emptied, outcome>>) => ProgressOK'
  BY <1>t, ProgressTyped
<1>r. \A c \in Callers, o \in Outcomes : Return(c, o) => ProgressOK'
  BY <1>t, ProgressTyped
<1>f. \A c \in Callers : StateFailed(c) \/ OpFailed(c) => ProgressOK'
  BY <1>t, FailureTyped
<1>h. \A c \in Callers, s \in Nat : UseSession(c, s) => ProgressOK'
  BY <1>t, ProgressTyped
<1>l. {"wantLock", "recheck", "getAccount", "wantLogin", "login", "store", "send",
       "dropProxied"} \subseteq Labels \ {"dropEmpty"}
  BY DEF Labels
<1>o. {"ok", "empty", "error"} \subseteq Outcomes
  BY DEF Outcomes
<1>1. ASSUME NEW c \in Callers, NEW a \in Accounts, NEW p \in Proxies,
             NEW code \in BOOLEAN, Begin(c, a, p, code)
      PROVE  Typed
  <2>1. ProgressOK'
    BY <1>1, <1>t DEF Begin, Goto, ProgressOK, RoundInv, Labels, Outcomes
  <2>2. StoreOK'
    BY <1>1, <1>t DEF Begin, StoreOK, store
  <2>3. QED
    BY <2>1, <2>2
<1>2. ASSUME NEW c \in Callers, Lookup(c) PROVE Typed
  <2>1. ProgressOK'
    BY <1>2, <1>u, <1>f, <1>h, <1>l, <1>k, <1>t DEF Lookup, StoreOK
  <2>2. StoreOK'
    BY <1>2, <1>t DEF Lookup, StoreOK, store, request
  <2>3. QED
    BY <2>1, <2>2
<1>3. ASSUME NEW c \in Callers, TakeLock(c) PROVE Typed
  <2>1. ProgressOK'
    BY <1>3, <1>u, <1>l, <1>k DEF TakeLock
  <2>2. StoreOK'
    BY <1>3, <1>t, <1>k, StoreTyped DEF TakeLock, StoreOK, store, request
  <2>3. QED
    BY <2>1, <2>2
<1>4. ASSUME NEW c \in Callers, Recheck(c) PROVE Typed
  <2>1. ProgressOK'
    BY <1>4, <1>u, <1>f, <1>h, <1>l, <1>k, <1>t DEF Recheck, StoreOK
  <2>2. StoreOK'
    BY <1>4, <1>t, <1>k, StoreTyped DEF Recheck, StoreOK, store, request, Unlock
  <2>3. QED
    BY <2>1, <2>2
<1>5. ASSUME NEW c \in Callers, GetAccount(c) PROVE Typed
  <2>1. ProgressOK'
    BY <1>5, <1>u, <1>f, <1>l, <1>k DEF GetAccount
  <2>2. StoreOK'
    BY <1>5, <1>t, <1>k, StoreTyped DEF GetAccount, StoreOK, store, request, Unlock
  <2>3. QED
    BY <2>1, <2>2
<1>6. ASSUME NEW c \in Callers, AcquireLogin(c) PROVE Typed
  <2>1. ProgressOK'
    BY <1>6, <1>u, <1>l, <1>k DEF AcquireLogin
  <2>2. StoreOK'
    BY <1>6, <1>t DEF AcquireLogin, StoreOK, store, request
  <2>3. QED
    BY <2>1, <2>2
<1>7. ASSUME NEW c \in Callers, LoginSucceeds(c) PROVE Typed
  <2>1. Len(minted) \in Nat /\ Append(minted, Key(c)) \in Seq(Keys)
    BY <1>t, <1>k, LenProperties, AppendProperties DEF StoreOK
  <2>2. ProgressOK'
    BY <1>7, <1>t, <2>1 DEF LoginSucceeds, Goto, ProgressOK, RoundInv, Labels
  <2>3. StoreOK'
    BY <1>7, <1>t, <2>1 DEF LoginSucceeds, StoreOK, request
  <2>4. QED
    BY <2>1, <2>2, <2>3
<1>8. ASSUME NEW c \in Callers, LoginFails(c) PROVE Typed
  <2>1. ProgressOK'
    BY <1>8, <1>f, <1>k DEF LoginFails
  <2>2. StoreOK'
    BY <1>8, <1>t, <1>k, StoreTyped DEF LoginFails, StoreOK, store, request, Unlock
  <2>3. QED
    BY <2>1, <2>2
<1>9. ASSUME NEW c \in Callers, StoreSession(c) PROVE Typed
  <2>1. ProgressOK'
    BY <1>9, <1>f, <1>h, <1>k, <1>t DEF StoreSession, ProgressOK
  <2>2. StoreOK'
    BY <1>9, <1>t, <1>k, StoreTyped DEF StoreSession, StoreOK, request, Unlock, ProgressOK
  <2>3. QED
    BY <2>1, <2>2
<1>10. ASSUME NEW c \in Callers, AcquireShort(c) PROVE Typed
  <2>1. ProgressOK'
    BY <1>10, <1>u, <1>l, <1>k DEF AcquireShort
  <2>2. StoreOK'
    BY <1>10, <1>t DEF AcquireShort, StoreOK, store, request
  <2>3. QED
    BY <2>1, <2>2
<1>11. ASSUME NEW c \in Callers, SendSucceeds(c) PROVE Typed
  <2>1. ProgressOK'
    BY <1>11, <1>r, <1>o, <1>k DEF SendSucceeds
  <2>2. StoreOK'
    BY <1>11, <1>t, <1>k, StoreTyped DEF SendSucceeds, StoreOK, store, request
  <2>3. QED
    BY <2>1, <2>2
<1>12. ASSUME NEW c \in Callers, SendReturnsEmpty(c) PROVE Typed
  <2>1. \/ /\ round[c] = 1
           /\ emptied' = [emptied EXCEPT ![c] = held[c]]
           /\ Goto(c, "dropEmpty")
           /\ UNCHANGED <<via, round, held, outcome>>
        \/ Return(c, "empty")
    BY <1>12 DEF SendReturnsEmpty
  <2>2. ProgressOK'
    BY <2>1, <1>t, <1>r, <1>o DEF Goto, ProgressOK, RoundInv, Labels
  <2>3. shortSem' = Released(shortSem) /\ UNCHANGED <<store, lock, loginSem, request>>
    BY <1>12 DEF SendReturnsEmpty
  <2>4. StoreOK'
    BY <2>3, <1>t DEF StoreOK, Released, store, request
  <2>5. QED
    BY <2>2, <2>4
<1>13. ASSUME NEW c \in Callers, SendFails(c) PROVE Typed
  <2>1. ProgressOK'
    BY <1>13, <1>f, <1>k DEF SendFails
  <2>2. StoreOK'
    BY <1>13, <1>t, <1>k, StoreTyped DEF SendFails, StoreOK, store, request
  <2>3. QED
    BY <2>1, <2>2
<1>14. ASSUME NEW c \in Callers, DropProxied(c) PROVE Typed
  <2>1. ProgressOK'
    BY <1>14, <1>t, ProgressTyped DEF DropProxied
  <2>2. StoreOK'
    BY <1>14, <1>t, <1>k, StoreTyped DEF DropProxied, Invalidate, StoreOK, request
  <2>3. QED
    BY <2>1, <2>2
<1>15. ASSUME NEW c \in Callers, DropEmpty(c) PROVE Typed
  <2>0. emptied' \in [Callers -> Nat]
    BY <1>15, <1>t DEF DropEmpty, ProgressOK
  <2>1. ProgressOK'
    BY <1>15, <1>t, <2>0 DEF DropEmpty, Goto, ProgressOK, RoundInv, StoreOK, Labels
  <2>2. StoreOK'
    BY <1>15, <1>t, <1>k, StoreTyped DEF DropEmpty, Invalidate, StoreOK, request
  <2>3. QED
    BY <2>1, <2>2
<1>16. ASSUME NEW c \in Callers, ContextDone(c) PROVE Typed
  <2>1. ProgressOK'
    BY <1>16, <1>r, <1>o, <1>k DEF ContextDone
  <2>2. StoreOK'
    BY <1>16, <1>t, <1>k, StoreTyped DEF ContextDone, StoreOK, store, request
  <2>3. QED
    BY <2>1, <2>2
<1>17. ASSUME NEW k \in Keys, Expire(k) PROVE Typed
  BY <1>17, <1>t, StoreTyped
     DEF Expire, Invalidate, request, ProgressOK, StoreOK, RoundInv
<1>18. ASSUME NEW a \in Accounts, DeleteAccount(a) PROVE Typed
  BY <1>18, <1>t DEF DeleteAccount, request, ProgressOK, StoreOK, RoundInv
<1>19. CASE UNCHANGED vars
  BY <1>19, <1>t DEF vars, ProgressOK, StoreOK, RoundInv
<1>20. QED
  BY <1>1, <1>2, <1>3, <1>4, <1>5, <1>6, <1>7, <1>8, <1>9, <1>10, <1>11, <1>12, <1>13, <1>14, <1>15, <1>16, <1>17, <1>18, <1>19 DEF Next, Work, Wait, Environment

\* So both hold in every reachable state.
LEMMA TypeInvariance == Spec => [](TypeOK /\ RoundInv)
<1>1. Init => TypeOK /\ RoundInv
  BY TypeInit DEF Init, RoundInv
<1>2. TypeOK /\ RoundInv /\ [Next]_vars => (TypeOK /\ RoundInv)'
  BY TypeStep
<1>3. QED
  BY <1>1, <1>2, PTL DEF Spec

\* Type correctness of the pool, for any number of callers, keys and slots.
THEOREM TypeCorrect == Spec => []TypeOK
  BY TypeInvariance, PTL
----------------------------------------------------------------------------
(* What one step of a caller does to the mutexes, the slots and the rows.   *)

CallerStep(c) ==
    \/ \E a \in Accounts, p \in Proxies, code \in BOOLEAN : Begin(c, a, p, code)
    \/ Work(c) \/ Wait(c) \/ ContextDone(c)

\* A step is one of a caller, one of the environment, or no step of the pool.
LEMMA NextCases ==
  ASSUME [Next]_vars
  PROVE  \/ \E c \in Callers : CallerStep(c)
         \/ Environment
         \/ UNCHANGED vars
  BY DEF Next, CallerStep

\* Nothing a caller does moves another caller.
Alone(c) ==
    \A d \in Callers \ {c} :
        /\ pc'[d] = pc[d]
        /\ Key(d)' = Key(d)
        /\ held'[d] = held[d]

Moves(c, labels) == \E l \in labels : pc' = [pc EXCEPT ![c] = l]

\* The ways a call goes on or ends, as seen by the resources.
LEMMA ProgressEffect ==
  ASSUME TypeOK, NEW c \in Callers
  PROVE  /\ \A o : Return(c, o) => Moves(c, {"idle"}) /\ via' = via
         /\ StateFailed(c) => Moves(c, {"idle", "lookup"})
         /\ OpFailed(c) => Moves(c, {"idle", "dropProxied"})
         /\ FallBack(c) => Moves(c, {"lookup"})
         /\ \A s : UseSession(c, s) => Moves(c, {"wantShort"}) /\ via' = via
         /\ (\/ StateFailed(c) \/ OpFailed(c) \/ FallBack(c)
             \/ \E o : Return(c, o)
             \/ \E s : UseSession(c, s))
               => \A d \in Callers \ {c} : via'[d] = via[d] /\ held'[d] = held[d]
  BY DEF TypeOK, Moves, Return, StateFailed, OpFailed, FallBack, UseSession, Goto

LockEffect(c) ==
    \/ /\ lock' = lock
       /\ pc[c] \in Locked <=> pc'[c] \in Locked
       /\ pc[c] \in Locked => Key(c)' = Key(c)
    \/ /\ lock[Key(c)] = NoCaller
       /\ lock' = [lock EXCEPT ![Key(c)] = c]
       /\ Key(c)' = Key(c)
    \/ /\ pc[c] \in Locked
       /\ pc'[c] \notin Locked
       /\ lock' = [lock EXCEPT ![Key(c)] = NoCaller]

\* Callers that saw no session under the mutex and have not stored one yet.
Building == {"getAccount", "wantLogin", "login", "store"}

RowEffect(c) ==
    /\ accounts' = accounts
    /\ \/ /\ session' = session
          /\ pc'[c] \in Building =>
                /\ Key(c)' = Key(c)
                /\ pc[c] \in Building \/ session[Key(c)] = 0
       \/ /\ \E k \in Keys : session' = [session EXCEPT ![k] = 0]
          /\ pc'[c] \notin Building
       \/ /\ pc[c] = "store"
          /\ acct[c] \in accounts
          /\ session' = [session EXCEPT ![Key(c)] = held[c]]
          /\ pc'[c] \notin Building

\* n: the length of a channel; l, m: whether the caller is inside before and after.
SlotStep(n, max, m, l, k) ==
    \/ n = m /\ (l <=> k)
    \/ n < max /\ m = n + 1 /\ ~l /\ k
    \/ m = Released(n) /\ l /\ ~k

SlotEffect(c) ==
    /\ SlotStep(loginSem, MaxLogin, loginSem', pc[c] \in LoggingIn, pc'[c] \in LoggingIn)
    /\ SlotStep(shortSem, MaxShort, shortSem', pc[c] = "send", pc'[c] = "send")

Effects(c) == Alone(c) /\ LockEffect(c) /\ RowEffect(c) /\ SlotEffect(c)

\* What each step of state, run and GetCode does to the mutex of its key, to the
\* rows and to the two semaphores; nothing it does moves another caller.
LEMMA StepEffects ==
  ASSUME TypeOK, NEW c \in Callers, CallerStep(c)
  PROVE  Effects(c)
<1>k. \A d \in Callers : Key(d) \in Keys /\ <<acct[d], proxy[d]>> \in Keys
  BY KeyTyped
<1>1. ASSUME NEW a \in Accounts, NEW p \in Proxies, NEW code \in BOOLEAN, Begin(c, a, p, code)
      PROVE  Effects(c)
  BY <1>1, <1>k DEF Begin, Goto, store, TypeOK, Key, Effects, Alone, LockEffect, RowEffect,
     SlotEffect, SlotStep, Locked, Building, LoggingIn
<1>2. CASE Lookup(c)
  <2>1. /\ \/ Moves(c, {"wantShort", "wantLock"}) /\ via' = via
           \/ Moves(c, {"idle", "lookup"})
        /\ \A d \in Callers \ {c} : via'[d] = via[d] /\ held'[d] = held[d]
    BY <1>2, ProgressEffect DEF Lookup, Goto, Moves
  <2>2. pc[c] = "lookup" /\ UNCHANGED <<store, lock, loginSem, shortSem, request>>
    BY <1>2 DEF Lookup
  <2>3. QED
    BY <2>1, <2>2 DEF Moves, store, request, TypeOK, Key, Effects, Alone, LockEffect,
         RowEffect, SlotEffect, SlotStep, Locked, Building, LoggingIn
<1>3. CASE TakeLock(c)
  BY <1>3, <1>k, ProgressEffect
     DEF TakeLock, Goto, Moves, store, request, TypeOK, Key, Effects, Alone, LockEffect,
         RowEffect, SlotEffect, SlotStep, Locked, Building, LoggingIn
<1>4. CASE Recheck(c)
  <2>1. /\ \/ /\ Moves(c, {"wantShort"}) /\ lock' = [lock EXCEPT ![Key(c)] = NoCaller]
              /\ via' = via
           \/ /\ Moves(c, {"getAccount"}) /\ session[Key(c)] = 0 /\ lock' = lock
              /\ via' = via
           \/ Moves(c, {"idle", "lookup"}) /\ lock' = [lock EXCEPT ![Key(c)] = NoCaller]
        /\ \A d \in Callers \ {c} : via'[d] = via[d] /\ held'[d] = held[d]
    BY <1>4, ProgressEffect DEF Recheck, Goto, Moves, Unlock
  <2>2. pc[c] = "recheck" /\ UNCHANGED <<store, loginSem, shortSem, request>>
    BY <1>4 DEF Recheck
  <2>3. QED
    BY <2>1, <2>2 DEF Moves, store, request, TypeOK, Key, Effects, Alone, LockEffect,
         RowEffect, SlotEffect, SlotStep, Locked, Building, LoggingIn
<1>5. CASE GetAccount(c)
  BY <1>5, <1>k, ProgressEffect
     DEF GetAccount, Goto, Unlock, Moves, store, request, TypeOK, Key, Effects, Alone, LockEffect,
         RowEffect, SlotEffect, SlotStep, Locked, Building, LoggingIn
<1>6. CASE AcquireLogin(c)
  BY <1>6, <1>k, ProgressEffect
     DEF AcquireLogin, Goto, Moves, store, request, TypeOK, Key, Effects, Alone, LockEffect,
         RowEffect, SlotEffect, SlotStep, Locked, Building, LoggingIn
<1>7. CASE LoginSucceeds(c)
  BY <1>7, <1>k, ProgressEffect
     DEF LoginSucceeds, Goto, Moves, store, request, TypeOK, Key, Effects, Alone, LockEffect,
         RowEffect, SlotEffect, SlotStep, Locked, Building, LoggingIn
<1>8. CASE LoginFails(c)
  <2>1. /\ Moves(c, {"idle", "lookup"})
        /\ \A d \in Callers \ {c} : via'[d] = via[d] /\ held'[d] = held[d]
    BY <1>8, ProgressEffect DEF LoginFails
  <2>2. /\ pc[c] = "login"
        /\ loginSem' = Released(loginSem)
        /\ lock' = [lock EXCEPT ![Key(c)] = NoCaller]
        /\ UNCHANGED <<store, shortSem, request>>
    BY <1>8 DEF LoginFails, Unlock
  <2>3. QED
    BY <2>1, <2>2 DEF Moves, store, request, TypeOK, Key, Effects, Alone, LockEffect,
         RowEffect, SlotEffect, SlotStep, Locked, Building, LoggingIn
<1>9. CASE StoreSession(c)
  <2>1. /\ Moves(c, {"idle", "lookup", "wantShort"})
        /\ \A d \in Callers \ {c} : via'[d] = via[d] /\ held'[d] = held[d]
    BY <1>9, ProgressEffect DEF StoreSession, Moves
  <2>2. /\ pc[c] = "store"
        /\ \/ /\ acct[c] \in accounts
              /\ session' = [session EXCEPT ![Key(c)] = held[c]]
           \/ session' = session
        /\ loginSem' = Released(loginSem)
        /\ lock' = [lock EXCEPT ![Key(c)] = NoCaller]
        /\ UNCHANGED <<accounts, shortSem, request>>
    BY <1>9 DEF StoreSession, Unlock
  <2>3. QED
    BY <2>1, <2>2 DEF Moves, store, request, TypeOK, Key, Effects, Alone, LockEffect,
         RowEffect, SlotEffect, SlotStep, Locked, Building, LoggingIn
<1>10. CASE AcquireShort(c)
  BY <1>10, <1>k, ProgressEffect
     DEF AcquireShort, Goto, Moves, store, request, TypeOK, Key, Effects, Alone, LockEffect,
         RowEffect, SlotEffect, SlotStep, Locked, Building, LoggingIn
<1>11. CASE SendSucceeds(c)
  <2>1. /\ Moves(c, {"idle"})
        /\ \A d \in Callers \ {c} : via'[d] = via[d] /\ held'[d] = held[d]
    BY <1>11, ProgressEffect DEF SendSucceeds
  <2>2. /\ pc[c] = "send"
        /\ shortSem' = Released(shortSem)
        /\ UNCHANGED <<store, lock, loginSem, request>>
    BY <1>11 DEF SendSucceeds
  <2>3. QED
    BY <2>1, <2>2 DEF Moves, store, request, TypeOK, Key, Effects, Alone, LockEffect,
         RowEffect, SlotEffect, SlotStep, Locked, Building, LoggingIn
<1>12. CASE SendReturnsEmpty(c)
  <2>1. /\ Moves(c, {"idle", "dropEmpty"})
        /\ \A d \in Callers \ {c} : via'[d] = via[d] /\ held'[d] = held[d]
    BY <1>12, ProgressEffect DEF SendReturnsEmpty, Moves, Goto
  <2>2. /\ pc[c] = "send"
        /\ shortSem' = Released(shortSem)
        /\ UNCHANGED <<store, lock, loginSem, request>>
    BY <1>12 DEF SendReturnsEmpty
  <2>3. QED
    BY <2>1, <2>2 DEF Moves, store, request, TypeOK, Key, Effects, Alone, LockEffect,
         RowEffect, SlotEffect, SlotStep, Locked, Building, LoggingIn
<1>13. CASE SendFails(c)
  <2>1. /\ Moves(c, {"idle", "dropProxied"})
        /\ \A d \in Callers \ {c} : via'[d] = via[d] /\ held'[d] = held[d]
    BY <1>13, ProgressEffect DEF SendFails
  <2>2. /\ pc[c] = "send"
        /\ shortSem' = Released(shortSem)
        /\ UNCHANGED <<store, lock, loginSem, request>>
    BY <1>13 DEF SendFails
  <2>3. QED
    BY <2>1, <2>2 DEF Moves, store, request, TypeOK, Key, Effects, Alone, LockEffect,
         RowEffect, SlotEffect, SlotStep, Locked, Building, LoggingIn
<1>14. CASE DropProxied(c)
  <2>1. /\ Moves(c, {"lookup"})
        /\ \A d \in Callers \ {c} : via'[d] = via[d] /\ held'[d] = held[d]
    BY <1>14, ProgressEffect DEF DropProxied
  <2>2. /\ pc[c] = "dropProxied"
        /\ session' = session \/ \E k \in Keys : session' = [session EXCEPT ![k] = 0]
        /\ UNCHANGED <<accounts, lock, loginSem, shortSem, request>>
    BY <1>14, <1>k DEF DropProxied, Invalidate
  <2>3. QED
    BY <2>1, <2>2 DEF Moves, store, request, TypeOK, Key, Effects, Alone, LockEffect,
         RowEffect, SlotEffect, SlotStep, Locked, Building, LoggingIn
<1>15. CASE DropEmpty(c)
  <2>1. /\ Moves(c, {"lookup"})
        /\ \A d \in Callers \ {c} : via'[d] = via[d] /\ held'[d] = held[d]
    BY <1>15 DEF DropEmpty, Moves, Goto, TypeOK
  <2>2. /\ pc[c] = "dropEmpty"
        /\ session' = session \/ \E k \in Keys : session' = [session EXCEPT ![k] = 0]
        /\ UNCHANGED <<accounts, lock, loginSem, shortSem, request>>
    BY <1>15, <1>k DEF DropEmpty, Invalidate
  <2>3. QED
    BY <2>1, <2>2 DEF Moves, store, request, TypeOK, Key, Effects, Alone, LockEffect,
         RowEffect, SlotEffect, SlotStep, Locked, Building, LoggingIn
<1>16. CASE ContextDone(c)
  <2>1. /\ Moves(c, {"idle"})
        /\ \A d \in Callers \ {c} : via'[d] = via[d] /\ held'[d] = held[d]
    BY <1>16, ProgressEffect DEF ContextDone
  <2>2. /\ lock' = IF pc[c] \in Locked THEN [lock EXCEPT ![Key(c)] = NoCaller] ELSE lock
        /\ loginSem' = IF pc[c] \in LoggingIn THEN Released(loginSem) ELSE loginSem
        /\ shortSem' = IF pc[c] = "send" THEN Released(shortSem) ELSE shortSem
        /\ UNCHANGED <<store, request>>
    BY <1>16 DEF ContextDone
  <2>3. QED
    BY <2>1, <2>2 DEF Moves, store, request, TypeOK, Key, Effects, Alone, LockEffect,
         RowEffect, SlotEffect, SlotStep, Locked, Building, LoggingIn
<1>17. QED
  BY <1>1, <1>2, <1>3, <1>4, <1>5, <1>6, <1>7, <1>8, <1>9, <1>10, <1>11, <1>12, <1>13, <1>14, <1>15, <1>16 DEF CallerStep, Work, Wait
----------------------------------------------------------------------------
(* The inductive invariant.                                                 *)

\* Whoever is between Lock and Unlock owns the mutex of its key.
LockInv == \A c \in Callers : pc[c] \in Locked => lock[Key(c)] = c

\* While a caller builds a session nobody else stores one under its key.
BuildInv == \A c \in Callers : pc[c] \in Building => session[Key(c)] = 0

IInv == TypeOK /\ RoundInv /\ LockInv /\ BuildInv /\ NoOrphanSession /\ SlotsAccounted

\* Expiry and account deletion only remove rows, all rows of a deleted account.
LEMMA EnvironmentEffect ==
  ASSUME TypeOK, Environment
  PROVE  /\ UNCHANGED <<lock, loginSem, shortSem, pc, acct, via, held>>
         /\ \A k \in Keys : session'[k] \in {0, session[k]}
         /\ \A k \in Keys : k[1] \in accounts /\ k[1] \notin accounts' => session'[k] = 0
  BY DEF TypeOK, Environment, Expire, DeleteAccount, Invalidate, request

\* A step of one caller never takes the mutex of a key from its owner.
LEMMA LockStep ==
  ASSUME TypeOK, LockInv, [Next]_vars
  PROVE  LockInv'
<1>1. ASSUME NEW c \in Callers, CallerStep(c) PROVE LockInv'
  <2>1. Effects(c)
    BY <1>1, StepEffects
  <2>2. \A d \in Callers : Key(d) \in Keys
    BY KeyTyped
  <2>3. ASSUME NEW d \in Callers \ {c}, pc'[d] \in Locked PROVE lock'[Key(d)'] = d
    <3>1. pc[d] \in Locked /\ Key(d)' = Key(d) /\ lock[Key(d)] = d
      BY <2>1, <2>3 DEF Effects, Alone, LockInv
    <3>2. lock[Key(c)] = NoCaller \/ pc[c] \in Locked => Key(d) # Key(c) \/ lock[Key(c)] = c
      BY <3>1, PoolAssumption DEF LockInv
    <3>3. QED
      BY <2>1, <2>2, <3>1, <3>2, PoolAssumption DEF Effects, LockEffect, TypeOK, LockInv
  <2>4. ASSUME pc'[c] \in Locked PROVE lock'[Key(c)'] = c
    BY <2>1, <2>2, <2>4 DEF Effects, LockEffect, LockInv, TypeOK
  <2>5. QED
    BY <2>3, <2>4 DEF LockInv, Key
<1>2. CASE Environment
  BY <1>2, EnvironmentEffect DEF LockInv, Key
<1>3. CASE UNCHANGED vars
  BY <1>3 DEF vars, LockInv, Key
<1>4. QED
  BY <1>1, <1>2, <1>3, NextCases

\* Two callers inside the mutex work on different keys.
LEMMA LockedApart ==
  ASSUME LockInv, NEW c \in Callers, NEW d \in Callers,
         pc[c] \in Locked, pc[d] \in Locked, Key(c) = Key(d)
  PROVE  c = d
  BY DEF LockInv

\* No step stores a row under the key of a login under way, for an account that
\* is gone, or over a live session.
LEMMA RowStep ==
  ASSUME TypeOK, LockInv, BuildInv, NoOrphanSession, [Next]_vars
  PROVE  /\ BuildInv'
         /\ NoOrphanSession'
         /\ \A k \in Keys : session[k] # 0 => session'[k] \in {0, session[k]}
<1> DEFINE Kept == \A k \in Keys : session[k] # 0 => session'[k] \in {0, session[k]}
<1>1. ASSUME NEW c \in Callers, CallerStep(c)
      PROVE  BuildInv' /\ NoOrphanSession' /\ Kept
  <2>1. Alone(c) /\ RowEffect(c)
    BY <1>1, StepEffects DEF Effects
  <2>2. \A d \in Callers : Key(d) \in Keys
    BY KeyTyped
  <2>3. Building \subseteq Locked /\ "store" \in Building
    BY DEF Building, Locked
  <2>4. ASSUME NEW d \in Callers \ {c}, pc'[d] \in Building PROVE session'[Key(d)'] = 0
    <3>1. pc[d] \in Building /\ Key(d)' = Key(d) /\ session[Key(d)] = 0
      BY <2>1, <2>4 DEF Alone, BuildInv
    <3>2. pc[c] = "store" => Key(c) # Key(d)
      BY <3>1, <2>3, LockedApart
    <3>3. QED
      BY <2>1, <2>2, <3>1, <3>2 DEF RowEffect, TypeOK
  <2>5. ASSUME pc'[c] \in Building PROVE session'[Key(c)'] = 0
    BY <2>1, <2>2, <2>5 DEF RowEffect, BuildInv, TypeOK
  <2>6. BuildInv'
    BY <2>4, <2>5 DEF BuildInv, Key
  <2>7. NoOrphanSession'
    BY <2>1, <2>2 DEF RowEffect, NoOrphanSession, TypeOK, Key
  <2>8. Kept
    BY <2>1, <2>2, <2>3 DEF RowEffect, BuildInv, TypeOK
  <2>9. QED
    BY <2>6, <2>7, <2>8
<1>2. CASE Environment
  BY <1>2, EnvironmentEffect, KeyTyped DEF BuildInv, NoOrphanSession, Key
<1>3. CASE UNCHANGED vars
  BY <1>3 DEF vars, BuildInv, NoOrphanSession, Key
<1>4. QED
  BY <1>1, <1>2, <1>3, NextCases

\* A channel that counts the members of a finite set keeps counting them when
\* a member enters or leaves, within its capacity.
LEMMA SlotCounts ==
  ASSUME NEW S, IsFiniteSet(S), NEW T, NEW c, NEW n, NEW m, NEW max \in Nat,
         n = Cardinality(S), n <= max,
         T \ {c} = S \ {c},
         SlotStep(n, max, m, c \in S, c \in T)
  PROVE  m = Cardinality(T) /\ m <= max
<1>1. Cardinality(S) \in Nat
  BY FS_CardinalityType
<1>2. CASE c \in S <=> c \in T
  <2>1. S = T /\ n = m
    BY <1>2 DEF SlotStep
  <2>2. QED
    BY <2>1
<1>3. CASE c \notin S /\ c \in T
  <2>1. T = S \cup {c} /\ m = n + 1 /\ n < max
    BY <1>3 DEF SlotStep
  <2>2. Cardinality(T) = Cardinality(S) + 1
    BY <2>1, <1>3, FS_AddElement
  <2>3. QED
    BY <2>1, <2>2, <1>1
<1>4. CASE c \in S /\ c \notin T
  <2>1. T = S \ {c} /\ m = Released(n)
    BY <1>4 DEF SlotStep
  <2>2. Cardinality(T) = Cardinality(S) - 1
    BY <2>1, <1>4, FS_RemoveElement
  <2>3. Cardinality(S) # 0
    BY <1>4, FS_EmptySet
  <2>4. QED
    BY <2>1, <2>2, <2>3, <1>1 DEF Released
<1>5. QED
  BY <1>2, <1>3, <1>4

\* Every step keeps the two semaphores equal to the number of callers inside.
LEMMA SlotsStep ==
  ASSUME TypeOK, SlotsAccounted, [Next]_vars
  PROVE  SlotsAccounted'
<1> DEFINE In == {d \in Callers : pc[d] \in LoggingIn}
           Out == {d \in Callers : pc[d] = "send"}
<1>0. IsFiniteSet(In) /\ IsFiniteSet(Out) /\ MaxLogin \in Nat /\ MaxShort \in Nat
  BY PoolAssumption, FS_Subset
<1>1. ASSUME NEW c \in Callers, CallerStep(c) PROVE SlotsAccounted'
  <2>1. Alone(c) /\ SlotEffect(c)
    BY <1>1, StepEffects DEF Effects
  <2>2. /\ In' \ {c} = In \ {c}
        /\ Out' \ {c} = Out \ {c}
        /\ c \in In <=> pc[c] \in LoggingIn
        /\ c \in In' <=> pc'[c] \in LoggingIn
        /\ c \in Out <=> pc[c] = "send"
        /\ c \in Out' <=> pc'[c] = "send"
    BY <2>1 DEF Alone
  <2> HIDE DEF In, Out
  <2>3. SlotStep(loginSem, MaxLogin, loginSem', c \in In, c \in In')
    BY <2>1, <2>2 DEF SlotEffect, SlotStep
  <2>4. SlotStep(shortSem, MaxShort, shortSem', c \in Out, c \in Out')
    BY <2>1, <2>2 DEF SlotEffect, SlotStep
  <2>5. loginSem = Cardinality(In) /\ shortSem = Cardinality(Out)
        /\ loginSem <= MaxLogin /\ shortSem <= MaxShort
    BY DEF SlotsAccounted, In, Out
  <2>6. loginSem' = Cardinality(In') /\ loginSem' <= MaxLogin
    BY <1>0, <2>2, <2>3, <2>5, SlotCounts
  <2>7. shortSem' = Cardinality(Out') /\ shortSem' <= MaxShort
    BY <1>0, <2>2, <2>4, <2>5, SlotCounts
  <2>8. QED
    BY <2>6, <2>7 DEF SlotsAccounted, In, Out
<1>2. CASE Environment
  BY <1>2, EnvironmentEffect DEF SlotsAccounted
<1>3. CASE UNCHANGED vars
  BY <1>3 DEF vars, SlotsAccounted
<1>4. QED
  BY <1>1, <1>2, <1>3, NextCases

\* The inductive invariant holds before the first request.
LEMMA IInvInit == Init => IInv
<1> SUFFICES ASSUME Init PROVE IInv
  OBVIOUS
<1>1. TypeOK /\ RoundInv
  BY TypeInit DEF Init, RoundInv
<1>2. LockInv /\ BuildInv /\ NoOrphanSession
  BY KeyTyped, <1>1 DEF Init, LockInv, BuildInv, NoOrphanSession, Locked, Building
<1>3. SlotsAccounted
  <2>1. {c \in Callers : pc[c] \in LoggingIn} = {} /\ {c \in Callers : pc[c] = "send"} = {}
    BY DEF Init, LoggingIn
  <2>2. /\ Cardinality({c \in Callers : pc[c] \in LoggingIn}) = 0
        /\ Cardinality({c \in Callers : pc[c] = "send"}) = 0
    BY <2>1, FS_EmptySet
  <2>3. loginSem = 0 /\ shortSem = 0 /\ 0 <= MaxLogin /\ 0 <= MaxShort
    BY PoolAssumption DEF Init
  <2>4. QED
    BY <2>2, <2>3 DEF SlotsAccounted
<1>4. QED
  BY <1>1, <1>2, <1>3 DEF IInv

\* The inductive invariant holds in every reachable state.
THEOREM Invariance == Spec => []IInv
<1>1. IInv /\ [Next]_vars => IInv'
  BY TypeStep, LockStep, RowStep, SlotsStep DEF IInv
<1>2. QED
  BY IInvInit, <1>1, PTL DEF Spec
----------------------------------------------------------------------------
\* Two requests never log the same account in over the same proxy at once.
THEOREM OneLogin == Spec => []OneLoginPerKey
<1>1. IInv => OneLoginPerKey
  BY LockedApart DEF IInv, OneLoginPerKey, LoggingIn, Locked
<1>2. QED
  BY Invariance, <1>1, PTL

\* No token of the two semaphores is leaked or taken twice, and the configured
\* concurrency is kept.
THEOREM Slots == Spec => []SlotsAccounted
<1>1. IInv => SlotsAccounted
  BY DEF IInv
<1>2. QED
  BY Invariance, <1>1, PTL

\* A session row never outlives its account.
THEOREM NoOrphans == Spec => []NoOrphanSession
<1>1. IInv => NoOrphanSession
  BY DEF IInv
<1>2. QED
  BY Invariance, <1>1, PTL

\* PutSession never replaces a session that is still good.
THEOREM NoOverwrite == Spec => NoLiveSessionOverwritten
<1>1. IInv /\ [Next]_vars =>
        [\A k \in Keys : session[k] # 0 => session'[k] \in {0, session[k]}]_vars
  BY RowStep DEF IInv
<1>2. QED
  BY Invariance, <1>1, PTL DEF Spec, NoLiveSessionOverwritten
----------------------------------------------------------------------------
(* Which session a caller holds.                                            *)

\* A number stands for a login that was made for key k.
MadeFor(s, k) == s \in 1 .. Len(minted) /\ minted[s] = k

\* Rows and hands hold sessions of their own key only.
MintInv ==
    /\ \A k \in Keys : session[k] # 0 => MadeFor(session[k], k)
    /\ \A c \in Callers : held[c] # 0 => MadeFor(held[c], Key(c))
    /\ \A c \in Callers : emptied[c] \in 0 .. Len(minted)

\* When a caller has a session in hand, and when it remembers one that answered empty.
HandInv ==
    \A c \in Callers :
        /\ pc[c] = "idle" => held[c] = 0
        /\ pc[c] \in {"store", "wantShort", "send"} => held[c] # 0
        /\ pc[c] = "dropEmpty" => emptied[c] # 0

\* A session that is not stored yet is in one hand only.
FreshInv ==
    \A c \in Callers : pc[c] = "store" =>
        /\ \A k \in Keys : session[k] # held[c]
        /\ \A d \in Callers : emptied[d] # held[c]
        /\ \A d \in Callers \ {c} : held[d] # held[c]

\* The session that answered empty does not come back to the key of the second run.
RebuildInv ==
    \A c \in Callers : pc[c] # "idle" /\ round[c] = 2 /\ emptied[c] # 0 =>
        /\ session[<<acct[c], proxy[c]>>] # emptied[c]
        /\ via[c] = proxy[c] /\ held[c] # 0 => held[c] # emptied[c]

HInv == MintInv /\ HandInv /\ FreshInv /\ RebuildInv

\* The ways a step changes what caller c has in hand.
Same(c) == acct'[c] = acct[c] /\ proxy'[c] = proxy[c] /\ round'[c] = round[c]

Returns(c) ==
    /\ pc'[c] = "idle" /\ held'[c] = 0 /\ emptied'[c] = 0 /\ Same(c)
    /\ UNCHANGED <<session, minted>>

Begins(c) ==
    /\ pc[c] = "idle" /\ pc'[c] = "lookup"
    /\ round'[c] = 1 /\ held'[c] = held[c] /\ emptied'[c] = emptied[c]
    /\ UNCHANGED <<session, minted>>

Proceeds(c) ==
    /\ pc[c] # "idle"
    /\ \/ pc'[c] \in {"wantLock", "recheck", "getAccount", "wantLogin", "login", "dropProxied"}
       \/ pc[c] = "wantShort" /\ pc'[c] = "send"
    /\ held'[c] = held[c] /\ emptied'[c] = emptied[c] /\ via'[c] = via[c] /\ Same(c)
    /\ UNCHANGED <<session, minted>>

TakesUp(c) ==
    /\ pc[c] # "idle" /\ pc'[c] = "wantShort"
    /\ session[Key(c)] # 0 /\ held'[c] = session[Key(c)]
    /\ emptied'[c] = emptied[c] /\ via'[c] = via[c] /\ Same(c)
    /\ UNCHANGED <<session, minted>>

LogsIn(c) ==
    /\ pc[c] = "login" /\ pc'[c] = "store"
    /\ minted' = Append(minted, Key(c)) /\ held'[c] = Len(minted) + 1
    /\ emptied'[c] = emptied[c] /\ via'[c] = via[c] /\ Same(c)
    /\ session' = session

Stores(c) ==
    /\ pc[c] = "store" /\ pc'[c] = "wantShort"
    /\ session' = [session EXCEPT ![Key(c)] = held[c]]
    /\ held'[c] = held[c] /\ emptied'[c] = emptied[c] /\ via'[c] = via[c] /\ Same(c)
    /\ minted' = minted

FallsBack(c) ==
    /\ pc[c] # "idle" /\ pc'[c] = "lookup"
    /\ held'[c] = 0 /\ emptied'[c] = emptied[c] /\ Same(c)
    /\ \/ session' = session
       \/ pc[c] = "dropProxied" /\ \E k \in Keys : session' = [session EXCEPT ![k] = 0]
    /\ minted' = minted

MeetsEmpty(c) ==
    /\ pc[c] = "send" /\ pc'[c] = "dropEmpty"
    /\ round[c] = 1 /\ emptied'[c] = held[c]
    /\ held'[c] = held[c] /\ via'[c] = via[c] /\ Same(c)
    /\ UNCHANGED <<session, minted>>

RunsAgain(c) ==
    /\ pc[c] = "dropEmpty" /\ pc'[c] = "lookup"
    /\ \/ session' = [session EXCEPT ![<<acct[c], proxy[c]>>] = 0] /\ emptied'[c] = emptied[c]
       \/ session' = session /\ emptied'[c] = 0
    /\ held'[c] = 0
    /\ acct'[c] = acct[c] /\ proxy'[c] = proxy[c] /\ via'[c] = proxy[c]
    /\ minted' = minted

\* Nobody else's hands are touched.
OthersKeep(c) ==
    \A d \in Callers \ {c} :
        /\ pc'[d] = pc[d] /\ via'[d] = via[d] /\ held'[d] = held[d] /\ emptied'[d] = emptied[d]
        /\ Same(d)

HandEffect(c) ==
    /\ OthersKeep(c)
    /\ \/ Returns(c) \/ Begins(c) \/ Proceeds(c) \/ TakesUp(c) \/ LogsIn(c) \/ Stores(c)
       \/ FallsBack(c) \/ MeetsEmpty(c) \/ RunsAgain(c)

\* A call that returns lets go of what it has in hand.
LEMMA ReturnHand ==
  ASSUME TypeOK, NEW c \in Callers, NEW o, Return(c, o), UNCHANGED <<session, minted>>,
         request' = request
  PROVE  HandEffect(c)
  BY DEF TypeOK, Return, Goto, request, HandEffect, OthersKeep, Same, Returns

\* So does one that falls back, with or without dropping a row.
LEMMA FallBackHand ==
  ASSUME TypeOK, NEW c \in Callers, FallBack(c), pc[c] # "idle",
         \/ session' = session
         \/ pc[c] = "dropProxied" /\ \E k \in Keys : session' = [session EXCEPT ![k] = 0],
         minted' = minted, request' = request
  PROVE  HandEffect(c)
  BY DEF TypeOK, FallBack, Goto, request, HandEffect, OthersKeep, Same, FallsBack

\* A look-up that finds a row puts it into the hand.
LEMMA TakeUpHand ==
  ASSUME TypeOK, NEW c \in Callers, UseSession(c, session[Key(c)]), pc[c] # "idle",
         session[Key(c)] # 0, UNCHANGED <<session, minted>>, request' = request
  PROVE  HandEffect(c)
  BY DEF TypeOK, UseSession, Goto, request, HandEffect, OthersKeep, Same, TakesUp

\* Steps after which the hand is as before.
LEMMA ProceedHand ==
  ASSUME TypeOK, NEW c \in Callers, NEW l, Goto(c, l), pc[c] # "idle",
         \/ l \in {"wantLock", "recheck", "getAccount", "wantLogin", "login", "dropProxied"}
         \/ pc[c] = "wantShort" /\ l = "send",
         UNCHANGED <<via, round, held, emptied, session, minted>>, request' = request
  PROVE  HandEffect(c)
<1>1. OthersKeep(c)
  BY DEF TypeOK, Goto, request, OthersKeep, Same
<1>2. Proceeds(c)
  BY DEF TypeOK, Goto, request, Same, Proceeds
<1>3. QED
  BY <1>1, <1>2 DEF HandEffect

\* An error of state or of the operation returns, falls back or goes on to drop a row.
LEMMA FailureHand ==
  ASSUME TypeOK, NEW c \in Callers, StateFailed(c) \/ OpFailed(c), pc[c] # "idle",
         UNCHANGED <<session, minted>>, request' = request
  PROVE  HandEffect(c)
<1>1. CASE Return(c, "error")
  BY <1>1, ReturnHand
<1>2. CASE FallBack(c)
  BY <1>2, FallBackHand
<1>3. CASE Goto(c, "dropProxied") /\ UNCHANGED <<via, round, held, emptied, outcome>>
  BY <1>3, ProceedHand
<1>4. QED
  BY <1>1, <1>2, <1>3 DEF StateFailed, OpFailed

\* Every step of a caller is one of these.
LEMMA HandEffects ==
  ASSUME TypeOK, NEW c \in Callers, CallerStep(c)
  PROVE  HandEffect(c)
<1>1. ASSUME NEW a \in Accounts, NEW p \in Proxies, NEW code \in BOOLEAN, Begin(c, a, p, code)
      PROVE  HandEffect(c)
  BY <1>1 DEF Begin, Goto, TypeOK, OthersKeep, Same, HandEffect, Begins, store
<1>2. CASE Lookup(c)
  <2>1. CASE session[Key(c)] # 0 /\ UseSession(c, session[Key(c)])
    BY <1>2, <2>1, TakeUpHand DEF Lookup, store
  <2>2. CASE Goto(c, "wantLock") /\ UNCHANGED <<via, round, held, emptied, outcome>>
    BY <1>2, <2>2, ProceedHand DEF Lookup, store
  <2>3. CASE StateFailed(c)
    BY <1>2, <2>3, FailureHand DEF Lookup, store
  <2>4. QED
    BY <1>2, <2>1, <2>2, <2>3 DEF Lookup
<1>3. CASE TakeLock(c)
  BY <1>3, ProceedHand DEF TakeLock, store
<1>4. CASE Recheck(c)
  <2>1. CASE session[Key(c)] # 0 /\ UseSession(c, session[Key(c)])
    BY <1>4, <2>1, TakeUpHand DEF Recheck, store
  <2>2. CASE Goto(c, "getAccount") /\ UNCHANGED <<lock, via, round, held, emptied, outcome>>
    BY <1>4, <2>2, ProceedHand DEF Recheck, store
  <2>3. CASE StateFailed(c)
    BY <1>4, <2>3, FailureHand DEF Recheck, store
  <2>4. QED
    BY <1>4, <2>1, <2>2, <2>3 DEF Recheck
<1>5. CASE GetAccount(c)
  <2>1. CASE Goto(c, "wantLogin") /\ UNCHANGED <<lock, via, round, held, emptied, outcome>>
    BY <1>5, <2>1, ProceedHand DEF GetAccount, store
  <2>2. CASE StateFailed(c)
    BY <1>5, <2>2, FailureHand DEF GetAccount, store
  <2>3. QED
    BY <1>5, <2>1, <2>2 DEF GetAccount
<1>6. CASE AcquireLogin(c)
  BY <1>6, ProceedHand DEF AcquireLogin, store
<1>7. CASE LoginSucceeds(c)
  BY <1>7 DEF LoginSucceeds, Goto, TypeOK, request, HandEffect, OthersKeep, Same, LogsIn
<1>8. CASE LoginFails(c)
  BY <1>8, FailureHand DEF LoginFails, store
<1>9. CASE StoreSession(c)
  <2>1. CASE session' = [session EXCEPT ![Key(c)] = held[c]] /\ UseSession(c, held[c])
    BY <1>9, <2>1
       DEF StoreSession, UseSession, Goto, TypeOK, request, HandEffect, OthersKeep, Same, Stores
  <2>2. CASE StateFailed(c) /\ UNCHANGED session
    BY <1>9, <2>2, FailureHand DEF StoreSession
  <2>3. QED
    BY <1>9, <2>1, <2>2 DEF StoreSession
<1>10. CASE AcquireShort(c)
  BY <1>10, ProceedHand DEF AcquireShort, store
<1>11. CASE SendSucceeds(c)
  BY <1>11, ReturnHand DEF SendSucceeds, store
<1>12. CASE SendReturnsEmpty(c)
  <2>1. CASE Return(c, "empty")
    BY <1>12, <2>1, ReturnHand DEF SendReturnsEmpty, store
  <2>2. CASE ~Return(c, "empty")
    BY <1>12, <2>2 DEF SendReturnsEmpty, Goto, TypeOK, store, request, HandEffect, OthersKeep,
                       Same, MeetsEmpty
  <2>3. QED
    BY <2>1, <2>2
<1>13. CASE SendFails(c)
  BY <1>13, FailureHand DEF SendFails, store
<1>14. CASE DropProxied(c)
  BY <1>14, KeyTyped, FallBackHand DEF DropProxied, Invalidate
<1>15. CASE DropEmpty(c)
  BY <1>15 DEF DropEmpty, Invalidate, Goto, TypeOK, request, HandEffect, OthersKeep, Same, RunsAgain
<1>16. CASE ContextDone(c)
  BY <1>16, ReturnHand DEF ContextDone, store
<1>17. QED
  BY <1>1, <1>2, <1>3, <1>4, <1>5, <1>6, <1>7, <1>8, <1>9, <1>10, <1>11, <1>12, <1>13, <1>14, <1>15, <1>16 DEF CallerStep, Work, Wait

\* What the invariants need of the types.
LEMMA HandTyped ==
  ASSUME TypeOK
  PROVE  /\ \A d \in Callers : /\ Key(d) = <<acct[d], via[d]>> /\ Key(d) \in Keys
                               /\ <<acct[d], proxy[d]>> \in Keys
                               /\ held[d] \in Nat /\ emptied[d] \in Nat
         /\ \A k \in Keys : session[k] \in Nat
         /\ session \in [Keys -> Nat]
         /\ Len(minted) \in Nat
  BY KeyTyped, LenProperties DEF TypeOK, Key

\* A login keeps what it was made for.
LEMMA MintedKept ==
  ASSUME TypeOK, NEW c \in Callers, HandEffect(c)
  PROVE  /\ \A s, k : MadeFor(s, k) => MadeFor(s, k)'
         /\ Len(minted)' \in Nat /\ Len(minted) <= Len(minted)'
         /\ LogsIn(c) => MadeFor(held[c], Key(c))'
<1>1. CASE minted' = minted /\ ~LogsIn(c)
  BY <1>1, HandTyped DEF MadeFor
<1>2. CASE LogsIn(c)
  <2>1. minted \in Seq(Keys) /\ Key(c) \in Keys /\ Key(c)' = Key(c)
    BY <1>2, KeyTyped DEF TypeOK, LogsIn, Same, Key
  <2>2. /\ Len(minted') = Len(minted) + 1
        /\ \A i \in 1 .. Len(minted) : minted'[i] = minted[i]
        /\ minted'[Len(minted) + 1] = Key(c)
    BY <1>2, <2>1, AppendProperties DEF LogsIn
  <2>3. QED
    BY <1>2, <2>1, <2>2, HandTyped DEF MadeFor, LogsIn
<1>3. QED
  BY <1>1, <1>2 DEF HandEffect, Returns, Begins, Proceeds, TakesUp, Stores, FallsBack,
     MeetsEmpty, RunsAgain

\* A row is kept, dropped, or set to what a caller stores.
LEMMA RowsKept ==
  ASSUME TypeOK, NEW c \in Callers, HandEffect(c)
  PROVE  \A k \in Keys :
            \/ session'[k] \in {0, session[k]}
            \/ Stores(c) /\ k = Key(c) /\ session'[k] = held[c]
  BY HandTyped DEF HandEffect, Returns, Begins, Proceeds, TakesUp, LogsIn, Stores, FallsBack,
     MeetsEmpty, RunsAgain

\* A hand is emptied, keeps its session, takes a row up, or logs in.
LEMMA HandsKept ==
  ASSUME HandInv, NEW c \in Callers, HandEffect(c)
  PROVE  /\ \/ held'[c] = 0
            \/ held'[c] = held[c] /\ Key(c)' = Key(c)
            \/ TakesUp(c) /\ Key(c)' = Key(c)
            \/ LogsIn(c)
         /\ emptied'[c] \in {0, emptied[c], held[c]}
         /\ \A d \in Callers \ {c} : Key(d)' = Key(d)
<1>1. emptied'[c] \in {0, emptied[c], held[c]} /\ \A d \in Callers \ {c} : Key(d)' = Key(d)
  BY DEF HandEffect, OthersKeep, Same, Key, Returns, Begins, Proceeds, TakesUp, LogsIn, Stores,
     FallsBack, MeetsEmpty, RunsAgain
<1>2. \/ held'[c] = 0
      \/ held'[c] = held[c] /\ Key(c)' = Key(c)
      \/ TakesUp(c) /\ Key(c)' = Key(c)
      \/ LogsIn(c)
  BY DEF HandInv, HandEffect, Same, Key, Returns, Begins, Proceeds, TakesUp, LogsIn, Stores,
     FallsBack, MeetsEmpty, RunsAgain
<1>3. QED
  BY <1>1, <1>2

\* Rows and hands keep to their keys.
LEMMA MintStep ==
  ASSUME TypeOK, MintInv, HandInv, NEW c \in Callers, HandEffect(c)
  PROVE  MintInv'
<1>1. \A k \in Keys : session'[k] # 0 => MadeFor(session[k], k)'
  BY RowsKept, MintedKept, HandTyped DEF MintInv, Stores
<1>2. \A d \in Callers : held'[d] # 0 => MadeFor(held[d], Key(d))'
  <2>1. ASSUME NEW d \in Callers \ {c}, held'[d] # 0 PROVE MadeFor(held[d], Key(d))'
    BY <2>1, HandsKept, MintedKept DEF MintInv, HandEffect, OthersKeep
  <2>2. ASSUME held'[c] # 0 PROVE MadeFor(held[c], Key(c))'
    BY <2>2, HandsKept, MintedKept, HandTyped DEF MintInv, TakesUp
  <2>3. QED
    BY <2>1, <2>2
<1>3. \A d \in Callers : emptied'[d] \in 0 .. Len(minted)'
  <2>1. held[c] \in 0 .. Len(minted)
    BY HandTyped DEF MintInv, MadeFor
  <2>2. QED
    BY <2>1, HandsKept, MintedKept, HandTyped DEF MintInv, HandEffect, OthersKeep
<1>4. QED
  BY <1>1, <1>2, <1>3 DEF MintInv

\* What is in hand follows the stage of the call.
LEMMA HandInvStep ==
  ASSUME HandInv, NEW c \in Callers, HandEffect(c)
  PROVE  HandInv'
<1> DEFINE OK(d) == /\ pc[d] = "idle" => held[d] = 0
                    /\ pc[d] \in {"store", "wantShort", "send"} => held[d] # 0
                    /\ pc[d] = "dropEmpty" => emptied[d] # 0
<1>1. \A d \in Callers \ {c} : OK(d)'
  BY DEF HandInv, HandEffect, OthersKeep, Same
<1>2. OK(c)'
  BY DEF HandInv, HandEffect, Same, Returns, Begins, Proceeds, TakesUp, LogsIn, Stores,
     FallsBack, MeetsEmpty, RunsAgain
<1>3. QED
  BY <1>1, <1>2 DEF HandInv

\* A session that has not been stored stays in the hand of the caller that logged in.
LEMMA FreshStep ==
  ASSUME TypeOK, MintInv, HandInv, FreshInv, NEW c \in Callers, HandEffect(c)
  PROVE  FreshInv'
<1>1. ASSUME NEW d \in Callers \ {c}, pc'[d] = "store"
      PROVE  /\ \A k \in Keys : session'[k] # held'[d]
             /\ \A e \in Callers : emptied'[e] # held'[d]
             /\ \A e \in Callers \ {d} : held'[e] # held'[d]
  <2>1. pc[d] = "store" /\ held'[d] = held[d] /\ held[d] # 0 /\ held[d] \in 1 .. Len(minted)
    BY <1>1 DEF HandEffect, OthersKeep, HandInv, MintInv, MadeFor
  <2>2. \A k \in Keys : session[k] # held[d]
    BY <2>1 DEF FreshInv
  <2>3. held[c] # held[d] /\ \A e \in Callers : emptied[e] # held[d]
    BY <2>1 DEF FreshInv
  <2>4. \A k \in Keys : session'[k] # held'[d]
    BY <2>1, <2>2, <2>3, RowsKept
  <2>5. \A e \in Callers : emptied'[e] # held'[d]
    BY <2>1, <2>3, HandsKept DEF HandEffect, OthersKeep
  <2>6. held'[c] # held'[d]
    <3>1. Key(c) \in Keys /\ Len(minted) \in Nat
      BY HandTyped
    <3>2. held'[c] \in {0, held[c], session[Key(c)], Len(minted) + 1}
      BY HandsKept DEF TakesUp, LogsIn
    <3>3. QED
      BY <2>1, <2>2, <2>3, <3>1, <3>2
  <2>7. \A e \in Callers \ {d} : held'[e] # held'[d]
    BY <2>1, <2>6 DEF FreshInv, HandEffect, OthersKeep
  <2>8. QED
    BY <2>4, <2>5, <2>7
<1>2. ASSUME pc'[c] = "store"
      PROVE  /\ \A k \in Keys : session'[k] # held'[c]
             /\ \A e \in Callers : emptied'[e] # held'[c]
             /\ \A e \in Callers \ {c} : held'[e] # held'[c]
  <2>1. LogsIn(c)
    BY <1>2 DEF HandEffect, Returns, Begins, Proceeds, TakesUp, LogsIn, Stores, FallsBack,
                MeetsEmpty, RunsAgain
  <2>2. /\ \A k \in Keys : session[k] \in 0 .. Len(minted)
        /\ \A e \in Callers : held[e] \in 0 .. Len(minted) /\ emptied[e] \in 0 .. Len(minted)
    BY HandTyped DEF MintInv, MadeFor
  <2>3. QED
    BY <2>1, <2>2, HandTyped DEF LogsIn, HandEffect, OthersKeep
<1>3. QED
  BY <1>1, <1>2 DEF FreshInv

\* The second run does not meet the session that answered empty.
LEMMA RebuildStep ==
  ASSUME TypeOK, HInv, NEW c \in Callers, HandEffect(c)
  PROVE  RebuildInv'
<1>1. ASSUME NEW d \in Callers \ {c}, pc'[d] # "idle", round'[d] = 2, emptied'[d] # 0
      PROVE  /\ session'[<<acct'[d], proxy'[d]>>] # emptied'[d]
             /\ via'[d] = proxy'[d] /\ held'[d] # 0 => held'[d] # emptied'[d]
  <2>1. /\ pc[d] # "idle" /\ round[d] = 2
        /\ acct'[d] = acct[d] /\ proxy'[d] = proxy[d] /\ via'[d] = via[d]
        /\ held'[d] = held[d] /\ emptied'[d] = emptied[d]
    BY <1>1 DEF HandEffect, OthersKeep, Same
  <2>2. emptied[d] # 0 /\ <<acct[d], proxy[d]>> \in Keys
    BY <1>1, <2>1, HandTyped
  <2>3. Stores(c) => held[c] # emptied[d]
    BY DEF Stores, HInv, FreshInv
  <2>4. QED
    BY <2>1, <2>2, <2>3, RowsKept DEF HInv, RebuildInv
<1>2. ASSUME pc'[c] # "idle", round'[c] = 2, emptied'[c] # 0
      PROVE  /\ session'[<<acct'[c], proxy'[c]>>] # emptied'[c]
             /\ via'[c] = proxy'[c] /\ held'[c] # 0 => held'[c] # emptied'[c]
  <2>1. CASE RunsAgain(c)
    BY <1>2, <2>1, HandTyped DEF RunsAgain
  <2>2. CASE ~RunsAgain(c)
    <3>1. /\ pc[c] # "idle" /\ round[c] = 2 /\ Same(c) /\ emptied'[c] = emptied[c]
          /\ Proceeds(c) \/ TakesUp(c) \/ LogsIn(c) \/ Stores(c) \/ FallsBack(c)
      BY <1>2, <2>2 DEF HandEffect, Same, Returns, Begins, Proceeds, TakesUp, LogsIn, Stores,
                        FallsBack, MeetsEmpty
    <3>2. /\ session[<<acct[c], proxy[c]>>] # emptied[c]
          /\ via[c] = proxy[c] /\ held[c] # 0 => held[c] # emptied[c]
          /\ emptied[c] # 0 /\ emptied[c] \in 0 .. Len(minted)
      BY <1>2, <3>1 DEF HInv, RebuildInv, MintInv
    <3>3. Stores(c) => held[c] # emptied[c]
      BY DEF Stores, HInv, FreshInv
    <3>4. session'[<<acct'[c], proxy'[c]>>] # emptied'[c]
      BY <3>1, <3>2, <3>3, RowsKept, HandTyped DEF Same
    <3>5. ASSUME via'[c] = proxy'[c], held'[c] # 0 PROVE held'[c] # emptied'[c]
      <4>1. CASE Proceeds(c)
        BY <3>1, <3>2, <3>5, <4>1 DEF Same, Proceeds
      <4>2. CASE TakesUp(c)
        BY <3>1, <3>2, <3>5, <4>2, HandTyped DEF Same, TakesUp
      <4>3. CASE LogsIn(c)
        BY <3>1, <3>2, <3>5, <4>3, HandTyped DEF Same, LogsIn
      <4>4. CASE Stores(c)
        BY <3>1, <3>3, <4>4 DEF Stores
      <4>5. CASE FallsBack(c)
        BY <3>5, <4>5 DEF FallsBack
      <4>6. QED
        BY <3>1, <4>1, <4>2, <4>3, <4>4, <4>5
    <3>6. QED
      BY <3>4, <3>5
  <2>3. QED
    BY <2>1, <2>2
<1>3. QED
  BY <1>1, <1>2 DEF RebuildInv

\* Rows, hands and runs stay as they should be through every step.
LEMMA HInvariance == Spec => []HInv
<1>1. Init => HInv
  BY KeyTyped, TypeInit
     DEF Init, HInv, MintInv, HandInv, FreshInv, RebuildInv, MadeFor
<1>2. ASSUME TypeOK, HInv, [Next]_vars PROVE HInv'
  <2>1. ASSUME NEW c \in Callers, CallerStep(c) PROVE HInv'
    BY <1>2, <2>1, HandEffects, MintStep, HandInvStep, FreshStep, RebuildStep DEF HInv
  <2>2. CASE Environment
    <3>1. /\ UNCHANGED <<minted, pc, acct, proxy, via, round, held, emptied>>
          /\ \A k \in Keys : session'[k] \in {0, session[k]}
      BY <1>2, <2>2 DEF Environment, Expire, DeleteAccount, Invalidate, request, TypeOK
    <3>2. MintInv' /\ HandInv'
      BY <1>2, <3>1 DEF HInv, MintInv, HandInv, MadeFor, Key
    <3>3. FreshInv' /\ RebuildInv'
      BY <1>2, <3>1, HandTyped DEF HInv, FreshInv, RebuildInv, HandInv
    <3>4. QED
      BY <3>2, <3>3 DEF HInv
  <2>3. CASE UNCHANGED vars
    BY <1>2, <2>3
    DEF vars, store, request, HInv, MintInv, HandInv, FreshInv, RebuildInv, MadeFor, Key
  <2>4. QED
    BY <1>2, <2>1, <2>2, <2>3, NextCases
<1>3. QED
  BY <1>1, <1>2, TypeInvariance, PTL DEF Spec

\* Whatever falls back and is tried again, a request sends with a session logged in
\* for its account over its proxy, and not with the one that has just failed it.
THEOREM RightSession == Spec => []SendsRightSession
<1>1. HInv => SendsRightSession
  BY DEF HInv, MintInv, HandInv, RebuildInv, MadeFor, SendsRightSession, SessionMatchesKey,
         RetryRebuildsSession
<1>2. QED
  BY HInvariance, <1>1, PTL
----------------------------------------------------------------------------
(* The pool implements LoginFlight, step by step.                           *)

InFlight == {d \in Callers : pc[d] \in LoggingIn}
KeysInFlight == {Key(c) : c \in InFlight}
LiveKeys == {k \in Keys : session[k] # 0}

\* There are no more keys in flight than tokens in loginSem.
LEMMA FlightBounded ==
  ASSUME SlotsAccounted
  PROVE  Cardinality(KeysInFlight) <= loginSem /\ Cardinality(KeysInFlight) \in Nat
<1> DEFINE f == [c \in InFlight |-> Key(c)]
<1>1. IsFiniteSet(InFlight)
  BY PoolAssumption, FS_Subset DEF InFlight
<1>2. f \in Surjection(InFlight, KeysInFlight)
  BY DEF Surjection, KeysInFlight
<1>3. IsFiniteSet(KeysInFlight) /\ Cardinality(KeysInFlight) <= Cardinality(InFlight)
  BY <1>1, <1>2, FS_Surjection
<1>4. QED
  BY <1>3, FS_CardinalityType DEF SlotsAccounted, InFlight

\* A caller that comes to a login slot departs: its key has neither a session nor a
\* login under way, and a slot is free.
LEMMA DepartStep ==
  ASSUME IInv, NEW c \in Callers, CallerStep(c), pc[c] \notin LoggingIn, pc'[c] \in LoggingIn
  PROVE  /\ Key(c) \in Keys \ (LiveKeys \cup KeysInFlight)
         /\ Cardinality(KeysInFlight) < MaxLogin
         /\ KeysInFlight' = KeysInFlight \cup {Key(c)}
         /\ LiveKeys' = LiveKeys
<1>1. Effects(c) /\ Key(c) \in Keys
  BY StepEffects, KeyTyped DEF IInv
<1>2. session' = session /\ Key(c)' = Key(c) /\ session[Key(c)] = 0
  BY <1>1 DEF Effects, RowEffect, Building, LoggingIn, IInv, BuildInv
<1>3. loginSem < MaxLogin /\ loginSem \in Nat
  BY <1>1, PoolAssumption DEF Effects, SlotEffect, SlotStep, IInv, TypeOK
<1>4. Cardinality(KeysInFlight) < MaxLogin
  BY <1>3, FlightBounded, PoolAssumption DEF IInv
<1>5. Key(c) \notin KeysInFlight
  <2> SUFFICES ASSUME NEW d \in InFlight, Key(d) = Key(c) PROVE FALSE
    BY DEF KeysInFlight
  <2>1. d \in Callers /\ d # c /\ lock[Key(c)] = d
    BY DEF InFlight, IInv, LockInv, LoggingIn, Locked
  <2>2. pc[c] \in Locked \/ lock[Key(c)] = NoCaller
    BY <1>1 DEF Effects, LockEffect, LoggingIn, Locked
  <2>3. QED
    BY <2>1, <2>2, PoolAssumption DEF IInv, LockInv
<1>6. InFlight' = InFlight \cup {c}
  BY <1>1 DEF Effects, Alone, InFlight
<1>7. KeysInFlight' = KeysInFlight \cup {Key(c)}
  <2>1. \A d \in InFlight' : Key(d)' = Key(d)
    BY <1>1, <1>2, <1>6 DEF Effects, Alone, InFlight
  <2>2. QED
    BY <2>1, <1>6 DEF KeysInFlight
<1>8. QED
  BY <1>1, <1>2, <1>4, <1>5, <1>7 DEF LiveKeys

\* A caller that leaves its slot lands with a session or loses the flight.
LEMMA ArriveStep ==
  ASSUME IInv, HInv, NEW c \in Callers, CallerStep(c), pc[c] \in LoggingIn, pc'[c] \notin LoggingIn
  PROVE  /\ Key(c) \in Keys \cap KeysInFlight
         /\ KeysInFlight' = KeysInFlight \ {Key(c)}
         /\ LiveKeys' = LiveKeys \/ LiveKeys' = LiveKeys \cup {Key(c)}
<1>1. Effects(c) /\ HandEffect(c) /\ Key(c) \in Keys
  BY StepEffects, HandEffects, KeyTyped DEF IInv
<1>2. InFlight' = InFlight \ {c} /\ c \in InFlight
  BY <1>1 DEF Effects, Alone, InFlight
<1>3. \A d \in InFlight \ {c} : Key(d)' = Key(d) /\ Key(d) # Key(c)
  BY <1>1, LockedApart DEF Effects, Alone, InFlight, IInv, LoggingIn, Locked
<1>4. KeysInFlight' = KeysInFlight \ {Key(c)} /\ Key(c) \in KeysInFlight
  BY <1>2, <1>3 DEF KeysInFlight
<1>5. session' = session \/ Stores(c)
  BY <1>1 DEF HandEffect, Returns, Begins, Proceeds, TakesUp, LogsIn, FallsBack, MeetsEmpty,
              RunsAgain, LoggingIn
<1>6. CASE session' = session
  BY <1>1, <1>4, <1>6 DEF LiveKeys
<1>7. CASE Stores(c)
  <2>1. held[c] # 0 /\ session' = [session EXCEPT ![Key(c)] = held[c]]
    BY <1>7 DEF Stores, HInv, HandInv
  <2>2. LiveKeys' = LiveKeys \cup {Key(c)}
    BY <1>1, <2>1, HandTyped DEF LiveKeys, IInv
  <2>3. QED
    BY <1>1, <1>4, <2>2
<1>8. QED
  BY <1>5, <1>6, <1>7

\* Every other step of a caller leaves the flights alone and stores nothing.
LEMMA OtherFlightStep ==
  ASSUME IInv, HInv, NEW c \in Callers, CallerStep(c), pc[c] \in LoggingIn <=> pc'[c] \in LoggingIn
  PROVE  KeysInFlight' = KeysInFlight /\ LiveKeys' \in SUBSET LiveKeys
<1>1. Effects(c) /\ HandEffect(c) /\ Key(c) \in Keys
  BY StepEffects, HandEffects, KeyTyped DEF IInv
<1>2. InFlight' = InFlight
  BY <1>1 DEF Effects, Alone, InFlight
<1>3. pc[c] \in LoggingIn => Key(c)' = Key(c)
  BY <1>1 DEF Effects, LockEffect, LoggingIn, Locked
<1>4. KeysInFlight' = KeysInFlight
  BY <1>1, <1>2, <1>3 DEF KeysInFlight, InFlight, Effects, Alone
<1>5. ~Stores(c)
  BY DEF Stores, LoggingIn
<1>6. \A k \in Keys : session'[k] \in {0, session[k]}
  BY <1>1, <1>5, RowsKept DEF IInv
<1>7. QED
  BY <1>4, <1>6 DEF LiveKeys

\* Whatever requests, expiry and deletion do, the pool behaves as the abstract single
\* flight of logins does (state and run of pool.go).
THEOREM Refinement == Spec => Flight!Spec
<1> USE DEF Flight!Next, Flight!vars, Flight!Depart, Flight!Land, Flight!Lose, Flight!Drop
<1>1. Init => Flight!Init
  BY KeyTyped DEF Init, Flight!Init, LoggingIn, Keys
<1>2. ASSUME IInv, HInv, [Next]_vars PROVE [Flight!Next]_(Flight!vars)
  <2>1. ASSUME NEW c \in Callers, CallerStep(c) PROVE [Flight!Next]_(Flight!vars)
    <3>1. CASE pc[c] \notin LoggingIn /\ pc'[c] \in LoggingIn
      <4>1. Flight!Depart(Key(c)) /\ Key(c) \in Keys
        <5>1. /\ Key(c) \in Keys \ (LiveKeys \cup KeysInFlight)
              /\ Cardinality(KeysInFlight) < MaxLogin
              /\ KeysInFlight' = KeysInFlight \cup {Key(c)}
              /\ LiveKeys' = LiveKeys
          BY <1>2, <2>1, <3>1, DepartStep
        <5>2. Key(c) \in Keys /\ Key(c) \notin LiveKeys \cup KeysInFlight
          BY <5>1
        <5>3. Flight!Cardinality(KeysInFlight) < MaxLogin
          BY <5>1, Zenon DEF Cardinality, Flight!Cardinality
        <5>4. QED
          BY <5>1, <5>2, <5>3, Zenon DEF LiveKeys, KeysInFlight, InFlight
      <4>2. QED
        BY <4>1
    <3>2. CASE pc[c] \in LoggingIn /\ pc'[c] \notin LoggingIn
      <4>1. Key(c) \in Keys /\ (Flight!Land(Key(c)) \/ Flight!Lose(Key(c)))
        BY <1>2, <2>1, <3>2, ArriveStep DEF LiveKeys, KeysInFlight, InFlight
      <4>2. QED
        BY <4>1
    <3>3. CASE pc[c] \in LoggingIn <=> pc'[c] \in LoggingIn
      <4>1. Flight!Drop
        <5>1. KeysInFlight' = KeysInFlight /\ LiveKeys' \in SUBSET LiveKeys
          BY <1>2, <2>1, <3>3, OtherFlightStep
        <5>2. LiveKeys' = LiveKeys \ (LiveKeys \ LiveKeys') /\ LiveKeys \ LiveKeys' \in SUBSET LiveKeys
          BY <5>1
        <5>3. QED
          BY <5>1, <5>2 DEF LiveKeys, KeysInFlight, InFlight
      <4>2. QED
        BY <4>1
    <3>4. QED
      BY <3>1, <3>2, <3>3
  <2>2. CASE Environment
    <3>1. KeysInFlight' = KeysInFlight /\ LiveKeys' \in SUBSET LiveKeys
      BY <1>2, <2>2, EnvironmentEffect DEF IInv, KeysInFlight, InFlight, LiveKeys, Key
    <3>2. LiveKeys' = LiveKeys \ (LiveKeys \ LiveKeys') /\ LiveKeys \ LiveKeys' \in SUBSET LiveKeys
      BY <3>1
    <3>3. Flight!Drop
      BY <3>1, <3>2 DEF LiveKeys, KeysInFlight, InFlight
    <3>4. QED
      BY <3>3
  <2>3. CASE UNCHANGED vars
    BY <2>3 DEF vars, store, request, Key
  <2>4. QED
    BY <1>2, <2>1, <2>2, <2>3, NextCases
<1>3. QED
  BY <1>1, <1>2, Invariance, HInvariance, PTL DEF Spec, Flight!Spec
----------------------------------------------------------------------------
(* The link (MmtlsLogin): its inductive invariant                         *)

\* A sequence, whatever it is made of.
Line(s) == s \in Seq(ToSet(s))

ServerStages == {"accepting", "greeted", "open", "done", "short"}

\* The fields that the records have, whatever they hold.
ReqShaped ==
    /\ req \in [at : Stages, proxy : BOOLEAN, tries : 0 .. 2, left : {req.left},
                n : Nat, logins : Nat]
    /\ Line(req.left)
ClientShaped ==
    client \in [transcript : {client.transcript}, secret : {client.secret},
                hChSh : {client.hChSh}, hCertV : {client.hCertV}, hFinal : {client.hFinal},
                tickets : TicketTypes \cup {{}}, keys : {client.keys}, tx : 0 .. 3, rx : Nat]
ServerShaped ==
    server \in [at : ServerStages, secret : {server.secret}, hChSh : {server.hChSh},
                hFinal : {server.hFinal}, tx : Nat, rx : Nat]
WireShaped ==
    /\ wire \in [up : {wire.up}, down : {wire.down}, open : BOOLEAN]
    /\ Line(wire.up) /\ Line(wire.down)
RestShaped ==
    /\ issued = [i \in 1 .. MaxConns |-> [psk |-> issued[i].psk, keys |-> issued[i].keys]]
    /\ dnsCache \in Answers \cup {None}
    /\ cause \in BOOLEAN /\ executed \in Nat /\ unheard \in Nat
Shaped == ReqShaped /\ ClientShaped /\ ServerShaped /\ WireShaped /\ RestShaped

\* A connection of the login is up, or has just brought the session.
Attached == Connected \/ req.at = "resolvingShort"

\* Every connection has a target of its own, so there are enough numbers for them and no more
\* than MaxTargets are open.
Counted ==
    /\ req.logins <= MaxLogins
    /\ IsFiniteSet(conns) /\ conns \subseteq [n : 1 .. MaxConns, via : {"proxy", "direct"}]
    /\ req.at = "resolving" => req.logins >= 1 /\ req.n <= MaxTargets * (req.logins - 1)
    /\ req.at = "dialing" =>
          /\ req.n + Len(req.left) <= MaxTargets * req.logins
          /\ Cardinality(conns) + Len(req.left) <= MaxTargets
    /\ Attached =>
          /\ req.n >= 1 /\ req.left # <<>>
          /\ req.n + Len(req.left) <= MaxTargets * req.logins + 1
          /\ Cardinality(conns) + Len(req.left) <= MaxTargets + 1
    /\ req.n <= MaxTargets * req.logins
    /\ req.at \in {"idle", "resolving", "ready", "sending"} => conns = {}
    /\ req.at = "awaiting" => Cardinality(conns) = 1

\* Between the connections nothing is left of the last one.
Quiet ==
    /\ ~Attached => client = NewClient
    /\ req.at \in {"idle", "resolving", "dialing", "ready", "sending"} =>
          server = NewServer /\ wire = NewWire

\* What WeChat may have sent: plain there is only its hello, and with the key of the
\* application only the answer to the login.
FromServer(r) ==
    /\ r \in [key : {r.key}, seq : {r.seq}, msg : [type : {r.msg.type}, data : {r.msg.data}]]
    /\ \/ r.key = <<>> /\ r.msg.type = "ServerHello"
       \/ r.key = HandshakeKey("server", server.secret, server.hChSh)
       \/ /\ r.key = AppKey("server", server.secret, server.hFinal) /\ server.at = "done"
          /\ r.msg.type = "ManualAuthResponse" => r.msg.data[2] = SessionKeys
    /\ r.msg.type = "NewSessionTicket" => ToSet(r.msg.data) \in TicketTypes

\* What WeChat has issued belongs to the handshake it has made.
ServerHonest ==
    Attached =>
       /\ server.at # "short"
       /\ server.at = "accepting" => wire.down = <<>>
       /\ server.at # "accepting" =>
             issued[req.n].psk = AccessPSK(server.secret, Certified(server.hFinal))
       /\ server.at = "done" => issued[req.n].keys = SessionKeys
       /\ \A i \in DOMAIN wire.down : FromServer(wire.down[i])

\* The hash a client keeps of CertVerify is that of what it was fed.
ClientHonest ==
    /\ req.at = "opening" => client = NewClient
    /\ req.at = "flight" =>
          /\ client.tx = 1 /\ Line(client.transcript)
          /\ IF client.secret = <<>>
             THEN Len(client.transcript) = 1 /\ client.hCertV = <<>>
             ELSE /\ Len(client.transcript) >= 2
                  /\ client.hCertV \in {<<>>, Certified(client.transcript)}
    /\ req.at \in {"finishing", "authenticating", "answering"} =>
          client.hCertV \in {<<>>, Certified(client.hFinal)}
    /\ req.at = "finishing" => client.tx = 1
    /\ req.at = "authenticating" => client.tx = 2
    /\ req.at = "resolvingShort" =>
          /\ server.at = "done" /\ client.keys = issued[req.n].keys
          /\ AccessPSK(client.secret, client.hCertV) = issued[req.n].psk

\* There is a session exactly while it can be used, with the keys WeChat has for it.
SessionInv ==
    /\ wmpf # None =>
          /\ wmpf \in [n : 1 .. MaxConns, keys : {wmpf.keys}, proxy : BOOLEAN,
                       psk : {wmpf.psk}, targets : {wmpf.targets}]
          /\ Line(wmpf.targets)
    /\ req.at \in {"resolving", "dialing"} \/ Attached => wmpf = None
    /\ req.at \in {"ready", "sending", "awaiting"} => wmpf # None
    /\ SessionKept

\* An envelope under way: what came back is an answer to it.
Awaited ==
    /\ req.at = "awaiting" =>
          /\ server.at = "short" /\ req.left # <<>>
          /\ wire.down # <<>> => wire.up = <<>> /\ wire.down[1] \in Tried
          /\ executed <= unheard + (IF wire.down = <<>> THEN 0 ELSE 1)
          /\ wire.down = <<>> /\ ~cause => wire.open
    /\ req.at = "sending" => executed <= unheard
    /\ executed <= unheard + 1

\* The messages of the handshake, the one WeChat finishes with after them.
ServerFinished == Msg("Finished", VerifyData("server", server.secret, server.hFinal))
Fed(i) == IF i <= Len(server.hFinal) THEN server.hFinal[i] ELSE ServerFinished
\* The record of the flight that has the number seq.
FlightRecord(seq) ==
    IF seq = 0 THEN Plain(Fed(2))
    ELSE Sealed(HandshakeKey("server", server.secret, server.hChSh), seq, Fed(seq + 2))
\* The records of the client that are due.
ClientFinished ==
    Sealed(HandshakeKey("client", server.secret, server.hChSh), 1,
           Msg("Finished", VerifyData("client", server.secret, server.hFinal)))
LoginRecord == Sealed(AppKey("client", server.secret, server.hFinal), 2, LoginRequest)
\* ... and the answer to its login.
LoginAnswer ==
    Sealed(AppKey("server", server.secret, server.hFinal), server.tx, LoginResponse(LoginRequest))

\* As long as nobody interferes, WeChat has answered the hello of this client.
Greeted ==
    /\ server.at \in {"greeted", "open", "done"}
    /\ server.secret = Secret(Share("client"), Share("server"))
    /\ server.hChSh = <<ClientHello, Msg("ServerHello", Share("server"))>>
    /\ Line(server.hFinal) /\ Len(server.hFinal) >= 2
    /\ \A i \in 1 .. 2 : server.hFinal[i] = server.hChSh[i]
    /\ \A i \in 3 .. Len(server.hFinal) :
         /\ server.hFinal[i].type # "Finished"
         /\ server.hFinal[i].type = "NewSessionTicket" => 1 \in ToSet(server.hFinal[i].data)
    /\ \A type \in {"CertVerify", "NewSessionTicket"} :
          \E i \in 3 .. Len(server.hFinal) : server.hFinal[i].type = type
    /\ server.tx = Len(server.hFinal)

\* The client has taken the records of the flight before rx.
FlightDue ==
    /\ client.rx < Len(server.hFinal)
    /\ Len(wire.down) = Len(server.hFinal) - client.rx
    /\ \A i \in 1 .. Len(wire.down) : wire.down[i] = FlightRecord(client.rx + i - 1)
    /\ client.transcript = SubSeq(server.hFinal, 1, client.rx + 1)
    /\ client.rx = 0 => client.secret = <<>>
    /\ client.rx > 0 => client.secret = server.secret /\ client.hChSh = server.hChSh
    /\ \A i \in 3 .. client.rx + 1 :
          /\ server.hFinal[i].type = "CertVerify" => client.hCertV # <<>>
          /\ server.hFinal[i].type = "NewSessionTicket" => 1 \in client.tickets

\* The handshake is over: the client has all that WeChat has fed, and a ticket.
Shook ==
    /\ client.secret = server.secret /\ client.hChSh = server.hChSh
    /\ client.hFinal = server.hFinal /\ client.rx = Len(server.hFinal)
    /\ client.hCertV # <<>> /\ 1 \in client.tickets

\* A connection nobody has interfered with: both ends agree, and what is under way is due.
Agreed ==
    Connected /\ ~cause =>
       /\ wire.open
       /\ \/ req.at = "opening" /\ server = NewServer /\ wire = NewWire
          \/ /\ req.at = "flight" /\ server = NewServer
             /\ client = [NewClient EXCEPT !.transcript = <<ClientHello>>, !.tx = 1]
             /\ wire.up = <<Plain(ClientHello)>> /\ wire.down = <<>>
          \/ /\ req.at = "flight" /\ Greeted /\ FlightDue
             /\ server.at = "greeted" /\ server.rx = 1 /\ wire.up = <<>>
          \/ /\ req.at = "finishing" /\ Greeted /\ Shook
             /\ server.at = "greeted" /\ server.rx = 1 /\ wire.up = <<>> /\ wire.down = <<>>
          \/ /\ req.at \in {"authenticating", "answering"} /\ Greeted /\ Shook
             /\ LET asked == IF req.at = "answering" THEN <<LoginRecord>> ELSE <<>> IN
                \/ /\ server.at = "greeted" /\ server.rx = 1 /\ wire.down = <<>>
                   /\ wire.up = <<ClientFinished>> \o asked
                \/ /\ server.at = "open" /\ server.rx = 2 /\ wire.down = <<>>
                   /\ wire.up = asked
                \/ /\ req.at = "answering" /\ server.at = "done"
                   /\ wire.up = <<>> /\ wire.down = <<LoginAnswer>>

\* The inductive invariant.
LinkInv ==
    /\ Shaped /\ Counted /\ Quiet
    /\ ServerHonest /\ ClientHonest /\ SessionInv /\ Awaited /\ Agreed

----------------------------------------------------------------------------
(* Sequences of any elements *)

\* The empty sequence.
LEMMA LineEmpty == Line(<<>>) /\ Len(<<>>) = 0
  BY DEF Line

\* A sequence over any set is one.
LEMMA LineSeq ==
  ASSUME NEW S, NEW s \in Seq(S) PROVE Line(s)
  BY SMT DEF Line, ToSet

\* A function on 1 .. n is a sequence of n elements.
LEMMA LineMade ==
  ASSUME NEW n \in Nat, NEW f, DOMAIN f = 1 .. n, f = [i \in 1 .. n |-> f[i]]
  PROVE  Line(f) /\ Len(f) = n
<1>1. f \in [1 .. n -> ToSet(f)]
  BY DEF ToSet
<1>2. f \in Seq(ToSet(f))
  BY <1>1
<1> QED  BY <1>1, <1>2 DEF Line

\* What an append adds, and what it leaves where it was.
LEMMA LineAppend ==
  ASSUME NEW s, Line(s), NEW x
  PROVE  /\ Line(Append(s, x)) /\ Len(Append(s, x)) = Len(s) + 1 /\ Len(s) \in Nat
         /\ Append(s, x)[Len(s) + 1] = x
         /\ \A i \in 1 .. Len(s) : Append(s, x)[i] = s[i]
         /\ Append(s, x) # <<>>
<1>1. s \in Seq(ToSet(s) \cup {x})
  BY SeqMonotonic DEF Line
<1>2. Append(s, x) \in Seq(ToSet(s) \cup {x})
  BY <1>1
<1>3. Line(Append(s, x))
  BY <1>2, LineSeq
<1> QED  BY <1>1, <1>2, <1>3

\* Taking the first element moves the others down by one.
LEMMA LineTail ==
  ASSUME NEW s, Line(s), s # <<>>
  PROVE  /\ Line(Tail(s)) /\ Len(Tail(s)) = Len(s) - 1 /\ Len(s) \in Nat \ {0}
         /\ \A i \in 1 .. Len(s) - 1 : Tail(s)[i] = s[i + 1]
  BY HeadTailProperties, LineSeq, EmptySeq DEF Line

\* The first n elements.
LEMMA LinePrefix ==
  ASSUME NEW s, Line(s), NEW n \in 0 .. Len(s)
  PROVE  /\ Line(SubSeq(s, 1, n)) /\ Len(SubSeq(s, 1, n)) = n
         /\ \A i \in 1 .. n : SubSeq(s, 1, n)[i] = s[i]
<1>1. Len(s) \in Nat /\ \A i \in 1 .. n : s[i] \in ToSet(s)
  BY DEF Line
<1>2. n \in Int /\ 1 \in Int
  BY <1>1
<1>3. SubSeq(s, 1, n) \in Seq(ToSet(s))
  BY <1>1, <1>2, SubSeqProperties
<1>4. /\ Len(SubSeq(s, 1, n)) = (IF 1 <= n THEN n - 1 + 1 ELSE 0)
      /\ \A i \in 1 .. n - 1 + 1 : SubSeq(s, 1, n)[i] = s[1 + i - 1]
  BY <1>1, <1>2, SubSeqProperties
<1>5. Len(SubSeq(s, 1, n)) = n /\ \A i \in 1 .. n : SubSeq(s, 1, n)[i] = s[i]
  BY <1>1, <1>2, <1>4
<1>6. Line(SubSeq(s, 1, n))
  BY <1>3, LineSeq
<1> QED  BY <1>5, <1>6

\* Sequences with the same elements in the same places are equal.
LEMMA LineEqual ==
  ASSUME NEW s, Line(s), NEW t, Line(t), Len(s) = Len(t), \A i \in 1 .. Len(s) : s[i] = t[i]
  PROVE  s = t
<1>1. s \in Seq(ToSet(s) \cup ToSet(t)) /\ t \in Seq(ToSet(s) \cup ToSet(t))
  BY SeqMonotonic DEF Line
<1> QED  BY <1>1, SeqEqual

\* A sequence of one element.
LEMMA LineOne ==
  ASSUME NEW x
  PROVE  Line(<<x>>) /\ Len(<<x>>) = 1 /\ <<x>>[1] = x /\ <<x>> # <<>> /\ Tail(<<x>>) = <<>>
<1>1. <<x>> \in Seq({x}) /\ Len(<<x>>) = 1
  OBVIOUS
<1>2. Line(<<x>>)
  BY <1>1, LineSeq
<1>3. <<x>> # <<>> /\ Tail(<<x>>) = <<>>
  OBVIOUS
<1> QED  BY <1>1, <1>2, <1>3

\* A sequence of two elements.
LEMMA LineTwo ==
  ASSUME NEW x, NEW y
  PROVE  /\ Line(<<x, y>>) /\ Len(<<x, y>>) = 2 /\ <<x, y>>[1] = x /\ <<x, y>>[2] = y
         /\ <<x, y>> # <<>> /\ Tail(<<x, y>>) = <<y>>
<1>1. <<x, y>> \in Seq({x, y}) /\ Len(<<x, y>>) = 2
  OBVIOUS
<1>2. Line(<<x, y>>)
  BY <1>1, LineSeq
<1>3. <<x, y>> # <<>> /\ Tail(<<x, y>>) = <<y>>
  OBVIOUS
<1> QED  BY <1>1, <1>2, <1>3

\* Two sequences, one after the other.
LEMMA LineJoin ==
  ASSUME NEW s, Line(s), NEW t, Line(t)
  PROVE  /\ Line(s \o t) /\ Len(s \o t) = Len(s) + Len(t) /\ Len(s) \in Nat /\ Len(t) \in Nat
         /\ \A i \in 1 .. Len(s) : (s \o t)[i] = s[i]
         /\ \A i \in 1 .. Len(t) : (s \o t)[Len(s) + i] = t[i]
<1>1. s \in Seq(ToSet(s) \cup ToSet(t)) /\ t \in Seq(ToSet(s) \cup ToSet(t))
  BY SeqMonotonic DEF Line
<1>2. s \o t \in Seq(ToSet(s) \cup ToSet(t))
  BY <1>1
<1>3. Line(s \o t)
  BY <1>2, LineSeq
<1>4. Len(s) \in Nat /\ Len(t) \in Nat
  BY <1>1
<1>5. /\ Len(s \o t) = Len(s) + Len(t)
      /\ \A i \in 1 .. Len(s) + Len(t) : (s \o t)[i] = IF i <= Len(s) THEN s[i] ELSE t[i - Len(s)]
  BY <1>1, ConcatProperties
<1> QED  BY <1>3, <1>4, <1>5

\* One element is altered.
LEMMA LineExcept ==
  ASSUME NEW s, Line(s), s # <<>>, NEW x
  PROVE  Line([s EXCEPT ![1] = x])
<1>1. s \in Seq(ToSet(s) \cup {x}) /\ Len(s) \in Nat \ {0}
  BY SeqMonotonic, EmptySeq DEF Line
<1>2. [s EXCEPT ![1] = x] \in Seq(ToSet(s) \cup {x})
  BY <1>1, ExceptSeq
<1> QED  BY <1>2, LineSeq

(* Sets as sequences *)
LEMMA SetAsSeq ==
  ASSUME NEW S, IsFiniteSet(S)
  PROVE  ToSet(SetToSeq(S)) = S
<1> DEFINE n == Cardinality(S)
<1>1. n \in Nat
  BY FS_CardinalityType
<1>2. ExistsBijection(1 .. n, S)
  BY FS_NatBijection, FS_CountingElements
<1>3. PICK f \in [1 .. n -> S] : IsInjective(f)
  BY <1>2 DEF ExistsBijection, Bijection, Injection, IsInjective
<1>4. SetToSeq(S) \in [1 .. n -> S] /\ IsInjective(SetToSeq(S))
  BY <1>3 DEF SetToSeq
<1>5. SetToSeq(S) \in Injection(1 .. n, S)
  BY <1>4 DEF Injection
<1>6. IsFiniteSet(1 .. n) /\ Cardinality(1 .. n) = n
  BY <1>1, FS_Interval
<1>7. SetToSeq(S) \in Surjection(1 .. n, S)
  BY <1>5, <1>6, FS_Injection
<1> QED  BY <1>4, <1>7 DEF ToSet, Surjection

\* Targets in order are as many as there are targets.
LEMMA InOrderLine ==
  ASSUME NEW S, IsFiniteSet(S)
  PROVE  Line(InOrder(S)) /\ Len(InOrder(S)) = Cardinality(S)
<1>1. Cardinality(S) \in Nat
  BY FS_CardinalityType
<1> QED  BY <1>1, LineMade DEF InOrder

----------------------------------------------------------------------------
(* Transcripts and targets *)

\* Numbers up to n have a largest one.
LEMMA LargestExists ==
  ASSUME NEW n \in Nat, NEW S \in SUBSET (0 .. n), S # {}
  PROVE  \E x \in S : \A y \in S : y <= x
<1> DEFINE T == {n - x : x \in S}
<1>0. \A x \in S : x \in Nat /\ n - x \in Nat
  OBVIOUS
<1>1. T \subseteq Nat /\ T # {}
  BY <1>0
<1>2. PICK t \in T : \A u \in T : ~(<<u, t>> \in OpToRel(<, Nat))
  BY <1>1, WFMin, NatLessThanWellFounded
<1>3. ASSUME NEW u \in T PROVE t <= u
  <2>1. u \in Nat /\ t \in Nat
    BY <1>1
  <2>2. ~(u < t)
    BY <1>2, <2>1 DEF OpToRel
  <2> QED  BY <2>1, <2>2
<1>4. PICK x \in S : t = n - x
  BY <1>2
<1>5. ASSUME NEW y \in S PROVE y <= x
  <2>1. t <= n - y
    BY <1>3
  <2> QED  BY <1>4, <2>1
<1> QED  BY <1>5

\* Max gives the largest number.
LEMMA MaxIs ==
  ASSUME NEW S \in SUBSET Nat, NEW x \in S, \A y \in S : y <= x
  PROVE  Max(S) = x
<1>1. \A y \in S : x >= y
  OBVIOUS
<1>2. Max(S) \in S /\ \A y \in S : Max(S) >= y
  BY <1>1 DEF Max
<1>3. Max(S) \in Nat /\ x \in Nat /\ x >= Max(S) /\ Max(S) >= x
  BY <1>1, <1>2
<1> QED  BY <1>3

\* Min gives the smaller one of two numbers.
LEMMA MinOfTwo ==
  ASSUME NEW a \in Nat, NEW b \in Nat
  PROVE  Min({a, b}) \in {a, b} /\ Min({a, b}) <= a /\ Min({a, b}) <= b
<1>1. \E x \in {a, b} : \A y \in {a, b} : x =< y
  OBVIOUS
<1> QED  BY <1>1 DEF Min

\* Where a transcript ends that is hashed for a ticket.
CertVerifies(s) == {2} \cup {i \in DOMAIN s : s[i].type = "CertVerify"}

\* A message that is fed moves the hash of CertVerify exactly if it is a CertVerify.
LEMMA CertifiedAppend ==
  ASSUME NEW s, Line(s), Len(s) >= 2, NEW m
  PROVE  Certified(Append(s, m)) = IF m.type = "CertVerify" THEN Append(s, m) ELSE Certified(s)
<1> DEFINE t == Append(s, m)
<1>1. /\ Line(t) /\ Len(t) = Len(s) + 1 /\ Len(s) \in Nat
      /\ t[Len(s) + 1] = m /\ \A i \in 1 .. Len(s) : t[i] = s[i]
  BY LineAppend
<1>2. DOMAIN s = 1 .. Len(s) /\ DOMAIN t = 1 .. Len(s) + 1
  BY <1>1 DEF Line
<1> HIDE DEF t
<1>3. CASE m.type = "CertVerify"
  <2>1. Len(t) \in CertVerifies(t) /\ CertVerifies(t) \subseteq Nat
        /\ \A y \in CertVerifies(t) : y <= Len(t)
    BY <1>1, <1>2, <1>3 DEF CertVerifies
  <2>2. Max(CertVerifies(t)) = Len(t)
    BY <2>1, MaxIs
  <2>3. SubSeq(t, 1, Len(t)) = t
    BY <1>1, SubSeqFull DEF Line
  <2> QED  BY <1>3, <2>2, <2>3 DEF Certified, CertVerifies, t
<1>4. CASE m.type # "CertVerify"
  <2>1. CertVerifies(t) = CertVerifies(s)
    BY <1>1, <1>2, <1>4 DEF CertVerifies
  <2>2. CertVerifies(s) \in SUBSET (0 .. Len(s)) /\ CertVerifies(s) # {}
    BY <1>1, <1>2 DEF CertVerifies
  <2>3. PICK x \in CertVerifies(s) : \A y \in CertVerifies(s) : y <= x
    BY <1>1, <2>2, LargestExists
  <2>4. Max(CertVerifies(s)) = x
    BY <1>1, <2>2, <2>3, MaxIs
  <2>5. x \in 0 .. Len(s) /\ x \in 0 .. Len(t)
    BY <1>1, <2>2, <2>3
  <2>6. SubSeq(t, 1, x) = SubSeq(s, 1, x)
    <3>1. /\ Line(SubSeq(s, 1, x)) /\ Len(SubSeq(s, 1, x)) = x
          /\ \A i \in 1 .. x : SubSeq(s, 1, x)[i] = s[i]
      BY <2>5, LinePrefix
    <3>2. /\ Line(SubSeq(t, 1, x)) /\ Len(SubSeq(t, 1, x)) = x
          /\ \A i \in 1 .. x : SubSeq(t, 1, x)[i] = t[i]
      BY <1>1, <2>5, LinePrefix
    <3>3. \A i \in 1 .. x : SubSeq(t, 1, x)[i] = SubSeq(s, 1, x)[i]
      BY <1>1, <2>5, <3>1, <3>2
    <3> QED  BY <3>1, <3>2, <3>3, LineEqual
  <2> QED  BY <1>4, <2>1, <2>4, <2>6 DEF Certified, CertVerifies, t
<1> QED  BY <1>3, <1>4

\* Finitely many addresses and ports make finitely many targets (serversFor).
LEMMA ServersFinite ==
  ASSUME NEW domain, IsFiniteSet(domain.ips), IsFiniteSet(domain.ports)
  PROVE  IsFiniteSet(ServersFor(domain))
<1> DEFINE P == domain.ips \X domain.ports
           f == [x \in P |-> [ip |-> x[1], port |-> x[2]]]
<1>1. IsFiniteSet(P)
  BY FS_Product
<1>2. f \in [P -> ServersFor(domain)]
  BY DEF ServersFor
<1>3. ASSUME NEW t \in ServersFor(domain) PROVE \E x \in P : f[x] = t
  <2>1. PICK i \in domain.ips, p \in domain.ports : t = [ip |-> i, port |-> p]
    BY DEF ServersFor
  <2>2. <<i, p>> \in P /\ f[<<i, p>>] = t
    BY <2>1
  <2> QED  BY <2>2
<1> HIDE DEF f, P
<1>4. f \in Surjection(P, ServersFor(domain))
  BY <1>2, <1>3 DEF Surjection
<1> QED  BY <1>1, <1>4, FS_Surjection

\* The targets of the long link are at most MaxTargets (orderLonglinkTargets); both kinds are
\* sequences.
LEMMA TargetsTyped ==
  ASSUME NEW domain, IsFiniteSet(domain.ips), IsFiniteSet(domain.ports)
  PROVE  /\ Line(OrderLonglinkTargets(ServersFor(domain)))
         /\ Len(OrderLonglinkTargets(ServersFor(domain))) <= MaxTargets
         /\ Line(ShortlinkTargets(ServersFor(domain)))
<1> DEFINE T == ServersFor(domain)
           known == {t \in T : t.port \in ToSet(Preferred)}
           best == {t \in known : \A u \in known : u.ip = t.ip => Rank(t.port) <= Rank(u.port)}
           S == IF known = {} THEN T ELSE best
           http == {t \in T : t.port = 80}
<1>1. IsFiniteSet(T)
  BY ServersFinite
<1> HIDE DEF T
<1>2. IsFiniteSet(S) /\ IsFiniteSet(http)
  BY <1>1, FS_Subset
<1>3. OrderLonglinkTargets(T) = SubSeq(InOrder(S), 1, Min({MaxTargets, Len(InOrder(S))}))
  BY DEF OrderLonglinkTargets
<1>4. ShortlinkTargets(T) = IF http = {} THEN <<DefaultShort>> ELSE InOrder(http)
  BY DEF ShortlinkTargets
<1> HIDE DEF S, http
<1>5. Line(InOrder(S)) /\ Line(InOrder(http)) /\ Len(InOrder(S)) \in Nat
  BY <1>2, InOrderLine, FS_CardinalityType
<1>6. MaxTargets \in Nat
  BY MmtlsLoginAssumption
<1>7. /\ Min({MaxTargets, Len(InOrder(S))}) \in 0 .. Len(InOrder(S))
      /\ Min({MaxTargets, Len(InOrder(S))}) <= MaxTargets
  BY <1>5, <1>6, MinOfTwo
<1>8. Line(OrderLonglinkTargets(T)) /\ Len(OrderLonglinkTargets(T)) <= MaxTargets
  BY <1>3, <1>5, <1>7, LinePrefix
<1>9. Line(ShortlinkTargets(T))
  BY <1>4, <1>5, LineOne
<1> QED  BY <1>8, <1>9 DEF T

\* What the name service answers is finite, and so is the answer of none.
LEMMA AnswersFinite ==
  ASSUME NEW answer \in Answers \cup {NoTargets}
  PROVE  /\ answer \in Answers => IsFiniteSet(answer.long.ips) /\ IsFiniteSet(answer.long.ports)
         /\ IsFiniteSet(answer.short.ips) /\ IsFiniteSet(answer.short.ports)
<1>1. CASE answer \in Answers
  BY <1>1, MmtlsLoginAssumption
<1>2. CASE answer = NoTargets
  <2>1. NoTargets.short = [ips |-> {}, ports |-> {}]
    BY DEF NoTargets
  <2>2. NoTargets.long = [ips |-> {}, ports |-> {}]
    BY DEF NoTargets
  <2> QED  BY <1>2, <2>1, <2>2, FS_EmptySet
<1> QED  BY <1>1, <1>2

----------------------------------------------------------------------------
(* What the assignments make of the records *)

\* What the request has become.
ReqBecomes(at, p, tries, left, n, logins) ==
    /\ req'.at = at /\ req'.proxy = p /\ req'.tries = tries
    /\ req'.left = left /\ req'.n = n /\ req'.logins = logins

\* A request whose fields are typed is shaped, and has become what it was set to.
LEMMA ReqWhole ==
  ASSUME NEW at \in Stages, NEW p \in BOOLEAN, NEW tries \in 0 .. 2, NEW left, Line(left),
         NEW n \in Nat, NEW logins \in Nat,
         req' = [at |-> at, proxy |-> p, tries |-> tries, left |-> left, n |-> n, logins |-> logins]
  PROVE  ReqShaped' /\ ReqBecomes(at, p, tries, left, n, logins)
  BY DEF ReqShaped, ReqBecomes

\* The fields of a request, and that it has no others.
LEMMA ReqFields ==
  ASSUME ReqShaped
  PROVE  /\ req.at \in Stages /\ req.proxy \in BOOLEAN /\ req.tries \in 0 .. 2 /\ Line(req.left)
         /\ req.n \in Nat /\ req.logins \in Nat
         /\ req = [at |-> req.at, proxy |-> req.proxy, tries |-> req.tries, left |-> req.left,
                   n |-> req.n, logins |-> req.logins]
  BY DEF ReqShaped

\* The request goes on to another stage.
LEMMA ReqMoved ==
  ASSUME ReqShaped, NEW at \in Stages, req' = [req EXCEPT !.at = at]
  PROVE  ReqShaped' /\ ReqBecomes(at, req.proxy, req.tries, req.left, req.n, req.logins)
  BY ReqFields, ReqWhole

\* The request has other targets left.
LEMMA ReqLeft ==
  ASSUME ReqShaped, NEW left, Line(left), req' = [req EXCEPT !.left = left]
  PROVE  ReqShaped' /\ ReqBecomes(req.at, req.proxy, req.tries, left, req.n, req.logins)
  BY ReqFields, ReqWhole

\* The request goes on with other targets.
LEMMA ReqMovedLeft ==
  ASSUME ReqShaped, NEW at \in Stages, NEW left, Line(left),
         req' = [req EXCEPT !.at = at, !.left = left]
  PROVE  ReqShaped' /\ ReqBecomes(at, req.proxy, req.tries, left, req.n, req.logins)
  BY ReqFields, ReqWhole

\* The request asks the next name service.
LEMMA ReqTried ==
  ASSUME ReqShaped, NEW tries \in 0 .. 2, req' = [req EXCEPT !.tries = tries]
  PROVE  ReqShaped' /\ ReqBecomes(req.at, req.proxy, tries, req.left, req.n, req.logins)
  BY ReqFields, ReqWhole

\* The request goes on to a name service.
LEMMA ReqMovedTried ==
  ASSUME ReqShaped, NEW at \in Stages, NEW tries \in 0 .. 2,
         req' = [req EXCEPT !.at = at, !.tries = tries]
  PROVE  ReqShaped' /\ ReqBecomes(at, req.proxy, tries, req.left, req.n, req.logins)
  BY ReqFields, ReqWhole

\* The request gets a connection of its own number.
LEMMA ReqDialed ==
  ASSUME ReqShaped, NEW at \in Stages, req' = [req EXCEPT !.at = at, !.n = @ + 1]
  PROVE  ReqShaped' /\ ReqBecomes(at, req.proxy, req.tries, req.left, req.n + 1, req.logins)
<1>1. req.n + 1 \in Nat
  BY ReqFields
<1>2. req' = [at |-> at, proxy |-> req.proxy, tries |-> req.tries, left |-> req.left,
              n |-> req.n + 1, logins |-> req.logins]
  BY ReqFields
<1> QED  BY ReqFields, <1>1, <1>2, ReqWhole

\* A login begins.
LEMMA ReqLogin ==
  ASSUME ReqShaped, NEW p \in BOOLEAN,
         req' = [req EXCEPT !.at = "resolving", !.proxy = p, !.tries = 2, !.logins = @ + 1]
  PROVE  ReqShaped' /\ ReqBecomes("resolving", p, 2, req.left, req.n, req.logins + 1)
<1>1. req.logins + 1 \in Nat /\ 2 \in 0 .. 2 /\ "resolving" \in Stages
  BY ReqFields DEF Stages
<1>2. req' = [at |-> "resolving", proxy |-> p, tries |-> 2, left |-> req.left, n |-> req.n,
              logins |-> req.logins + 1]
  BY ReqFields DEF Stages
<1> QED  BY ReqFields, <1>1, <1>2, ReqWhole

(* The client *)

\* What the client has become.
ClientBecomes(transcript, secret, hChSh, hCertV, hFinal, tickets, keys, tx, rx) ==
    /\ client'.transcript = transcript /\ client'.secret = secret /\ client'.hChSh = hChSh
    /\ client'.hCertV = hCertV /\ client'.hFinal = hFinal /\ client'.tickets = tickets
    /\ client'.keys = keys /\ client'.tx = tx /\ client'.rx = rx

\* A client whose fields are typed is shaped, and has become what it was set to.
LEMMA ClientWhole ==
  ASSUME NEW transcript, NEW secret, NEW hChSh, NEW hCertV, NEW hFinal,
         NEW tickets \in TicketTypes \cup {{}}, NEW keys, NEW tx \in 0 .. 3, NEW rx \in Nat,
         client' = [transcript |-> transcript, secret |-> secret, hChSh |-> hChSh,
                    hCertV |-> hCertV, hFinal |-> hFinal, tickets |-> tickets, keys |-> keys,
                    tx |-> tx, rx |-> rx]
  PROVE  /\ ClientShaped'
         /\ ClientBecomes(transcript, secret, hChSh, hCertV, hFinal, tickets, keys, tx, rx)
  BY DEF ClientShaped, ClientBecomes

\* The fields of a client, and that it has no others.
LEMMA ClientFields ==
  ASSUME ClientShaped
  PROVE  /\ client.tickets \in TicketTypes \cup {{}} /\ client.tx \in 0 .. 3 /\ client.rx \in Nat
         /\ client = [transcript |-> client.transcript, secret |-> client.secret,
                      hChSh |-> client.hChSh, hCertV |-> client.hCertV,
                      hFinal |-> client.hFinal, tickets |-> client.tickets,
                      keys |-> client.keys, tx |-> client.tx, rx |-> client.rx]
  BY DEF ClientShaped

\* A new client.
LEMMA ClientNew ==
  ASSUME client' = NewClient
  PROVE  ClientShaped' /\ ClientBecomes(<<>>, <<>>, <<>>, <<>>, <<>>, {}, <<>>, 0, 0)
<1>1. {} \in TicketTypes \cup {{}} /\ 0 \in 0 .. 3 /\ 0 \in Nat
  OBVIOUS
<1>2. client' = [transcript |-> <<>>, secret |-> <<>>, hChSh |-> <<>>, hCertV |-> <<>>,
               hFinal |-> <<>>, tickets |-> {}, keys |-> <<>>, tx |-> 0, rx |-> 0]
  BY DEF NewClient
<1> QED  BY <1>1, <1>2, ClientWhole

\* The client has sent its hello.
LEMMA ClientSaidHello ==
  ASSUME ClientShaped, NEW transcript, client.tx < 3,
         client' = [client EXCEPT !.transcript = transcript, !.tx = @ + 1]
  PROVE  /\ ClientShaped'
         /\ ClientBecomes(transcript, client.secret, client.hChSh, client.hCertV, client.hFinal,
                          client.tickets, client.keys, client.tx + 1, client.rx)
<1>1. client.tx + 1 \in 0 .. 3
  BY ClientFields
<1>2. client' = [transcript |-> transcript, secret |-> client.secret, hChSh |-> client.hChSh,
               hCertV |-> client.hCertV, hFinal |-> client.hFinal, tickets |-> client.tickets,
               keys |-> client.keys, tx |-> client.tx + 1, rx |-> client.rx]
  BY ClientFields
<1> QED  BY ClientFields, <1>1, <1>2, ClientWhole

\* The client has received the server's hello.
LEMMA ClientHeardHello ==
  ASSUME ClientShaped, NEW transcript, NEW secret,
         client' = [client EXCEPT !.transcript = transcript, !.hChSh = transcript, !.rx = @ + 1,
                                  !.secret = secret]
  PROVE  /\ ClientShaped'
         /\ ClientBecomes(transcript, secret, transcript, client.hCertV, client.hFinal,
                          client.tickets, client.keys, client.tx, client.rx + 1)
<1>1. client.rx + 1 \in Nat
  BY ClientFields
<1>2. client' = [transcript |-> transcript, secret |-> secret, hChSh |-> transcript,
               hCertV |-> client.hCertV, hFinal |-> client.hFinal, tickets |-> client.tickets,
               keys |-> client.keys, tx |-> client.tx, rx |-> client.rx + 1]
  BY ClientFields
<1> QED  BY ClientFields, <1>1, <1>2, ClientWhole

\* The client has received a message of the flight.
LEMMA ClientHeard ==
  ASSUME ClientShaped, NEW transcript, NEW hCertV, NEW tickets \in TicketTypes \cup {{}},
         NEW hFinal,
         client' = [client EXCEPT !.transcript = transcript, !.rx = @ + 1, !.hCertV = hCertV,
                                  !.tickets = tickets, !.hFinal = hFinal]
  PROVE  /\ ClientShaped'
         /\ ClientBecomes(transcript, client.secret, client.hChSh, hCertV, hFinal,
                          tickets, client.keys, client.tx, client.rx + 1)
<1>1. client.rx + 1 \in Nat
  BY ClientFields
<1>2. client' = [transcript |-> transcript, secret |-> client.secret, hChSh |-> client.hChSh,
               hCertV |-> hCertV, hFinal |-> hFinal, tickets |-> tickets,
               keys |-> client.keys, tx |-> client.tx, rx |-> client.rx + 1]
  BY ClientFields
<1> QED  BY ClientFields, <1>1, <1>2, ClientWhole

\* The client has sent a record.
LEMMA ClientSent ==
  ASSUME ClientShaped, client.tx < 3, client' = [client EXCEPT !.tx = @ + 1]
  PROVE  /\ ClientShaped'
         /\ ClientBecomes(client.transcript, client.secret, client.hChSh, client.hCertV,
                          client.hFinal, client.tickets, client.keys, client.tx + 1, client.rx)
<1>1. client.tx + 1 \in 0 .. 3
  BY ClientFields
<1>2. client' = [transcript |-> client.transcript, secret |-> client.secret, hChSh |-> client.hChSh,
               hCertV |-> client.hCertV, hFinal |-> client.hFinal, tickets |-> client.tickets,
               keys |-> client.keys, tx |-> client.tx + 1, rx |-> client.rx]
  BY ClientFields
<1> QED  BY ClientFields, <1>1, <1>2, ClientWhole

\* The client has received the keys of its session.
LEMMA ClientGotKeys ==
  ASSUME ClientShaped, NEW keys, client' = [client EXCEPT !.rx = @ + 1, !.keys = keys]
  PROVE  /\ ClientShaped'
         /\ ClientBecomes(client.transcript, client.secret, client.hChSh, client.hCertV,
                          client.hFinal, client.tickets, keys, client.tx, client.rx + 1)
<1>1. client.rx + 1 \in Nat
  BY ClientFields
<1>2. client' = [transcript |-> client.transcript, secret |-> client.secret, hChSh |-> client.hChSh,
               hCertV |-> client.hCertV, hFinal |-> client.hFinal, tickets |-> client.tickets,
               keys |-> keys, tx |-> client.tx, rx |-> client.rx + 1]
  BY ClientFields
<1> QED  BY ClientFields, <1>1, <1>2, ClientWhole

(* WeChat *)

\* What the server has become.
ServerBecomes(at, secret, hChSh, hFinal, tx, rx) ==
    /\ server'.at = at /\ server'.secret = secret /\ server'.hChSh = hChSh
    /\ server'.hFinal = hFinal /\ server'.tx = tx /\ server'.rx = rx

\* A server whose fields are typed is shaped, and has become what it was set to.
LEMMA ServerWhole ==
  ASSUME NEW at \in ServerStages, NEW secret, NEW hChSh, NEW hFinal, NEW tx \in Nat, NEW rx \in Nat,
         server' = [at |-> at, secret |-> secret, hChSh |-> hChSh, hFinal |-> hFinal,
                    tx |-> tx, rx |-> rx]
  PROVE  ServerShaped' /\ ServerBecomes(at, secret, hChSh, hFinal, tx, rx)
  BY DEF ServerShaped, ServerBecomes

\* The fields of a server, and that it has no others.
LEMMA ServerFields ==
  ASSUME ServerShaped
  PROVE  /\ server.at \in ServerStages /\ server.tx \in Nat /\ server.rx \in Nat
         /\ server = [at |-> server.at, secret |-> server.secret, hChSh |-> server.hChSh,
                      hFinal |-> server.hFinal, tx |-> server.tx, rx |-> server.rx]
  BY DEF ServerShaped

\* A new server.
LEMMA ServerNew ==
  ASSUME server' = NewServer
  PROVE  ServerShaped' /\ ServerBecomes("accepting", <<>>, <<>>, <<>>, 0, 0)
  BY ServerWhole DEF NewServer, ServerStages

\* A server of the short link.
LEMMA ServerShort ==
  ASSUME server' = [NewServer EXCEPT !.at = "short"]
  PROVE  ServerShaped' /\ ServerBecomes("short", <<>>, <<>>, <<>>, 0, 0)
  BY ServerWhole DEF NewServer, ServerStages

\* The server has received the client's Finished.
LEMMA ServerOpened ==
  ASSUME ServerShaped, server' = [server EXCEPT !.at = "open", !.rx = @ + 1]
  PROVE  /\ ServerShaped'
         /\ ServerBecomes("open", server.secret, server.hChSh, server.hFinal, server.tx,
                          server.rx + 1)
<1>1. server.rx + 1 \in Nat /\ "open" \in ServerStages
  BY ServerFields DEF ServerStages
<1>2. server' = [at |-> "open", secret |-> server.secret, hChSh |-> server.hChSh,
               hFinal |-> server.hFinal, tx |-> server.tx, rx |-> server.rx + 1]
  BY ServerFields DEF ServerStages
<1> QED  BY ServerFields, <1>1, <1>2, ServerWhole

\* The server has answered the login.
LEMMA ServerDone ==
  ASSUME ServerShaped, server' = [server EXCEPT !.at = "done"]
  PROVE  /\ ServerShaped'
         /\ ServerBecomes("done", server.secret, server.hChSh, server.hFinal, server.tx, server.rx)
  BY ServerFields, ServerWhole DEF ServerStages

(* The wire *)

\* What the wire has become.
WireBecomes(up, down, open) == wire'.up = up /\ wire'.down = down /\ wire'.open = open

\* Two sequences of records and whether it is open make a wire.
LEMMA WireWhole ==
  ASSUME NEW up, Line(up), NEW down, Line(down), NEW open \in BOOLEAN,
         wire' = [up |-> up, down |-> down, open |-> open]
  PROVE  WireShaped' /\ WireBecomes(up, down, open)
  BY DEF WireShaped, WireBecomes

\* The fields of a wire, and that it has no others.
LEMMA WireFields ==
  ASSUME WireShaped
  PROVE  /\ Line(wire.up) /\ Line(wire.down) /\ wire.open \in BOOLEAN
         /\ wire = [up |-> wire.up, down |-> wire.down, open |-> wire.open]
  BY DEF WireShaped

\* A new wire.
LEMMA WireNew ==
  ASSUME wire' = NewWire
  PROVE  WireShaped' /\ WireBecomes(<<>>, <<>>, TRUE)
  BY WireWhole, LineEmpty DEF NewWire

\* A wire that broke.
LEMMA WireEnded ==
  ASSUME wire' = [up |-> <<>>, down |-> <<>>, open |-> FALSE]
  PROVE  WireShaped' /\ WireBecomes(<<>>, <<>>, FALSE)
  BY WireWhole, LineEmpty

\* The records to the server change.
LEMMA WireUp ==
  ASSUME WireShaped, NEW up, Line(up), wire' = [wire EXCEPT !.up = up]
  PROVE  WireShaped' /\ WireBecomes(up, wire.down, wire.open)
  BY WireFields, WireWhole

\* The records to the client change.
LEMMA WireDown ==
  ASSUME WireShaped, NEW down, Line(down), wire' = [wire EXCEPT !.down = down]
  PROVE  WireShaped' /\ WireBecomes(wire.up, down, wire.open)
  BY WireFields, WireWhole

\* The records of both ways change.
LEMMA WireBoth ==
  ASSUME WireShaped, NEW up, Line(up), NEW down, Line(down),
         wire' = [wire EXCEPT !.up = up, !.down = down]
  PROVE  WireShaped' /\ WireBecomes(up, down, wire.open)
  BY WireFields, WireWhole

\* The server hangs up.
LEMMA WireHungUp ==
  ASSUME WireShaped, wire' = [wire EXCEPT !.up = <<>>, !.open = FALSE]
  PROVE  WireShaped' /\ WireBecomes(<<>>, wire.down, FALSE)
  BY WireFields, WireWhole, LineEmpty

\* A connection that is given up leaves nothing.
LEMMA ForgetAll ==
  ASSUME Forget
  PROVE  /\ ClientShaped' /\ ClientBecomes(<<>>, <<>>, <<>>, <<>>, <<>>, {}, <<>>, 0, 0)
         /\ ServerShaped' /\ ServerBecomes("accepting", <<>>, <<>>, <<>>, 0, 0)
         /\ WireShaped' /\ WireBecomes(<<>>, <<>>, TRUE)
  BY ClientNew, ServerNew, WireNew DEF Forget

----------------------------------------------------------------------------
(* What a step leaves alone *)

\* The stages without a connection.
Elsewhere == {"idle", "resolving", "dialing", "ready", "sending"}

\* There are numbers for MaxTargets connections of each login.
LEMMA Numbers ==
  ASSUME ReqShaped, Counted
  PROVE  /\ MaxConns \in Nat /\ MaxTargets \in Nat \ {0} /\ MaxLogins \in Nat
         /\ MaxTargets * req.logins \in Nat /\ MaxTargets * req.logins <= MaxConns
<1>1. /\ MaxTargets \in Nat \ {0} /\ MaxLogins \in Nat
      /\ req.logins \in Nat /\ req.logins <= MaxLogins
  BY ReqFields, MmtlsLoginAssumption DEF Counted
<1>2. \A a, b, c \in Nat : a <= b => c * a \in Nat /\ c * a <= b * c /\ b * c \in Nat
  OBVIOUS
<1>3. MaxTargets \in Nat
  BY <1>1
<1> QED  BY <1>1, <1>2, <1>3 DEF MaxConns

\* A connection that is up has a number of its own and its target is still the first one.
LEMMA OwnNumber ==
  ASSUME ReqShaped, Counted, Attached
  PROVE  /\ req.n \in 1 .. MaxConns /\ req.left # <<>> /\ Line(req.left)
         /\ Len(req.left) \in Nat \ {0}
<1>1. Line(req.left) /\ req.left # <<>> /\ req.n \in Nat /\ req.n >= 1
      /\ req.n + Len(req.left) <= MaxTargets * req.logins + 1
  BY ReqFields DEF Counted
<1>2. Len(req.left) \in Nat \ {0}
  BY <1>1, LineTail
<1> QED  BY <1>1, <1>2, Numbers

\* The request goes on on its connection.
LEMMA CountedStays ==
  ASSUME Counted, conns' = conns, req'.n = req.n, req'.left = req.left, req'.logins = req.logins,
         req'.at = req.at \/ (Attached /\ Attached')
  PROVE  Counted'
  BY DEF Counted, Attached, Connected

\* Neither the session nor the connections change.
LEMMA SessionStays ==
  ASSUME SessionInv, wmpf' = wmpf, conns' = conns, req'.proxy = req.proxy,
         issued' = issued \/ wmpf = None,
         req'.at = req.at \/ (Attached /\ Attached')
  PROVE  SessionInv'
<1>1. CASE req'.at = req.at
  <2>1. ProxyKept'
    BY <1>1 DEF SessionInv, SessionKept, ProxyKept
  <2>2. KeysShared'
    BY DEF SessionInv, SessionKept, KeysShared
  <2> QED  BY <1>1, <2>1, <2>2 DEF SessionInv, SessionKept, Attached, Connected
<1>2. CASE Attached /\ Attached'
  <2>1. wmpf = None /\ req.at # "awaiting" /\ req'.at # "awaiting"
    BY <1>2 DEF SessionInv, Attached, Connected
  <2>2. ProxyKept'
    BY <1>2, <2>1 DEF SessionInv, SessionKept, ProxyKept
  <2>3. KeysShared'
    BY <2>1 DEF KeysShared
  <2>4. req'.at \notin {"ready", "sending", "awaiting"}
    BY <1>2 DEF Attached, Connected
  <2> QED  BY <1>2, <2>1, <2>2, <2>3, <2>4 DEF SessionInv, SessionKept
<1> QED  BY <1>1, <1>2

\* No envelope is being sent.
LEMMA NotSending ==
  ASSUME req'.at \notin {"sending", "awaiting"}, executed' <= unheard' + 1
  PROVE  Awaited'
  BY DEF Awaited

\* On a connection of a login nothing has to be left clear, and no envelope is sent.
LEMMA AttachedQuiet ==
  ASSUME Attached'
  PROVE  Quiet' /\ req'.at \notin {"sending", "awaiting"}
  BY DEF Quiet, Attached, Connected

\* Without a connection there is nothing to agree on.
LEMMA Parted ==
  ASSUME req'.at \in Elsewhere, client' = NewClient, server' = NewServer, wire' = NewWire
  PROVE  Quiet' /\ ServerHonest' /\ ClientHonest' /\ Agreed'
  BY DEF Quiet, ServerHonest, ClientHonest, Agreed, Attached, Connected, Elsewhere

\* Without a connection the ends stay as they were made.
LEMMA StillParted ==
  ASSUME Quiet, req.at \in Elsewhere, req'.at \in Elsewhere,
         UNCHANGED <<client, server, wire>>
  PROVE  Quiet' /\ ServerHonest' /\ ClientHonest' /\ Agreed'
<1>1. client' = NewClient /\ server' = NewServer /\ wire' = NewWire
  BY DEF Quiet, Elsewhere, Attached, Connected
<1> QED  BY <1>1, Parted

\* WeChat's end stays as it is, and no new record comes from it.
LEMMA ServerStays ==
  ASSUME ServerHonest, Attached, server' = server, issued' = issued, req'.n = req.n,
         \A i \in DOMAIN wire'.down : \E j \in DOMAIN wire.down : wire'.down[i] = wire.down[j],
         server.at = "accepting" => wire'.down = <<>>
  PROVE  ServerHonest'
<1>1. ASSUME NEW i \in DOMAIN wire'.down PROVE FromServer(wire.down[i])'
  <2>1. PICK j \in DOMAIN wire.down : wire'.down[i] = wire.down[j]
    OBVIOUS
  <2>2. FromServer(wire.down[j])
    BY DEF ServerHonest
  <2> QED  BY <2>1, <2>2 DEF FromServer, SessionKeys
<1>2. SessionKeys' = SessionKeys
  BY DEF SessionKeys
<1> QED  BY <1>1, <1>2 DEF ServerHonest

\* After a fault, or without a connection, the ends need not agree.
LEMMA AgreedVoid ==
  ASSUME cause' \/ ~Connected'
  PROVE  Agreed'
  BY DEF Agreed

\* What WeChat has issued and the counters stay.
LEMMA RestStays ==
  ASSUME RestShaped, UNCHANGED <<issued, executed, unheard>>, dnsCache' \in Answers \cup {None},
         cause' \in BOOLEAN
  PROVE  RestShaped'
  BY DEF RestShaped

----------------------------------------------------------------------------
(* Logins and names *)

\* The parts of the invariant.
LEMMA Parts ==
  ASSUME LinkInv
  PROVE  /\ ReqShaped /\ ClientShaped /\ ServerShaped /\ WireShaped /\ RestShaped
         /\ Counted /\ Quiet /\ ServerHonest /\ ClientHonest /\ SessionInv /\ Awaited /\ Agreed
         /\ executed <= unheard + 1
  BY DEF LinkInv, Shaped, Awaited

\* They are the invariant together.
LEMMA Whole ==
  ASSUME ReqShaped', ClientShaped', ServerShaped', WireShaped', RestShaped', Counted', Quiet',
         ServerHonest', ClientHonest', SessionInv', Awaited', Agreed'
  PROVE  LinkInv'
  BY DEF LinkInv, Shaped

\* The two ends and the wire stay.
LEMMA LinkStill ==
  ASSUME ClientShaped, ServerShaped, WireShaped, UNCHANGED link
  PROVE  /\ ClientShaped' /\ ServerShaped' /\ WireShaped'
         /\ client' = client /\ server' = server /\ wire' = wire
  BY DEF ClientShaped, ServerShaped, WireShaped, link

\* loginAndSession is called.
LEMMA LoginKeeps ==
  ASSUME LinkInv, NEW p \in BOOLEAN, Login(p)
  PROVE  LinkInv'
<1>1. req.at = "idle" /\ req.logins < MaxLogins /\ wmpf' = None
      /\ UNCHANGED <<dnsCache, conns, link, cause, issued, shortlink>>
      /\ req' = [req EXCEPT !.at = "resolving", !.proxy = p, !.tries = 2, !.logins = @ + 1]
  BY DEF Login
<1>2. ReqShaped' /\ ReqBecomes("resolving", p, 2, req.left, req.n, req.logins + 1)
  BY <1>1, Parts, ReqLogin
<1>3. RestShaped'
  BY <1>1, Parts, RestStays DEF shortlink, RestShaped
<1>4. ClientShaped' /\ ServerShaped' /\ WireShaped'
  BY <1>1, Parts, LinkStill
<1>5. Quiet' /\ ServerHonest' /\ ClientHonest' /\ Agreed'
  BY <1>1, <1>2, Parts, StillParted DEF ReqBecomes, Elsewhere, link
<1>6. Counted'
  <2>1. req.n \in Nat /\ req.logins \in Nat /\ req.n <= MaxTargets * req.logins /\ conns = {}
        /\ IsFiniteSet(conns)
    BY <1>1, Parts, ReqFields DEF Counted
  <2>2. /\ MaxTargets \in Nat /\ MaxLogins \in Nat
    BY MmtlsLoginAssumption
  <2>3. /\ MaxTargets * (req.logins + 1) >= MaxTargets * req.logins
        /\ MaxTargets * (req.logins + 1 - 1) = MaxTargets * req.logins
        /\ MaxTargets * (req.logins + 1) \in Nat /\ MaxTargets * req.logins \in Nat
    BY <2>1, <2>2
  <2> QED  BY <1>1, <1>2, <2>1, <2>2, <2>3 DEF Counted, ReqBecomes, Attached, Connected
<1>7. SessionInv'
  BY <1>1, <1>2, Parts DEF SessionInv, SessionKept, KeysShared, ProxyKept, ReqBecomes, Counted
<1>8. Awaited'
  BY <1>1, <1>2, Parts, NotSending DEF ReqBecomes, shortlink
<1> QED  BY <1>2, <1>3, <1>4, <1>5, <1>6, <1>7, <1>8, Whole

\* The targets of the long link are known.
LEMMA ResolvedLong ==
  ASSUME LinkInv, req.at = "resolving", NEW answer \in Answers, Resolved(answer),
         dnsCache' \in Answers \cup {None}, UNCHANGED <<cause, issued, shortlink>>
  PROVE  LinkInv'
<1> DEFINE targets == OrderLonglinkTargets(ServersFor(answer.long))
<1>1. Line(targets) /\ Len(targets) <= MaxTargets /\ Len(targets) \in Nat
  <2>1. answer \in Answers \cup {NoTargets}
    OBVIOUS
  <2>2. IsFiniteSet(answer.long.ips) /\ IsFiniteSet(answer.long.ports)
    BY <2>1, AnswersFinite
  <2> QED  BY <2>2, TargetsTyped DEF Line
<1>2. req' = [req EXCEPT !.at = "dialing", !.left = targets] /\ UNCHANGED <<conns, wmpf, link>>
  BY DEF Resolved
<1> HIDE DEF targets
<1>3. ReqShaped' /\ ReqBecomes("dialing", req.proxy, req.tries, targets, req.n, req.logins)
  BY <1>1, <1>2, Parts, ReqMovedLeft DEF Stages
<1>4. RestShaped'
  BY Parts, RestStays DEF shortlink, RestShaped
<1>5. ClientShaped' /\ ServerShaped' /\ WireShaped'
  BY <1>2, Parts, LinkStill
<1>6. Quiet' /\ ServerHonest' /\ ClientHonest' /\ Agreed'
  BY <1>2, <1>3, Parts, StillParted DEF ReqBecomes, Elsewhere, link
<1>7. Counted'
  <2>1. /\ req.n \in Nat /\ req.logins \in Nat /\ conns = {} /\ IsFiniteSet(conns)
        /\ req.logins <= MaxLogins
        /\ req.logins >= 1 /\ req.n <= MaxTargets * (req.logins - 1)
    BY Parts, ReqFields DEF Counted
  <2>2. MaxTargets \in Nat
    BY MmtlsLoginAssumption
  <2>3. /\ MaxTargets * (req.logins - 1) + MaxTargets = MaxTargets * req.logins
        /\ MaxTargets * (req.logins - 1) \in Nat /\ MaxTargets * req.logins \in Nat
    BY <2>1, <2>2
  <2>4. req.n + Len(targets) <= MaxTargets * req.logins /\ req.n <= MaxTargets * req.logins
    BY <1>1, <2>1, <2>2, <2>3
  <2>5. Cardinality(conns) + Len(targets) <= MaxTargets
    BY <1>1, <2>1, FS_EmptySet
  <2> QED  BY <1>2, <1>3, <2>1, <2>4, <2>5 DEF Counted, ReqBecomes, Attached, Connected
<1>8. SessionInv'
  BY <1>2, <1>3, Parts DEF SessionInv, SessionKept, KeysShared, ProxyKept, ReqBecomes, Counted
<1>9. Awaited'
  BY <1>3, Parts, NotSending DEF ReqBecomes, shortlink
<1> QED  BY <1>3, <1>4, <1>5, <1>6, <1>7, <1>8, <1>9, Whole

\* The login returns its session.
LEMMA ResolvedSession ==
  ASSUME LinkInv, req.at = "resolvingShort", NEW answer \in Answers \cup {NoTargets},
         Resolved(answer),
         dnsCache' \in Answers \cup {None}, UNCHANGED <<cause, issued, shortlink>>
  PROVE  LinkInv'
<1> DEFINE targets == ShortlinkTargets(ServersFor(answer.short))
<1>1. Line(targets)
  <2>1. IsFiniteSet(answer.short.ips) /\ IsFiniteSet(answer.short.ports)
    BY AnswersFinite
  <2> QED  BY <2>1, TargetsTyped
<1>2. /\ wmpf' = [n |-> req.n, keys |-> client.keys, proxy |-> req.proxy,
                  psk |-> AccessPSK(client.secret, client.hCertV), targets |-> targets]
      /\ conns' = {} /\ Forget /\ req' = [req EXCEPT !.at = "ready"]
  BY DEF Resolved, Proceed
<1> HIDE DEF targets
<1>3. ReqShaped' /\ ReqBecomes("ready", req.proxy, req.tries, req.left, req.n, req.logins)
  BY <1>2, Parts, ReqMoved DEF Stages
<1>4. RestShaped'
  BY Parts, RestStays DEF shortlink, RestShaped
<1>5. ClientShaped' /\ ServerShaped' /\ WireShaped'
  BY <1>2, ForgetAll
<1>6. Quiet' /\ ServerHonest' /\ ClientHonest' /\ Agreed'
  BY <1>2, <1>3, Parted DEF ReqBecomes, Elsewhere, Forget
<1>7. Counted'
  BY <1>2, <1>3, Parts, FS_EmptySet DEF Counted, ReqBecomes, Attached, Connected
<1>8. SessionInv'
  <2>1. /\ req.n \in 1 .. MaxConns /\ req.proxy \in BOOLEAN
        /\ client.keys = issued[req.n].keys
        /\ AccessPSK(client.secret, client.hCertV) = issued[req.n].psk
    BY Parts, ReqFields, OwnNumber DEF ClientHonest, Attached
  <2>2. /\ wmpf'.n = req.n /\ wmpf'.keys = client.keys /\ wmpf'.proxy = req.proxy
        /\ wmpf'.psk = AccessPSK(client.secret, client.hCertV) /\ wmpf'.targets = targets
    BY <1>2
  <2>3. wmpf' # None
    BY <1>2, <2>2 DEF None
  <2>4. wmpf' \in [n : 1 .. MaxConns, keys : {wmpf'.keys}, proxy : BOOLEAN,
                   psk : {wmpf'.psk}, targets : {wmpf'.targets}]
    BY <1>2, <2>1, <2>2
  <2>5. KeysShared' /\ ProxyKept'
    BY <1>2, <2>1, <2>2 DEF KeysShared, ProxyKept
  <2> QED  BY <1>1, <1>3, <2>2, <2>3, <2>4, <2>5
           DEF SessionInv, SessionKept, ReqBecomes, Attached, Connected
<1>9. Awaited'
  BY <1>3, Parts, NotSending DEF ReqBecomes, shortlink
<1> QED  BY <1>3, <1>4, <1>5, <1>6, <1>7, <1>8, <1>9, Whole

\* resolveTargets answers from the cache or from the name service.
LEMMA ResolvingKeeps ==
  ASSUME LinkInv, ResolveCached \/ ResolveAnswered
  PROVE  LinkInv'
<1>1. PICK answer \in Answers : /\ Resolved(answer) /\ dnsCache' \in Answers \cup {None}
                                /\ UNCHANGED <<cause, issued, shortlink>>
  BY Parts DEF ResolveCached, ResolveAnswered, RestShaped
<1>2. req.at \in {"resolving", "resolvingShort"}
  BY <1>1 DEF Resolved
<1> QED  BY <1>1, <1>2, ResolvedLong, ResolvedSession

\* A step that moves the request without a connection.
LEMMA WithoutConnection ==
  ASSUME LinkInv, req.at \in {"resolving", "dialing"}, req'.at \in {"idle", "resolving", "dialing"},
         ReqShaped', Counted', UNCHANGED <<link, issued, wmpf, cause, shortlink>>,
         dnsCache' \in Answers \cup {None}, req'.proxy = req.proxy, conns' \in {{}, conns}
  PROVE  LinkInv'
<1>1. RestShaped'
  BY Parts, RestStays DEF shortlink, RestShaped
<1>2. ClientShaped' /\ ServerShaped' /\ WireShaped'
  BY Parts, LinkStill
<1>3. Quiet' /\ ServerHonest' /\ ClientHonest' /\ Agreed'
  BY Parts, StillParted DEF Elsewhere, link
<1>4. SessionInv'
  BY Parts DEF SessionInv, SessionKept, KeysShared, ProxyKept, Attached, Connected
<1>5. Awaited'
  BY Parts, NotSending DEF shortlink
<1> QED  BY <1>1, <1>2, <1>3, <1>4, <1>5, Whole

\* The name service does not answer; the next one, or the built-in target, is used.
LEMMA ResolveFailsKeeps ==
  ASSUME LinkInv, ResolveFails
  PROVE  LinkInv'
<1>0. dnsCache' \in Answers \cup {None} /\ UNCHANGED <<cause, issued, shortlink>>
  BY Parts DEF ResolveFails, RestShaped
<1>1. CASE req.at = "resolvingShort" /\ Resolved(NoTargets)
  BY <1>0, <1>1, ResolvedSession
<1>2. CASE req.tries = 2 /\ req' = [req EXCEPT !.tries = 1] /\ UNCHANGED <<conns, wmpf, link>>
  <2>1. ReqShaped' /\ ReqBecomes(req.at, req.proxy, 1, req.left, req.n, req.logins)
    BY <1>2, Parts, ReqTried
  <2>2. Counted'
    BY <1>2, <2>1, Parts, CountedStays DEF ReqBecomes
  <2>3. CASE req.at = "resolving"
    BY <1>0, <1>2, <2>1, <2>2, <2>3, WithoutConnection DEF ReqBecomes
  <2>4. CASE req.at = "resolvingShort"
    <3>1. RestShaped'
      BY <1>0, Parts, RestStays DEF shortlink, RestShaped
    <3>2. /\ ClientShaped' /\ ServerShaped' /\ WireShaped'
          /\ client' = client /\ server' = server /\ wire' = wire
      BY <1>2, Parts, LinkStill
    <3>3. Attached /\ Attached' /\ ~Connected'
      BY <2>1, <2>4 DEF Attached, Connected, ReqBecomes
    <3>4. SessionInv'
      BY <1>0, <1>2, <2>1, Parts, SessionStays DEF ReqBecomes
    <3>5. ServerHonest'
      BY <1>0, <2>1, <3>2, <3>3, Parts, ServerStays DEF ReqBecomes, ServerHonest
    <3>6. ClientHonest'
      BY <1>0, <2>1, <2>4, <3>2, Parts DEF ClientHonest, ReqBecomes
    <3>7. Quiet' /\ Awaited' /\ Agreed'
      BY <1>0, <3>3, Parts, AttachedQuiet, NotSending, AgreedVoid DEF shortlink
    <3> QED  BY <2>1, <2>2, <3>1, <3>2, <3>4, <3>5, <3>6, <3>7, Whole
  <2> QED  BY <2>3, <2>4 DEF ResolveFails
<1>3. CASE req.at = "resolving" /\ Proceed("idle") /\ UNCHANGED <<conns, wmpf, link>>
  <2>1. ReqShaped' /\ ReqBecomes("idle", req.proxy, req.tries, req.left, req.n, req.logins)
    BY <1>3, Parts, ReqMoved DEF Proceed, Stages
  <2>2. Counted'
    BY <1>3, <2>1, Parts DEF ReqBecomes, Counted, Attached, Connected
  <2> QED  BY <1>0, <1>3, <2>1, <2>2, WithoutConnection DEF ReqBecomes
<1> QED  BY <1>1, <1>2, <1>3 DEF ResolveFails

\* dialTCP fails; the next target is tried.
LEMMA DialFailsKeeps ==
  ASSUME LinkInv, DialFails
  PROVE  LinkInv'
<1>1. /\ req.at = "dialing" /\ req.left # <<>> /\ req' = [req EXCEPT !.left = Tail(req.left)]
      /\ UNCHANGED <<dnsCache, conns, link, cause, issued, wmpf, shortlink>>
  BY DEF DialFails
<1>2. /\ Line(req.left) /\ Line(Tail(req.left)) /\ Len(Tail(req.left)) = Len(req.left) - 1
      /\ Len(req.left) \in Nat \ {0}
  BY <1>1, Parts, ReqFields, LineTail
<1>3. ReqShaped' /\ ReqBecomes("dialing", req.proxy, req.tries, Tail(req.left), req.n, req.logins)
  BY <1>1, <1>2, Parts, ReqLeft
<1>4. Counted'
  <2>1. /\ req.n + Len(Tail(req.left)) <= MaxTargets * req.logins
        /\ Cardinality(conns) + Len(Tail(req.left)) <= MaxTargets
    <3>1. /\ req.n \in Nat /\ Cardinality(conns) \in Nat /\ MaxTargets \in Nat
          /\ MaxTargets * req.logins \in Nat
          /\ req.n + Len(req.left) <= MaxTargets * req.logins
          /\ Cardinality(conns) + Len(req.left) <= MaxTargets
      BY <1>1, Parts, ReqFields, Numbers, FS_CardinalityType DEF Counted
    <3>2. \A n, m, l \in Nat : n + l <= m => n + (l - 1) <= m
      OBVIOUS
    <3>3. req.n + (Len(req.left) - 1) <= MaxTargets * req.logins
      BY <1>2, <3>1, <3>2
    <3>4. Cardinality(conns) + (Len(req.left) - 1) <= MaxTargets
      BY <1>2, <3>1, <3>2
    <3> QED  BY <1>2, <3>3, <3>4
  <2> QED  BY <1>1, <1>3, <2>1, Parts DEF Counted, ReqBecomes, Attached, Connected
<1>5. dnsCache' \in Answers \cup {None}
  BY <1>1, Parts DEF RestShaped
<1> QED  BY <1>1, <1>3, <1>4, <1>5, WithoutConnection DEF ReqBecomes

\* No target is left, and the login has failed.
LEMMA LoginGivesUpKeeps ==
  ASSUME LinkInv, LoginGivesUp
  PROVE  LinkInv'
<1>1. /\ req.at = "dialing" /\ conns' = {} /\ req' = [req EXCEPT !.at = "idle"]
      /\ UNCHANGED <<dnsCache, link, cause, issued, wmpf, shortlink>>
  BY DEF LoginGivesUp, Proceed
<1>2. ReqShaped' /\ ReqBecomes("idle", req.proxy, req.tries, req.left, req.n, req.logins)
  BY <1>1, Parts, ReqMoved DEF Stages
<1>3. Counted'
  BY <1>1, <1>2, Parts, FS_EmptySet DEF Counted, ReqBecomes, Attached, Connected
<1>4. dnsCache' \in Answers \cup {None}
  BY <1>1, Parts DEF RestShaped
<1> QED  BY <1>1, <1>2, <1>3, <1>4, WithoutConnection DEF ReqBecomes

\* The name cache changes under a request that has not asked yet.
LEMMA OthersResolveKeeps ==
  ASSUME LinkInv, OthersResolve
  PROVE  LinkInv'
<1>1. /\ dnsCache' \in Answers \cup {None}
      /\ UNCHANGED <<req, conns, client, server, wire, cause, issued, wmpf, executed, unheard>>
  BY DEF OthersResolve, link, shortlink
<1>2. ReqShaped' /\ ClientShaped' /\ ServerShaped' /\ WireShaped' /\ RestShaped'
  BY <1>1, Parts DEF ReqShaped, ClientShaped, ServerShaped, WireShaped, RestShaped
<1>3. Counted' /\ Quiet' /\ ClientHonest'
  BY <1>1, Parts DEF Counted, Quiet, ClientHonest, Attached, Connected
<1>4. ServerHonest'
  BY <1>1, Parts DEF ServerHonest, FromServer, SessionKeys, Attached, Connected
<1>5. SessionInv'
  BY <1>1, Parts, SessionStays
<1>6. ~Connected' /\ req'.at \notin {"sending", "awaiting"}
  BY <1>1 DEF OthersResolve, Connected
<1>7. Agreed' /\ Awaited'
  BY <1>1, <1>6, Parts, AgreedVoid, NotSending
<1> QED  BY <1>2, <1>3, <1>4, <1>5, <1>7, Whole

----------------------------------------------------------------------------
(* Connections *)

\* The connection a request has goes on, or has done its work.
LEMMA OnConnection ==
  ASSUME LinkInv, Attached, Attached', UNCHANGED <<conns, wmpf, shortlink>>,
         req'.n = req.n, req'.left = req.left, req'.logins = req.logins, req'.proxy = req.proxy
  PROVE  Counted' /\ SessionInv' /\ Quiet' /\ Awaited'
<1>1. Counted'
  BY Parts, CountedStays
<1>2. wmpf = None
  BY Parts DEF SessionInv
<1>3. SessionInv'
  BY <1>2, Parts, SessionStays
<1>4. Quiet' /\ Awaited'
  BY Parts, AttachedQuiet, NotSending DEF shortlink
<1> QED  BY <1>1, <1>3, <1>4

\* What is said on a connection depends on its number alone.
LEMMA SameTerms ==
  ASSUME req'.n = req.n
  PROVE  /\ ClientHello' = ClientHello /\ SessionKeys' = SessionKeys /\ LoginRequest' = LoginRequest
         /\ LoginResponse(LoginRequest)' = LoginResponse(LoginRequest)
         /\ \A end : Share(end)' = Share(end)
  BY DEF ClientHello, SessionKeys, LoginRequest, LoginResponse, Share

\* What WeChat has answered stays answered.
LEMMA GreetedStays ==
  ASSUME Greeted, server' = server, req'.n = req.n
  PROVE  Greeted'
  BY SameTerms DEF Greeted

\* A connection is up: both of its ends are new.
LEMMA DialKeeps ==
  ASSUME LinkInv, Dial
  PROVE  LinkInv'
<1>1. /\ req.at = "dialing" /\ req.left # <<>>
      /\ req' = [req EXCEPT !.at = "opening", !.n = @ + 1]
      /\ client' = NewClient /\ server' = NewServer /\ wire' = NewWire /\ cause' = FALSE
      /\ UNCHANGED <<dnsCache, issued, wmpf, shortlink>>
  BY DEF Dial
<1>2. PICK route \in Routes(req.proxy, TCPProxyFallbackDirect) :
         conns' = conns \cup {[n |-> req.n + 1, via |-> route]}
  BY DEF Dial
<1>3. ReqShaped' /\ ReqBecomes("opening", req.proxy, req.tries, req.left, req.n + 1, req.logins)
  BY <1>1, Parts, ReqDialed DEF Stages
<1>4. Attached' /\ Connected'
  BY <1>3 DEF Attached, Connected, ReqBecomes
<1>5. /\ ClientShaped' /\ ServerShaped' /\ WireShaped'
      /\ ServerBecomes("accepting", <<>>, <<>>, <<>>, 0, 0) /\ WireBecomes(<<>>, <<>>, TRUE)
  BY <1>1, ClientNew, ServerNew, WireNew
<1>6. RestShaped'
  BY <1>1, Parts, RestStays DEF shortlink, RestShaped
<1>7. route \in {"proxy", "direct"} /\ (route = "direct" => ~req.proxy \/ TCPProxyFallbackDirect)
  <2>1. req.proxy \in BOOLEAN /\ TCPProxyFallbackDirect \in BOOLEAN
    BY Parts, ReqFields, MmtlsLoginAssumption
  <2> QED  BY <1>2, <2>1 DEF Routes
<1>8. Counted'
  <2>1. /\ req.n \in Nat /\ Cardinality(conns) \in Nat /\ MaxTargets \in Nat /\ MaxConns \in Nat
        /\ MaxTargets * req.logins \in Nat /\ MaxTargets * req.logins <= MaxConns
        /\ req.n + Len(req.left) <= MaxTargets * req.logins
        /\ Cardinality(conns) + Len(req.left) <= MaxTargets
        /\ IsFiniteSet(conns) /\ conns \subseteq [n : 1 .. MaxConns, via : {"proxy", "direct"}]
        /\ req.logins <= MaxLogins
    BY <1>1, Parts, ReqFields, Numbers, FS_CardinalityType DEF Counted
  <2>2. Len(req.left) \in Nat \ {0}
    BY <1>1, Parts, ReqFields, LineTail
  <2>3. /\ req.n + 1 \in 1 .. MaxConns /\ req.n + 1 >= 1 /\ req.n + 1 <= MaxTargets * req.logins
        /\ req.n + 1 + Len(req.left) <= MaxTargets * req.logins + 1
    <3>1. req.n \in Nat /\ MaxTargets * req.logins \in Nat /\ MaxConns \in Nat
      BY <2>1, Parts, Numbers
    <3>2. \A n, m, c \in Nat, l \in Nat \ {0} :
             n + l <= m /\ m <= c =>
                /\ n + 1 \in 1 .. c /\ n + 1 >= 1 /\ n + 1 <= m
                /\ n + 1 + l <= m + 1
      OBVIOUS
    <3> QED  BY <2>1, <2>2, <3>1, <3>2
  <2>4. /\ IsFiniteSet(conns') /\ Cardinality(conns') <= Cardinality(conns) + 1
        /\ Cardinality(conns') \in Nat
    <3>1. IsFiniteSet(conns')
      BY <1>2, <2>1, FS_AddElement
    <3>2. Cardinality(conns') \in Nat
      BY <3>1, FS_CardinalityType
    <3>3. Cardinality(conns') \in {Cardinality(conns), Cardinality(conns) + 1}
      BY <1>2, <2>1, FS_AddElement
    <3> QED  BY <2>1, <3>1, <3>2, <3>3
  <2>5. Cardinality(conns') + Len(req.left) <= MaxTargets + 1
    BY <2>1, <2>2, <2>4
  <2>6. conns' \subseteq [n : 1 .. MaxConns, via : {"proxy", "direct"}]
    BY <1>2, <1>7, <2>1, <2>3
  <2> QED  BY <1>1, <1>3, <2>1, <2>3, <2>4, <2>5, <2>6 DEF Counted, ReqBecomes, Attached, Connected
<1>9. SessionInv'
  <2>1. wmpf = None /\ ProxyKept
    BY <1>1, Parts DEF SessionInv, SessionKept
  <2>2. ProxyKept'
    BY <1>1, <1>2, <1>3, <1>7, <2>1 DEF ProxyKept, ReqBecomes
  <2> QED  BY <1>1, <1>3, <2>1, <2>2 DEF SessionInv, SessionKept, KeysShared, ReqBecomes
<1>10. ServerHonest'
  BY <1>5, LineEmpty DEF ServerHonest, ServerBecomes, WireBecomes
<1>11. ClientHonest'
  BY <1>1, <1>3 DEF ClientHonest, ReqBecomes
<1>12. Agreed'
  BY <1>1, <1>3, <1>5 DEF Agreed, ReqBecomes, WireBecomes
<1>13. Quiet' /\ Awaited'
  BY <1>1, <1>4, Parts, AttachedQuiet, NotSending DEF shortlink
<1> QED  BY <1>3, <1>5, <1>6, <1>8, <1>9, <1>10, <1>11, <1>12, <1>13, Whole

\* The hello is on its way, the first record of the client.
LEMMA SendClientHelloKeeps ==
  ASSUME LinkInv, SendClientHello
  PROVE  LinkInv'
<1>1. /\ req.at = "opening" /\ req' = [req EXCEPT !.at = "flight"]
      /\ client' = [client EXCEPT !.transcript = <<ClientHello>>, !.tx = @ + 1]
      /\ wire' = [wire EXCEPT !.up = Append(wire.up, Plain(ClientHello))]
      /\ UNCHANGED <<dnsCache, conns, server, cause, issued, wmpf, shortlink>>
  BY DEF SendClientHello, Proceed
<1>2. ReqShaped' /\ ReqBecomes("flight", req.proxy, req.tries, req.left, req.n, req.logins)
  BY <1>1, Parts, ReqMoved DEF Stages
<1>3. Attached /\ Attached' /\ Connected
  BY <1>1, <1>2 DEF Attached, Connected, ReqBecomes
<1>4. client = NewClient
  BY <1>1, Parts DEF ClientHonest
<1>5. /\ ClientShaped'
      /\ ClientBecomes(<<ClientHello>>, <<>>, <<>>, <<>>, <<>>, {}, <<>>, 1, 0)
  <2>1. client.tx < 3
    BY <1>4 DEF NewClient
  <2>2. /\ ClientShaped'
        /\ ClientBecomes(<<ClientHello>>, client.secret, client.hChSh, client.hCertV, client.hFinal,
                         client.tickets, client.keys, client.tx + 1, client.rx)
    BY <1>1, <2>1, Parts, ClientSaidHello
  <2> QED  BY <1>4, <2>2 DEF NewClient, ClientBecomes
<1>6. WireShaped' /\ WireBecomes(Append(wire.up, Plain(ClientHello)), wire.down, wire.open)
  BY <1>1, Parts, WireFields, LineAppend, WireUp
<1>7. RestShaped' /\ ServerShaped'
  BY <1>1, Parts, RestStays DEF shortlink, RestShaped, ServerShaped
<1>8. Counted' /\ SessionInv' /\ Quiet' /\ Awaited'
  BY <1>1, <1>2, <1>3, OnConnection DEF ReqBecomes
<1>9. ServerHonest'
  BY <1>1, <1>2, <1>3, <1>6, Parts, ServerStays DEF ReqBecomes, WireBecomes, ServerHonest
<1>10. ClientHonest'
  BY <1>2, <1>5, LineOne DEF ClientHonest, ReqBecomes, ClientBecomes
<1>11. Agreed'
  <2>1. CASE cause
    BY <1>1, <2>1, AgreedVoid
  <2>2. CASE ~cause
    <3>1. server = NewServer /\ wire = NewWire
      BY <1>1, <1>3, <2>2, Parts DEF Agreed
    <3>2. wire'.up = <<Plain(ClientHello)>> /\ wire'.down = <<>> /\ wire'.open
      BY <1>6, <3>1 DEF WireBecomes, NewWire
    <3>3. client' = [NewClient EXCEPT !.transcript = <<ClientHello>>, !.tx = 1]
      BY <1>1, <1>4 DEF NewClient
    <3>4. ClientHello' = ClientHello
      BY <1>2, SameTerms DEF ReqBecomes
    <3> QED  BY <1>1, <1>2, <3>1, <3>2, <3>3, <3>4 DEF Agreed, ReqBecomes, Plain
  <2> QED  BY <2>1, <2>2
<1> QED  BY <1>2, <1>5, <1>6, <1>7, <1>8, <1>9, <1>10, <1>11, Whole

\* The attempt on a target is given up with everything that was derived on it.
LEMMA AttemptFailsKeeps ==
  ASSUME LinkInv, AttemptFails
  PROVE  LinkInv'
<1>1. /\ Connected /\ req' = [req EXCEPT !.at = "dialing", !.left = Tail(req.left)]
      /\ conns' \subseteq conns /\ Forget
      /\ UNCHANGED <<dnsCache, cause, issued, wmpf, shortlink>>
  BY DEF AttemptFails, Connected
<1>2. Attached
  BY <1>1 DEF Attached
<1>3. /\ Line(req.left) /\ Line(Tail(req.left)) /\ Len(Tail(req.left)) = Len(req.left) - 1
      /\ Len(req.left) \in Nat \ {0}
  BY <1>2, Parts, OwnNumber, LineTail
<1>4. ReqShaped' /\ ReqBecomes("dialing", req.proxy, req.tries, Tail(req.left), req.n, req.logins)
  BY <1>1, <1>3, Parts, ReqMovedLeft DEF Stages
<1>5. ClientShaped' /\ ServerShaped' /\ WireShaped'
  BY <1>1, ForgetAll
<1>6. RestShaped'
  BY <1>1, Parts, RestStays DEF shortlink, RestShaped
<1>7. Quiet' /\ ServerHonest' /\ ClientHonest' /\ Agreed'
  BY <1>1, <1>4, Parted DEF ReqBecomes, Elsewhere, Forget
<1>8. Counted'
  <2>1. /\ req.n \in Nat /\ Cardinality(conns) \in Nat /\ MaxTargets \in Nat
        /\ MaxTargets * req.logins \in Nat
        /\ req.n + Len(req.left) <= MaxTargets * req.logins + 1
        /\ Cardinality(conns) + Len(req.left) <= MaxTargets + 1
        /\ IsFiniteSet(conns) /\ conns \subseteq [n : 1 .. MaxConns, via : {"proxy", "direct"}]
        /\ req.logins <= MaxLogins /\ req.n <= MaxTargets * req.logins
    BY <1>2, Parts, ReqFields, Numbers, FS_CardinalityType DEF Counted
  <2>2. /\ IsFiniteSet(conns') /\ Cardinality(conns') <= Cardinality(conns)
        /\ Cardinality(conns') \in Nat
    BY <1>1, <2>1, FS_Subset, FS_CardinalityType
  <2>3. /\ req.n + Len(Tail(req.left)) <= MaxTargets * req.logins
        /\ Cardinality(conns') + Len(Tail(req.left)) <= MaxTargets
    <3>1. Len(req.left) \in Nat \ {0} /\ Len(Tail(req.left)) = Len(req.left) - 1
      BY <1>3
    <3>2. \A n, m, l \in Nat : n + l <= m + 1 => n + (l - 1) <= m
      OBVIOUS
    <3>3. req.n + (Len(req.left) - 1) <= MaxTargets * req.logins
      BY <2>1, <3>1, <3>2
    <3>4. Cardinality(conns) + (Len(req.left) - 1) <= MaxTargets
      BY <2>1, <3>1, <3>2
    <3>5. Cardinality(conns') + (Len(req.left) - 1) <= MaxTargets
      BY <2>1, <2>2, <3>1, <3>4
    <3> QED  BY <3>1, <3>3, <3>5
  <2>4. conns' \subseteq [n : 1 .. MaxConns, via : {"proxy", "direct"}]
    BY <1>1, <2>1
  <2> QED  BY <1>4, <2>1, <2>2, <2>3, <2>4 DEF Counted, ReqBecomes, Attached, Connected
<1>9. SessionInv'
  <2>1. wmpf = None /\ ProxyKept /\ req.at # "awaiting"
    BY <1>1, <1>2, Parts DEF SessionInv, SessionKept, Connected
  <2>2. ProxyKept'
    BY <1>1, <1>4, <2>1 DEF ProxyKept, ReqBecomes
  <2> QED  BY <1>1, <1>4, <2>1, <2>2 DEF SessionInv, SessionKept, KeysShared, ReqBecomes
<1>10. Awaited'
  BY <1>1, <1>4, Parts, NotSending DEF ReqBecomes, shortlink
<1> QED  BY <1>4, <1>5, <1>6, <1>7, <1>8, <1>9, <1>10, Whole

\* What a received record says, and what is left on the wire.
LEMMA Taken ==
  ASSUME LinkInv, Arrived, Take, Attached
  PROVE  /\ WireShaped' /\ WireBecomes(wire.up, Tail(wire.down), wire.open)
         /\ Len(wire.down) \in Nat \ {0} /\ Len(Tail(wire.down)) = Len(wire.down) - 1
         /\ \A i \in 1 .. Len(wire.down) - 1 : Tail(wire.down)[i] = wire.down[i + 1]
         /\ FromServer(Received) /\ server.at # "accepting"
         /\ \A i \in DOMAIN wire'.down : \E j \in DOMAIN wire.down : wire'.down[i] = wire.down[j]
<1>1. /\ Line(wire.down) /\ Line(Tail(wire.down)) /\ Len(wire.down) \in Nat \ {0}
      /\ Len(Tail(wire.down)) = Len(wire.down) - 1
      /\ \A i \in 1 .. Len(wire.down) - 1 : Tail(wire.down)[i] = wire.down[i + 1]
  BY Parts, WireFields, LineTail DEF Arrived
<1>2. WireShaped' /\ WireBecomes(wire.up, Tail(wire.down), wire.open)
  BY <1>1, Parts, WireDown DEF Take
<1>3. 1 \in DOMAIN wire.down /\ DOMAIN wire.down = 1 .. Len(wire.down)
      /\ DOMAIN Tail(wire.down) = 1 .. Len(wire.down) - 1
  BY <1>1 DEF Line
<1>4. FromServer(Received) /\ server.at # "accepting"
  BY <1>3, Parts DEF ServerHonest, Received, Arrived
<1>5. ASSUME NEW i \in DOMAIN wire'.down
      PROVE  \E j \in DOMAIN wire.down : wire'.down[i] = wire.down[j]
  <2>1. i \in 1 .. Len(wire.down) - 1 /\ wire'.down[i] = wire.down[i + 1]
    BY <1>1, <1>2, <1>3 DEF WireBecomes
  <2>2. i + 1 \in DOMAIN wire.down
    BY <1>1, <1>3, <2>1
  <2> QED  BY <2>1, <2>2
<1> QED  BY <1>1, <1>2, <1>4, <1>5

----------------------------------------------------------------------------
(* The server's hello and its flight *)

\* Undisturbed, the record that has arrived in the flight is the next one.
LEMMA AgreedFlight ==
  ASSUME LinkInv, req.at = "flight", ~cause, Arrived
  PROVE  /\ Greeted /\ FlightDue /\ server.at = "greeted" /\ server.rx = 1 /\ wire.up = <<>>
         /\ wire.open /\ Received = FlightRecord(client.rx)
         /\ client.rx \in Nat /\ Len(server.hFinal) \in Nat /\ Len(wire.down) \in Nat \ {0}
         /\ (client.secret = <<>> <=> client.rx = 0)
<1>1. Connected
  BY DEF Connected
<1>2. /\ Greeted /\ FlightDue /\ server.at = "greeted" /\ server.rx = 1 /\ wire.up = <<>>
      /\ wire.open
  BY <1>1, Parts DEF Agreed, Arrived
<1>3. client.rx \in Nat /\ Len(server.hFinal) \in Nat /\ Len(wire.down) \in Nat \ {0}
  BY <1>2, Parts, ClientFields, WireFields, LineTail DEF Greeted, Arrived, Line
<1>4. wire.down[1] = FlightRecord(client.rx + 1 - 1)
  BY <1>2, <1>3 DEF FlightDue
<1>5. Received = FlightRecord(client.rx)
  BY <1>3, <1>4 DEF Received
<1>6. server.secret # <<>>
  BY <1>2 DEF Greeted, Secret
<1>7. client.secret = <<>> <=> client.rx = 0
  BY <1>2, <1>3, <1>6 DEF FlightDue
<1> QED  BY <1>2, <1>3, <1>5, <1>7

\* The flight that is left after a record was taken.
LEMMA FlightTaken ==
  ASSUME LinkInv, req.at = "flight", ~cause, Arrived, Take, server' = server, req'.n = req.n,
         client'.rx = client.rx + 1
  PROVE  /\ Len(wire'.down) = Len(server.hFinal) - client'.rx
         /\ \A i \in 1 .. Len(wire'.down) : wire'.down[i] = (FlightRecord(client.rx + i - 1))'
<1>1. /\ client.rx \in Nat /\ Len(server.hFinal) \in Nat
      /\ Len(wire.down) = Len(server.hFinal) - client.rx
      /\ \A i \in 1 .. Len(wire.down) : wire.down[i] = FlightRecord(client.rx + i - 1)
  BY AgreedFlight DEF FlightDue
<1>2. /\ wire'.down = Tail(wire.down) /\ Len(wire.down) \in Nat \ {0}
      /\ Len(Tail(wire.down)) = Len(wire.down) - 1
      /\ \A i \in 1 .. Len(wire.down) - 1 : Tail(wire.down)[i] = wire.down[i + 1]
  BY Taken DEF Attached, Connected, WireBecomes
<1>3. ASSUME NEW i \in 1 .. Len(wire.down) - 1
      PROVE  wire'.down[i] = (FlightRecord(client.rx + i - 1))'
  <2>1. i + 1 \in 1 .. Len(wire.down) /\ client.rx + (i + 1) - 1 = (client.rx + 1) + i - 1
    <3>1. i \in Int /\ 1 <= i /\ i <= Len(wire.down) - 1 /\ Len(wire.down) \in Int
      BY <1>2
    <3>2. client.rx \in Int
      BY <1>1
    <3> QED  BY <3>1, <3>2
  <2>2. wire'.down[i] = FlightRecord((client.rx + 1) + i - 1)
    BY <1>1, <1>2, <2>1
  <2> QED  BY <2>2 DEF FlightRecord, Fed, ServerFinished
<1>4. Len(wire'.down) = Len(wire.down) - 1
  BY <1>2
<1>5. Len(wire'.down) = Len(server.hFinal) - client'.rx
  BY <1>1, <1>4
<1>6. \A i \in 1 .. Len(wire'.down) : wire'.down[i] = (FlightRecord(client.rx + i - 1))'
  BY <1>3, <1>4
<1> QED  BY <1>5, <1>6

\* A secret that was agreed on is not the empty one of a new client.
LEMMA SecretSome == \A a, b : Secret(a, b) # <<>>
  BY DEF Secret

\* The client takes the server's hello; undisturbed, both have the same secret now.
LEMMA RecvServerHelloKeeps ==
  ASSUME LinkInv, RecvServerHello
  PROVE  LinkInv'
<1> DEFINE transcript == Append(client.transcript, Received.msg)
           secret == Secret(Share("client"), Received.msg.data)
<1>1. /\ req.at = "flight" /\ client.secret = <<>> /\ Arrived /\ Take
      /\ client' = [client EXCEPT !.transcript = transcript, !.hChSh = transcript, !.rx = @ + 1,
                                  !.secret = secret]
      /\ UNCHANGED <<dnsCache, req, conns, server, cause, issued, wmpf, shortlink>>
  BY DEF RecvServerHello
<1>2. /\ Line(client.transcript) /\ Len(client.transcript) = 1 /\ client.hCertV = <<>>
      /\ client.tx = 1
  BY <1>1, Parts DEF ClientHonest
<1>3. Line(transcript) /\ Len(transcript) = 2
  <2>1. Line(transcript) /\ Len(transcript) = Len(client.transcript) + 1
    BY <1>2, LineAppend
  <2> QED  BY <1>2, <2>1
<1>4. secret # <<>>
  BY SecretSome
<1> HIDE DEF transcript, secret
<1>5. /\ ClientShaped'
      /\ ClientBecomes(transcript, secret, transcript, client.hCertV, client.hFinal,
                       client.tickets, client.keys, client.tx, client.rx + 1)
  BY <1>1, Parts, ClientHeardHello
<1>6. Attached /\ Attached' /\ Connected /\ Connected'
  BY <1>1 DEF Attached, Connected
<1>7. /\ WireShaped' /\ WireBecomes(wire.up, Tail(wire.down), wire.open) /\ server.at # "accepting"
      /\ \A i \in DOMAIN wire'.down : \E j \in DOMAIN wire.down : wire'.down[i] = wire.down[j]
  BY <1>1, <1>6, Taken
<1>8. ReqShaped' /\ RestShaped' /\ ServerShaped'
  BY <1>1, Parts, RestStays DEF shortlink, RestShaped, ServerShaped, ReqShaped
<1>9. Counted' /\ SessionInv' /\ Quiet' /\ Awaited'
  BY <1>1, <1>6, OnConnection
<1>10. ServerHonest'
  BY <1>1, <1>6, <1>7, Parts, ServerStays
<1>11. ClientHonest'
  <2>1. /\ client'.tx = 1 /\ Line(client'.transcript) /\ client'.secret # <<>>
        /\ Len(client'.transcript) >= 2 /\ client'.hCertV = <<>> /\ req'.at = "flight"
    <3>1. /\ client'.tx = client.tx /\ client'.transcript = transcript /\ client'.secret = secret
          /\ client'.hCertV = client.hCertV
      BY <1>5 DEF ClientBecomes
    <3>2. req'.at = "flight" /\ client'.tx = 1 /\ client'.hCertV = <<>> /\ client'.secret # <<>>
      BY <1>1, <1>2, <1>4, <3>1
    <3>3. Line(client'.transcript) /\ Len(client'.transcript) = 2
      BY <1>3, <3>1
    <3> QED  BY <3>2, <3>3
  <2> QED  BY <2>1 DEF ClientHonest
<1>12. ASSUME ~cause PROVE Agreed'
  <2>1. /\ Greeted /\ FlightDue /\ server.at = "greeted" /\ server.rx = 1 /\ wire.up = <<>>
        /\ wire.open /\ Received = FlightRecord(client.rx) /\ client.rx = 0
        /\ Len(server.hFinal) \in Nat
    BY <1>1, <1>12, AgreedFlight
  <2>2. /\ Line(server.hFinal) /\ Len(server.hFinal) > 2
        /\ server.hChSh = <<ClientHello, Msg("ServerHello", Share("server"))>>
        /\ server.hFinal[1] = server.hChSh[1] /\ server.hFinal[2] = server.hChSh[2]
        /\ server.secret = Secret(Share("client"), Share("server"))
    <3>1. PICK i \in 3 .. Len(server.hFinal) : server.hFinal[i].type = "CertVerify"
      BY <2>1 DEF Greeted
    <3>2. Len(server.hFinal) > 2
      BY <2>1, <3>1
    <3> QED  BY <2>1, <3>2 DEF Greeted
  <2>3. Received.msg = server.hFinal[2]
    BY <2>1, <2>2 DEF FlightRecord, Fed, Plain, Sealed
  <2>4. secret = server.secret
    BY <2>2, <2>3 DEF secret, Msg
  <2>5. client.transcript = SubSeq(server.hFinal, 1, 1)
    BY <2>1 DEF FlightDue
  <2>6. transcript = SubSeq(server.hFinal, 1, 2) /\ transcript = server.hChSh
    <3>1. /\ Line(SubSeq(server.hFinal, 1, 1)) /\ Len(SubSeq(server.hFinal, 1, 1)) = 1
          /\ SubSeq(server.hFinal, 1, 1)[1] = server.hFinal[1]
      BY <2>1, <2>2, LinePrefix
    <3>2. transcript[1] = server.hFinal[1] /\ transcript[2] = server.hFinal[2]
      BY <1>2, <2>3, <2>5, <3>1, LineAppend DEF transcript
    <3>3. /\ Line(SubSeq(server.hFinal, 1, 2)) /\ Len(SubSeq(server.hFinal, 1, 2)) = 2
          /\ SubSeq(server.hFinal, 1, 2)[1] = server.hFinal[1]
          /\ SubSeq(server.hFinal, 1, 2)[2] = server.hFinal[2]
      BY <2>1, <2>2, LinePrefix
    <3>4. \A i \in 1 .. 2 : /\ transcript[i] = SubSeq(server.hFinal, 1, 2)[i]
                            /\ transcript[i] = server.hChSh[i]
      BY <2>2, <3>2, <3>3
    <3>5. Line(server.hChSh) /\ Len(server.hChSh) = 2
      <4>1. server.hChSh = <<ClientHello, Msg("ServerHello", Share("server"))>>
        BY <2>2
      <4>2. /\ Line(<<ClientHello, Msg("ServerHello", Share("server"))>>)
            /\ Len(<<ClientHello, Msg("ServerHello", Share("server"))>>) = 2
        BY LineTwo
      <4> QED  BY <4>1, <4>2
    <3>6. Line(transcript) /\ Len(transcript) = 2
      BY <1>3
    <3> HIDE DEF transcript
    <3>7. transcript = SubSeq(server.hFinal, 1, 2)
      BY <3>3, <3>4, <3>6, LineEqual
    <3>8. transcript = server.hChSh
      BY <3>4, <3>5, <3>6, LineEqual
    <3> QED  BY <3>7, <3>8
  <2>7. client'.rx = client.rx + 1 /\ client'.rx = 1
    BY <1>5, <2>1 DEF ClientBecomes
  <2>8. /\ Len(wire'.down) = Len(server.hFinal) - client'.rx
        /\ \A i \in 1 .. Len(wire'.down) : wire'.down[i] = (FlightRecord(client.rx + i - 1))'
    BY <1>1, <1>12, <2>7, FlightTaken
  <2>9. FlightDue'
    <3>1. /\ server' = server /\ client'.transcript = SubSeq(server.hFinal, 1, 2)
          /\ client'.secret = server.secret /\ client'.hChSh = server.hChSh
      BY <1>1, <1>5, <2>4, <2>6 DEF ClientBecomes
    <3> QED  BY <2>1, <2>2, <2>7, <2>8, <3>1 DEF FlightDue
  <2>10. Greeted'
    BY <1>1, <2>1, GreetedStays
  <2>11. wire'.open /\ wire'.up = <<>> /\ server' = server /\ req'.at = "flight"
    BY <1>1, <1>7, <2>1 DEF WireBecomes
  <2> QED  BY <2>1, <2>9, <2>10, <2>11 DEF Agreed
<1>13. Agreed'
  BY <1>1, <1>12, AgreedVoid
<1> QED  BY <1>5, <1>7, <1>8, <1>9, <1>10, <1>11, <1>13, Whole

\* The client takes a message of the flight; undisturbed, its transcript is a prefix of
\* WeChat's, and with the Finished it is all of it.
LEMMA RecvFlightKeeps ==
  ASSUME LinkInv, RecvFlight
  PROVE  LinkInv'
<1> DEFINE msg == Received.msg
           transcript == Append(client.transcript, msg)
           hCertV == IF msg.type = "CertVerify" THEN transcript ELSE client.hCertV
           tickets == IF msg.type = "NewSessionTicket" THEN ToSet(msg.data) ELSE client.tickets
           hFinal == IF msg.type = "Finished" THEN client.transcript ELSE client.hFinal
           at == IF msg.type = "Finished" THEN "finishing" ELSE "flight"
<1>1. /\ req.at = "flight" /\ client.secret # <<>> /\ Arrived /\ Expected /\ Take
      /\ client' = [client EXCEPT !.transcript = transcript, !.rx = @ + 1, !.hCertV = hCertV,
                                  !.tickets = tickets, !.hFinal = hFinal]
      /\ req' = [req EXCEPT !.at = at]
      /\ UNCHANGED <<dnsCache, conns, server, cause, issued, wmpf, shortlink>>
  BY DEF RecvFlight, Proceed
<1>2. /\ Line(client.transcript) /\ Len(client.transcript) \in Nat /\ Len(client.transcript) >= 2
      /\ client.hCertV \in {<<>>, Certified(client.transcript)} /\ client.tx = 1
  BY <1>1, Parts DEF ClientHonest, Line
<1>3. Line(transcript) /\ Len(transcript) = Len(client.transcript) + 1
  BY <1>2, LineAppend
<1>4. Attached /\ Connected /\ at \in Stages
  BY <1>1 DEF Attached, Connected, Stages
<1>5. /\ WireShaped' /\ WireBecomes(wire.up, Tail(wire.down), wire.open) /\ server.at # "accepting"
      /\ \A i \in DOMAIN wire'.down : \E j \in DOMAIN wire.down : wire'.down[i] = wire.down[j]
      /\ FromServer(Received)
  BY <1>1, <1>4, Taken
<1>6. tickets \in TicketTypes \cup {{}}
  BY <1>5, Parts, ClientFields DEF FromServer
<1>7. hCertV \in {<<>>, Certified(transcript)}
  BY <1>2, CertifiedAppend
<1>8. msg.type = "Finished" => hCertV \in {<<>>, Certified(hFinal)}
  BY <1>2
<1>9. hCertV = <<>> => client.hCertV = <<>> /\ msg.type # "CertVerify"
  BY <1>2, LineAppend
<1>10. hFinal = IF at = "finishing" THEN client.transcript ELSE client.hFinal
  OBVIOUS
<1> HIDE DEF transcript, hCertV, tickets, hFinal
<1>11. /\ ClientShaped'
       /\ ClientBecomes(transcript, client.secret, client.hChSh, hCertV, hFinal,
                        tickets, client.keys, client.tx, client.rx + 1)
  BY <1>1, <1>6, Parts, ClientHeard
<1>12. ReqShaped' /\ ReqBecomes(at, req.proxy, req.tries, req.left, req.n, req.logins)
  BY <1>1, <1>4, Parts, ReqMoved
<1>13. Attached' /\ Connected' /\ req'.n = req.n /\ server' = server
  BY <1>1, <1>12 DEF Attached, Connected, ReqBecomes
<1>14. RestShaped' /\ ServerShaped'
  BY <1>1, Parts, RestStays DEF shortlink, RestShaped, ServerShaped
<1>15. Counted' /\ SessionInv' /\ Quiet' /\ Awaited'
  BY <1>1, <1>4, <1>12, <1>13, OnConnection DEF ReqBecomes
<1>16. ServerHonest'
  BY <1>1, <1>4, <1>5, <1>13, Parts, ServerStays
<1>17. ClientHonest'
  <2>1. /\ req'.at = at /\ client'.tx = 1 /\ client'.transcript = transcript
        /\ client'.secret = client.secret /\ client'.hCertV = hCertV /\ client'.hFinal = hFinal
    BY <1>2, <1>11, <1>12 DEF ClientBecomes, ReqBecomes
  <2>2. Line(client'.transcript) /\ Len(client'.transcript) >= 2
    <3>1. Line(client'.transcript) /\ Len(client'.transcript) = Len(client.transcript) + 1
      BY <1>3, <2>1
    <3> QED  BY <1>2, <3>1
  <2>3. client'.hCertV \in {<<>>, Certified(client'.transcript)}
    BY <1>7, <2>1
  <2>4. req'.at = "finishing" => client'.hCertV \in {<<>>, Certified(client'.hFinal)}
    BY <1>8, <2>1
  <2>5. req'.at \in {"flight", "finishing"} /\ client'.secret # <<>>
    BY <1>1, <2>1
  <2> QED  BY <2>1, <2>2, <2>3, <2>4, <2>5 DEF ClientHonest
<1>18. ASSUME ~cause PROVE Agreed'
  <2>1. /\ Greeted /\ FlightDue /\ server.at = "greeted" /\ server.rx = 1 /\ wire.up = <<>>
        /\ wire.open /\ Received = FlightRecord(client.rx) /\ client.rx # 0
        /\ client.rx \in Nat /\ Len(server.hFinal) \in Nat /\ Len(wire.down) \in Nat \ {0}
    BY <1>1, <1>18, AgreedFlight
  <2>2. /\ client.rx < Len(server.hFinal) /\ Len(wire.down) = Len(server.hFinal) - client.rx
        /\ client.transcript = SubSeq(server.hFinal, 1, client.rx + 1)
        /\ client.secret = server.secret /\ client.hChSh = server.hChSh /\ Line(server.hFinal)
    <3>1. client.rx > 0
      BY <2>1
    <3>2. Line(server.hFinal)
      BY <2>1 DEF Greeted
    <3> QED  BY <2>1, <3>1, <3>2 DEF FlightDue
  <2>3. /\ client'.rx = client.rx + 1 /\ client'.secret = server.secret
        /\ client'.hChSh = server.hChSh /\ client'.transcript = transcript
        /\ client'.hFinal = hFinal /\ client'.hCertV = hCertV /\ client'.tickets = tickets
    BY <1>11, <2>2 DEF ClientBecomes
  <2>4. /\ Len(wire'.down) = Len(server.hFinal) - client'.rx
        /\ \A i \in 1 .. Len(wire'.down) : wire'.down[i] = (FlightRecord(client.rx + i - 1))'
    BY <1>1, <1>13, <1>18, <2>3, FlightTaken
  <2>5. Greeted' /\ wire'.open /\ wire'.up = <<>> /\ Line(wire'.down)
    BY <1>5, <1>13, <2>1, GreetedStays DEF WireBecomes, WireShaped
  <2>6. msg = Fed(client.rx + 2)
    BY <2>1 DEF FlightRecord, Sealed
  <2>7. ASSUME NEW i \in 3 .. client.rx + 1
        PROVE  /\ server.hFinal[i].type = "CertVerify" => hCertV # <<>>
               /\ server.hFinal[i].type = "NewSessionTicket" => 1 \in client.tickets
    BY <1>9, <2>1, <2>7 DEF FlightDue
  <2>8. CASE client.rx + 2 <= Len(server.hFinal)
    <3>1. msg = server.hFinal[client.rx + 2] /\ client.rx + 2 \in 3 .. Len(server.hFinal)
      BY <2>1, <2>6, <2>8 DEF Fed
    <3>2. /\ msg.type # "Finished"
          /\ msg.type = "NewSessionTicket" => 1 \in ToSet(msg.data)
      BY <2>1, <3>1 DEF Greeted
    <3>3. req'.at = "flight"
      BY <1>12, <3>2 DEF ReqBecomes
    <3>4. transcript = SubSeq(server.hFinal, 1, client'.rx + 1)
      <4>1. client.rx + 1 \in 0 .. Len(server.hFinal) /\ client.rx + 2 \in 0 .. Len(server.hFinal)
        BY <2>1, <2>2, <2>8
      <4>2. /\ Line(SubSeq(server.hFinal, 1, client.rx + 2))
            /\ Len(SubSeq(server.hFinal, 1, client.rx + 2)) = client.rx + 2
            /\ \A i \in 1 .. client.rx + 2 :
                  SubSeq(server.hFinal, 1, client.rx + 2)[i] = server.hFinal[i]
        BY <2>2, <4>1, LinePrefix
      <4>3. /\ Len(client.transcript) = client.rx + 1
            /\ \A i \in 1 .. client.rx + 1 : client.transcript[i] = server.hFinal[i]
        BY <2>2, <4>1, LinePrefix
      <4>4. /\ Len(transcript) = client.rx + 2
            /\ transcript[client.rx + 2] = server.hFinal[client.rx + 2]
            /\ \A i \in 1 .. client.rx + 1 : transcript[i] = server.hFinal[i]
        <5>1. /\ transcript[Len(client.transcript) + 1] = msg
              /\ \A i \in 1 .. Len(client.transcript) : transcript[i] = client.transcript[i]
          BY <1>2, LineAppend DEF transcript
        <5>2. client.rx + 1 + 1 = client.rx + 2
          BY <2>1
        <5> QED  BY <1>3, <3>1, <4>3, <5>1, <5>2
      <4>5. \A i \in 1 .. client.rx + 2 : transcript[i] = server.hFinal[i]
        BY <2>1, <4>4
      <4>6. transcript = SubSeq(server.hFinal, 1, client.rx + 2)
        BY <1>3, <4>2, <4>4, <4>5, LineEqual
      <4>7. client'.rx + 1 = client.rx + 2
        BY <2>1, <2>3
      <4> QED  BY <4>6, <4>7
    <3>5. client'.rx < Len(server.hFinal) /\ client'.rx # 0 /\ client'.rx > 0
      BY <2>1, <2>3, <2>8
    <3>6. ASSUME NEW i \in 3 .. client'.rx + 1
          PROVE  /\ server.hFinal[i].type = "CertVerify" => hCertV # <<>>
                 /\ server.hFinal[i].type = "NewSessionTicket" => 1 \in tickets
      <4>1. CASE i = client.rx + 2
        BY <1>9, <3>1, <3>2, <4>1 DEF tickets
      <4>2. CASE i \in 3 .. client.rx + 1
        BY <2>7, <3>2, <4>2 DEF tickets
      <4>3. i = client.rx + 2 \/ i \in 3 .. client.rx + 1
        BY <2>1, <2>3
      <4> QED  BY <4>1, <4>2, <4>3
    <3>7. FlightDue'
      BY <1>13, <2>3, <2>4, <3>4, <3>5, <3>6 DEF FlightDue
    <3> QED  BY <1>13, <2>1, <2>5, <3>3, <3>7 DEF Agreed
  <2>9. CASE ~(client.rx + 2 <= Len(server.hFinal))
    <3>1. client.rx + 1 = Len(server.hFinal) /\ msg = ServerFinished
      BY <2>1, <2>2, <2>6, <2>9 DEF Fed
    <3>2. msg.type = "Finished"
      BY <3>1 DEF ServerFinished, Msg
    <3>3. req'.at = "finishing" /\ hFinal = client.transcript
      BY <1>12, <3>2 DEF ReqBecomes, hFinal
    <3>4. client.transcript = server.hFinal
      BY <2>2, <3>1, SubSeqFull DEF Line
    <3>5. hCertV # <<>> /\ 1 \in tickets
      <4>1. PICK i \in 3 .. Len(server.hFinal) : server.hFinal[i].type = "CertVerify"
        BY <2>1 DEF Greeted
      <4>2. PICK j \in 3 .. Len(server.hFinal) : server.hFinal[j].type = "NewSessionTicket"
        BY <2>1 DEF Greeted
      <4>3. i \in 3 .. client.rx + 1 /\ j \in 3 .. client.rx + 1
        BY <3>1
      <4>4. hCertV # <<>> /\ 1 \in client.tickets
        BY <2>7, <4>1, <4>2, <4>3
      <4> QED  BY <3>2, <4>4 DEF tickets
    <3>6. wire'.down = <<>>
      <4>1. Len(wire'.down) = 0
        BY <2>1, <2>3, <2>4, <3>1
      <4> QED  BY <2>5, <4>1, LineTail
    <3>7. Shook'
      BY <1>13, <2>3, <3>1, <3>3, <3>4, <3>5 DEF Shook
    <3> QED  BY <1>13, <2>1, <2>5, <3>3, <3>6, <3>7 DEF Agreed
  <2> QED  BY <2>8, <2>9
<1>19. Agreed'
  BY <1>1, <1>18, AgreedVoid
<1> QED  BY <1>5, <1>11, <1>12, <1>14, <1>15, <1>16, <1>17, <1>19, Whole

----------------------------------------------------------------------------
(* The client's Finished and the login *)

\* What a client sends goes behind what is under way.
LEMMA Sent ==
  ASSUME WireShaped, NEW key, NEW msg, Send(key, msg)
  PROVE  /\ WireShaped'
         /\ WireBecomes(Append(wire.up, Sealed(key, client.tx, msg)), wire.down, wire.open)
<1> DEFINE up == Append(wire.up, Sealed(key, client.tx, msg))
<1>1. Line(up)
  BY WireFields, LineAppend
<1>2. wire' = [wire EXCEPT !.up = up]
  BY DEF Send
<1> HIDE DEF up
<1>3. WireShaped' /\ WireBecomes(up, wire.down, wire.open)
  BY <1>1, <1>2, WireUp
<1> QED  BY <1>3 DEF up

\* The client sends a sealed record, and nothing else changes.
LEMMA SealedSent ==
  ASSUME LinkInv, NEW at \in {"authenticating", "answering"}, Proceed(at), NEW key, NEW msg,
         Send(key, msg), req.at \in {"finishing", "authenticating"}, client.tx < 3,
         client' = [client EXCEPT !.tx = @ + 1],
         UNCHANGED <<dnsCache, conns, server, cause, issued, wmpf, shortlink>>
  PROVE  /\ ReqShaped' /\ ReqBecomes(at, req.proxy, req.tries, req.left, req.n, req.logins)
         /\ ClientShaped'
         /\ ClientBecomes(client.transcript, client.secret, client.hChSh, client.hCertV,
                          client.hFinal, client.tickets, client.keys, client.tx + 1, client.rx)
         /\ WireBecomes(Append(wire.up, Sealed(key, client.tx, msg)), wire.down, wire.open)
         /\ WireShaped' /\ RestShaped' /\ ServerShaped'
         /\ Counted' /\ SessionInv' /\ Quiet' /\ Awaited' /\ ServerHonest'
<1>1. ReqShaped' /\ ReqBecomes(at, req.proxy, req.tries, req.left, req.n, req.logins)
  BY Parts, ReqMoved DEF Stages, Proceed
<1>2. /\ ClientShaped'
      /\ ClientBecomes(client.transcript, client.secret, client.hChSh, client.hCertV,
                       client.hFinal, client.tickets, client.keys, client.tx + 1, client.rx)
  BY Parts, ClientSent
<1>3. /\ WireShaped'
      /\ WireBecomes(Append(wire.up, Sealed(key, client.tx, msg)), wire.down, wire.open)
  BY Parts, Sent
<1>4. Attached /\ Attached'
  BY <1>1 DEF Attached, Connected, ReqBecomes
<1>5. RestShaped' /\ ServerShaped'
  BY Parts, RestStays DEF shortlink, RestShaped, ServerShaped
<1>6. Counted' /\ SessionInv' /\ Quiet' /\ Awaited'
  BY <1>1, <1>4, OnConnection DEF ReqBecomes
<1>7. ServerHonest'
  BY <1>1, <1>3, <1>4, Parts, ServerStays DEF ReqBecomes, WireBecomes, ServerHonest
<1> QED  BY <1>1, <1>2, <1>3, <1>5, <1>6, <1>7

\* The client's Finished is the record that WeChat takes next.
LEMMA SendClientFinishedKeeps ==
  ASSUME LinkInv, SendClientFinished
  PROVE  LinkInv'
<1> DEFINE key == HandshakeKey("client", client.secret, client.hChSh)
           msg == Msg("Finished", VerifyData("client", client.secret, client.hFinal))
<1>1. /\ req.at = "finishing" /\ Proceed("authenticating") /\ Send(key, msg)
      /\ client' = [client EXCEPT !.tx = @ + 1]
      /\ UNCHANGED <<dnsCache, conns, server, cause, issued, wmpf, shortlink>>
  BY DEF SendClientFinished
<1>2. /\ client.tx = 1 /\ client.hCertV \in {<<>>, Certified(client.hFinal)}
      /\ client.tx < 3 /\ client.tx + 1 = 2
  BY <1>1, Parts DEF ClientHonest
<1> HIDE DEF key, msg
<1>3. /\ ReqShaped'
      /\ ReqBecomes("authenticating", req.proxy, req.tries, req.left, req.n, req.logins)
      /\ ClientShaped'
      /\ ClientBecomes(client.transcript, client.secret, client.hChSh, client.hCertV,
                       client.hFinal, client.tickets, client.keys, client.tx + 1, client.rx)
      /\ WireBecomes(Append(wire.up, Sealed(key, client.tx, msg)), wire.down, wire.open)
      /\ WireShaped' /\ RestShaped' /\ ServerShaped'
      /\ Counted' /\ SessionInv' /\ Quiet' /\ Awaited' /\ ServerHonest'
  BY <1>1, <1>2, SealedSent
<1>4. ClientHonest'
  BY <1>2, <1>3 DEF ClientHonest, ClientBecomes, ReqBecomes
<1>5. ASSUME ~cause PROVE Agreed'
  <2>1. /\ wire.open /\ Greeted /\ Shook /\ server.at = "greeted" /\ server.rx = 1
        /\ wire.up = <<>> /\ wire.down = <<>>
    BY <1>1, <1>5, Parts DEF Agreed, Connected
  <2>2. Greeted' /\ req'.n = req.n
    BY <1>1, <1>3, <2>1, GreetedStays DEF ReqBecomes
  <2>3. Shook'
    BY <1>1, <1>3, <2>1 DEF Shook, ClientBecomes
  <2>4. Sealed(key, client.tx, msg) = ClientFinished
    BY <1>2, <2>1 DEF key, msg, ClientFinished, Shook
  <2>5. wire'.up = <<ClientFinished>>
    BY <1>3, <2>1, <2>4 DEF WireBecomes
  <2>6. ClientFinished' = ClientFinished
    BY <1>1 DEF ClientFinished
  <2>7. wire'.up = <<ClientFinished'>> \o <<>>
    BY <2>5, <2>6, LineOne, ConcatEmptySeq DEF Line
  <2> QED
    BY <1>1, <1>3, <2>1, <2>2, <2>3, <2>7 DEF Agreed, WireBecomes, ReqBecomes
<1>6. Agreed'
  BY <1>1, <1>5, AgreedVoid
<1> QED  BY <1>3, <1>4, <1>6, Whole

\* The login is sent with the key of the application.
LEMMA SendManualAuthKeeps ==
  ASSUME LinkInv, SendManualAuth
  PROVE  LinkInv'
<1> DEFINE key == AppKey("client", client.secret, client.hFinal)
<1>1. /\ req.at = "authenticating" /\ Proceed("answering") /\ Send(key, LoginRequest)
      /\ client' = [client EXCEPT !.tx = @ + 1]
      /\ UNCHANGED <<dnsCache, conns, server, cause, issued, wmpf, shortlink>>
  BY DEF SendManualAuth
<1>2. /\ client.tx = 2 /\ client.hCertV \in {<<>>, Certified(client.hFinal)} /\ client.tx < 3
  BY <1>1, Parts DEF ClientHonest
<1> HIDE DEF key
<1>3. /\ ReqShaped' /\ ReqBecomes("answering", req.proxy, req.tries, req.left, req.n, req.logins)
      /\ ClientShaped'
      /\ ClientBecomes(client.transcript, client.secret, client.hChSh, client.hCertV,
                       client.hFinal, client.tickets, client.keys, client.tx + 1, client.rx)
      /\ WireBecomes(Append(wire.up, Sealed(key, client.tx, LoginRequest)), wire.down, wire.open)
      /\ WireShaped' /\ RestShaped' /\ ServerShaped'
      /\ Counted' /\ SessionInv' /\ Quiet' /\ Awaited' /\ ServerHonest'
  BY <1>1, <1>2, SealedSent
<1>4. ClientHonest'
  BY <1>2, <1>3 DEF ClientHonest, ClientBecomes, ReqBecomes
<1>5. ASSUME ~cause PROVE Agreed'
  <2>1. /\ wire.open /\ Greeted /\ Shook /\ wire.down = <<>>
        /\ \/ server.at = "greeted" /\ server.rx = 1 /\ wire.up = <<ClientFinished>> \o <<>>
           \/ server.at = "open" /\ server.rx = 2 /\ wire.up = <<>>
    BY <1>1, <1>5, Parts DEF Agreed, Connected
  <2>2. Greeted' /\ req'.n = req.n
    BY <1>1, <1>3, <2>1, GreetedStays DEF ReqBecomes
  <2>3. Shook'
    BY <1>1, <1>3, <2>1 DEF Shook, ClientBecomes
  <2>4. Sealed(key, client.tx, LoginRequest) = LoginRecord
    BY <1>2, <2>1 DEF key, LoginRecord, Shook
  <2>5. wire'.up = Append(wire.up, LoginRecord) /\ wire'.down = <<>> /\ wire'.open
    BY <1>3, <2>1, <2>4 DEF WireBecomes
  <2>6. ClientFinished' = ClientFinished /\ LoginRecord' = LoginRecord
    BY <1>1, <2>2, SameTerms DEF ClientFinished, LoginRecord
  <2>7. server.at = "greeted" => wire'.up = <<ClientFinished>> \o <<LoginRecord>>
    <3>1. \A a, b : Append(<<a>> \o <<>>, b) = <<a>> \o <<b>>
      OBVIOUS
    <3> QED  BY <2>1, <2>5, <3>1
  <2>8. server.at = "open" => wire'.up = <<LoginRecord>>
    <3>1. \A b : Append(<<>>, b) = <<b>>
      OBVIOUS
    <3>2. server.at = "open" => wire.up = <<>>
      BY <2>1
    <3> QED  BY <2>5, <3>1, <3>2
  <2> QED
    BY <1>1, <1>3, <2>1, <2>2, <2>3, <2>5, <2>6, <2>7, <2>8 DEF Agreed, ReqBecomes
<1>6. Agreed'
  BY <1>1, <1>5, AgreedVoid
<1> QED  BY <1>3, <1>4, <1>6, Whole

\* The answer opens: it was sealed by a server that had issued the same keys, even if
\* somebody had altered a hello.
LEMMA RecvManualAuthKeeps ==
  ASSUME LinkInv, RecvManualAuth
  PROVE  LinkInv'
<1> DEFINE keys == ExtractSession(Received.msg)
<1>1. /\ req.at = "answering" /\ Arrived /\ Expected /\ Take
      /\ client' = [client EXCEPT !.rx = @ + 1, !.keys = keys]
      /\ req' = [req EXCEPT !.at = "resolvingShort", !.tries = 2]
      /\ UNCHANGED <<dnsCache, conns, server, cause, issued, wmpf, shortlink>>
  BY DEF RecvManualAuth
<1>2. keys = Received.msg.data[2]
  BY DEF ExtractSession
<1> HIDE DEF keys
<1>3. /\ ClientShaped'
      /\ ClientBecomes(client.transcript, client.secret, client.hChSh, client.hCertV,
                       client.hFinal, client.tickets, keys, client.tx, client.rx + 1)
  BY <1>1, Parts, ClientGotKeys
<1>4. ReqShaped' /\ ReqBecomes("resolvingShort", req.proxy, 2, req.left, req.n, req.logins)
  BY <1>1, Parts, ReqMovedTried DEF Stages
<1>5. Attached /\ Attached' /\ ~Connected' /\ server' = server
  BY <1>1, <1>4 DEF Attached, Connected, ReqBecomes
<1>6. /\ WireShaped' /\ FromServer(Received) /\ server.at # "accepting"
      /\ \A i \in DOMAIN wire'.down : \E j \in DOMAIN wire.down : wire'.down[i] = wire.down[j]
  BY <1>1, <1>5, Taken
<1>7. RestShaped' /\ ServerShaped'
  BY <1>1, Parts, RestStays DEF shortlink, RestShaped, ServerShaped
<1>8. Counted' /\ SessionInv' /\ Quiet' /\ Awaited'
  BY <1>1, <1>4, <1>5, OnConnection DEF ReqBecomes
<1>9. ServerHonest'
  BY <1>1, <1>4, <1>5, <1>6, Parts, ServerStays DEF ReqBecomes
\* The answer opens with the keys of both ends, so they have hashed the same transcript.
<1>10. ClientHonest'
  <2>1. /\ Received.key = AppKey("server", client.secret, client.hFinal)
        /\ Received.msg.type = "ManualAuthResponse" /\ client.hCertV # <<>>
    BY <1>1 DEF Expected, Opens
  <2>2. AppKey("server", client.secret, client.hFinal) # <<>>
    BY DEF AppKey, Derived
  <2>3. AppKey("server", client.secret, client.hFinal)
          # HandshakeKey("server", server.secret, server.hChSh)
    BY DEF AppKey, HandshakeKey, Derived
  <2>4. /\ AppKey("server", client.secret, client.hFinal)
             = AppKey("server", server.secret, server.hFinal)
        /\ server.at = "done" /\ Received.msg.data[2] = SessionKeys
    BY <1>6, <2>1, <2>2, <2>3 DEF FromServer
  <2>5. client.secret = server.secret /\ client.hFinal = server.hFinal
    BY <2>4 DEF AppKey, Derived
  <2>6. /\ issued[req.n].psk = AccessPSK(server.secret, Certified(server.hFinal))
        /\ issued[req.n].keys = SessionKeys
    BY <1>5, <1>6, <2>4, Parts DEF ServerHonest
  <2>7. client.hCertV = Certified(client.hFinal)
    BY <1>1, <2>1, Parts DEF ClientHonest
  <2>8. /\ keys = issued[req.n].keys
        /\ AccessPSK(client.secret, client.hCertV) = issued[req.n].psk
    BY <1>2, <2>4, <2>5, <2>6, <2>7
  <2> QED  BY <1>1, <1>3, <1>4, <2>4, <2>8 DEF ClientHonest, ReqBecomes, ClientBecomes
<1>11. Agreed'
  BY <1>5, AgreedVoid
<1> QED  BY <1>3, <1>4, <1>6, <1>7, <1>8, <1>9, <1>10, <1>11, Whole

----------------------------------------------------------------------------
(* WeChat and the network *)

\* WeChat's end of a connection is at work only while the client waits on it.
LEMMA ServerAtWork ==
  ASSUME LinkInv, server.at \in {"greeted", "open"} \/ (server.at = "accepting" /\ wire.up # <<>>)
  PROVE  Connected
<1>1. CASE req.at \in Elsewhere
  BY <1>1, Parts DEF Quiet, Elsewhere, NewServer, NewWire
<1>2. CASE req.at = "awaiting"
  BY <1>2, Parts DEF Awaited
<1>3. CASE req.at = "resolvingShort"
  BY <1>3, Parts DEF ClientHonest
<1> QED  BY <1>1, <1>2, <1>3, Parts, ReqFields DEF Stages, Elsewhere, Connected

\* A step of WeChat or the network on the connection leaves the client as it is.
LEMMA AtServer ==
  ASSUME LinkInv, Connected, UNCHANGED <<req, conns, client, wmpf, shortlink>>
  PROVE  /\ ReqShaped' /\ ClientShaped' /\ Counted' /\ SessionInv' /\ Quiet' /\ Awaited'
         /\ ClientHonest' /\ Attached /\ Attached' /\ Connected' /\ req' = req /\ client' = client
<1>1. Attached /\ Attached' /\ Connected'
  BY DEF Attached, Connected
<1>2. ReqShaped' /\ ClientShaped'
  BY Parts DEF ReqShaped, ClientShaped
<1>3. Counted' /\ SessionInv' /\ Quiet' /\ Awaited'
  BY <1>1, OnConnection
<1>4. ClientHonest'
  BY Parts DEF ClientHonest, Connected
<1> QED  BY <1>1, <1>2, <1>3, <1>4

\* The server takes a record.
LEMMA UpTail ==
  ASSUME WireShaped, wire.up # <<>>
  PROVE  Line(wire.up) /\ Line(Tail(wire.up)) /\ Len(wire.up) \in Nat \ {0}
  BY WireFields, LineTail

\* Behind the first record are the others.
LEMMA TailJoin ==
  ASSUME NEW x, NEW s, Line(s)
  PROVE  Tail(<<x>> \o s) = s
<1> DEFINE t == <<x>> \o s
<1>1. /\ Line(t) /\ Len(t) = 1 + Len(s) /\ Len(s) \in Nat
      /\ \A i \in 1 .. Len(s) : t[1 + i] = s[i]
  BY LineOne, LineJoin
<1> HIDE DEF t
<1>2. t # <<>>
  BY <1>1, LineEmpty
<1>3. /\ Line(Tail(t)) /\ Len(Tail(t)) = Len(t) - 1
      /\ \A i \in 1 .. Len(t) - 1 : Tail(t)[i] = t[i + 1]
  BY <1>1, <1>2, LineTail
<1>4. Len(Tail(t)) = Len(s) /\ \A i \in 1 .. Len(s) : Tail(t)[i] = s[i]
  BY <1>1, <1>3
<1>5. Tail(t) = s
  BY <1>3, <1>4, LineEqual
<1> QED  BY <1>5 DEF t

\* WeChat takes the client's Finished.
LEMMA AcceptFinishedKeeps ==
  ASSUME LinkInv, AcceptFinished
  PROVE  LinkInv'
<1>1. /\ server.at = "greeted" /\ wire.up # <<>>
      /\ wire' = [wire EXCEPT !.up = Tail(wire.up)]
      /\ server' = [server EXCEPT !.at = "open", !.rx = @ + 1]
      /\ UNCHANGED <<dnsCache, req, conns, client, cause, issued, wmpf, shortlink>>
  BY DEF AcceptFinished, ServerTakes
<1>2. Connected
  BY <1>1, ServerAtWork
<1>3. /\ ReqShaped' /\ ClientShaped' /\ Counted' /\ SessionInv' /\ Quiet' /\ Awaited'
      /\ ClientHonest' /\ Attached /\ Attached' /\ Connected' /\ req' = req /\ client' = client
  BY <1>1, <1>2, AtServer
<1>4. WireShaped' /\ WireBecomes(Tail(wire.up), wire.down, wire.open)
  BY <1>1, Parts, UpTail, WireUp
<1>5. /\ ServerShaped'
      /\ ServerBecomes("open", server.secret, server.hChSh, server.hFinal, server.tx,
                       server.rx + 1)
  BY <1>1, Parts, ServerOpened
<1>6. RestShaped'
  BY <1>1, Parts, RestStays DEF shortlink, RestShaped
<1>7. ServerHonest'
  <2>1. /\ issued[req.n].psk = AccessPSK(server.secret, Certified(server.hFinal))
        /\ \A i \in DOMAIN wire.down : FromServer(wire.down[i])
    BY <1>1, <1>3, Parts DEF ServerHonest
  <2>2. \A r : FromServer(r) => FromServer(r)'
    BY <1>1, <1>3, <1>5 DEF FromServer, ServerBecomes
  <2>3. \A i \in DOMAIN wire'.down : FromServer(wire.down[i])'
    BY <1>4, <2>1, <2>2 DEF WireBecomes
  <2> QED  BY <1>1, <1>3, <1>5, <2>1, <2>3 DEF ServerHonest, ServerBecomes
<1>8. ASSUME ~cause PROVE Agreed'
  <2> DEFINE asked == IF req.at = "answering" THEN <<LoginRecord>> ELSE <<>>
  <2>1. /\ wire.open /\ req.at \in {"authenticating", "answering"} /\ Greeted /\ Shook
        /\ server.rx = 1 /\ wire.down = <<>> /\ wire.up = <<ClientFinished>> \o asked
    BY <1>1, <1>2, <1>8, Parts DEF Agreed, NewServer
  <2>2. LoginRecord' = LoginRecord
    BY <1>1, <1>3, <1>5, SameTerms DEF LoginRecord, ServerBecomes
  <2>3. Tail(<<ClientFinished>> \o asked) = asked
    <3>1. Line(asked)
      BY LineOne, LineEmpty
    <3> QED  BY <3>1, TailJoin
  <2>4. wire'.open /\ wire'.down = <<>> /\ wire'.up = asked
    BY <1>4, <2>1, <2>3 DEF WireBecomes
  <2>5. Greeted'
    BY <1>3, <1>5, <2>1, SameTerms DEF Greeted, ServerBecomes
  <2>6. Shook'
    BY <1>3, <1>5, <2>1 DEF Shook, ServerBecomes
  <2>7. server'.at = "open" /\ server'.rx = 2
    BY <1>5, <2>1 DEF ServerBecomes
  <2> QED  BY <1>3, <2>1, <2>2, <2>4, <2>5, <2>6, <2>7 DEF Agreed
<1>9. Agreed'
  BY <1>1, <1>8, AgreedVoid
<1> QED  BY <1>3, <1>4, <1>5, <1>6, <1>7, <1>9, Whole

\* WeChat answers the login, with keys or with a refusal.
LEMMA AnswerManualAuthKeeps ==
  ASSUME LinkInv, AnswerManualAuth
  PROVE  LinkInv'
<1> DEFINE key == AppKey("server", server.secret, server.hFinal)
<1>1. PICK answer \in {LoginResponse(wire.up[1].msg), Msg("Refusal", <<>>)} :
         /\ wire' = [wire EXCEPT !.up = Tail(wire.up),
                                 !.down = Append(wire.down, Sealed(key, server.tx, answer))]
         /\ cause' = (cause \/ answer.type = "Refusal")
  BY DEF AnswerManualAuth
<1>2. /\ server.at = "open" /\ wire.up # <<>>
      /\ server' = [server EXCEPT !.at = "done"]
      /\ issued' = [issued EXCEPT ![req.n].keys = SessionKeys]
      /\ UNCHANGED <<dnsCache, req, conns, client, wmpf, shortlink>>
  BY DEF AnswerManualAuth, ServerTakes
<1> HIDE DEF key
<1>3. Connected
  BY <1>2, ServerAtWork
<1>4. /\ ReqShaped' /\ ClientShaped' /\ Counted' /\ SessionInv' /\ Quiet' /\ Awaited'
      /\ ClientHonest' /\ Attached /\ Attached' /\ Connected' /\ req' = req /\ client' = client
  BY <1>2, <1>3, AtServer
<1>5. /\ Line(wire.down) /\ Line(Append(wire.down, Sealed(key, server.tx, answer)))
      /\ Line(Tail(wire.up))
  BY <1>2, Parts, WireFields, UpTail, LineAppend
<1>6. /\ WireShaped'
      /\ WireBecomes(Tail(wire.up), Append(wire.down, Sealed(key, server.tx, answer)), wire.open)
  BY <1>1, <1>5, Parts, WireBoth
<1>7. /\ ServerShaped'
      /\ ServerBecomes("done", server.secret, server.hChSh, server.hFinal, server.tx, server.rx)
  BY <1>2, Parts, ServerDone
<1>8. req.n \in 1 .. MaxConns
  BY <1>4, Parts, OwnNumber
<1>9. /\ issued' = [i \in 1 .. MaxConns |-> [psk |-> issued'[i].psk, keys |-> issued'[i].keys]]
      /\ issued'[req.n].psk = issued[req.n].psk /\ issued'[req.n].keys = SessionKeys
  <2>1. issued = [i \in 1 .. MaxConns |-> [psk |-> issued[i].psk, keys |-> issued[i].keys]]
    BY Parts DEF RestShaped
  <2>2. issued' = [i \in 1 .. MaxConns |-> [psk |-> issued[i].psk,
                      keys |-> IF i = req.n THEN SessionKeys ELSE issued[i].keys]]
    <3>1. /\ DOMAIN issued = 1 .. MaxConns
          /\ \A i \in 1 .. MaxConns : issued[i] = [psk |-> issued[i].psk, keys |-> issued[i].keys]
      BY <2>1
    <3>2. [issued[req.n] EXCEPT !.keys = SessionKeys]
            = [psk |-> issued[req.n].psk, keys |-> SessionKeys]
      BY <1>8, <3>1
    <3>3. issued' = [issued EXCEPT ![req.n] = [issued[req.n] EXCEPT !.keys = SessionKeys]]
      BY <1>2
    <3>4. issued' = [i \in 1 .. MaxConns |->
                       IF i = req.n THEN [psk |-> issued[i].psk, keys |-> SessionKeys]
                                    ELSE issued[i]]
      BY <1>8, <2>1, <3>2, <3>3
    <3> QED  BY <3>1, <3>4
  <2> QED  BY <1>8, <2>2
<1>10. RestShaped'
  BY <1>1, <1>2, <1>9, Parts DEF shortlink, RestShaped
<1>11. answer \in [type : {answer.type}, data : {answer.data}]
       /\ answer.type \in {"ManualAuthResponse", "Refusal"}
       /\ (answer.type = "ManualAuthResponse" => answer.data[2] = SessionKeys)
  BY DEF LoginResponse, Msg
<1>12. ServerHonest'
  <2>1. /\ issued[req.n].psk = AccessPSK(server.secret, Certified(server.hFinal))
        /\ \A i \in DOMAIN wire.down : FromServer(wire.down[i])
    BY <1>2, <1>4, Parts DEF ServerHonest
  <2>2. SessionKeys' = SessionKeys
    BY <1>4, SameTerms
  <2>3. \A r : FromServer(r) => FromServer(r)'
    BY <1>2, <1>4, <1>7, <2>2 DEF FromServer, ServerBecomes
  <2>4. PICK new : new = Sealed(key, server.tx, answer)
    OBVIOUS
  <2>5. FromServer(new)'
    <3>1. new.key = key /\ new.msg = answer
      BY <2>4 DEF Sealed
    <3>2. new \in [key : {new.key}, seq : {new.seq},
                   msg : [type : {new.msg.type}, data : {new.msg.data}]]
      BY <1>11, <2>4 DEF Sealed
    <3>3. key = AppKey("server", server'.secret, server'.hFinal) /\ server'.at = "done"
      BY <1>7 DEF key, ServerBecomes
    <3>4. new.msg.type \in {"ManualAuthResponse", "Refusal"}
          /\ (new.msg.type = "ManualAuthResponse" => new.msg.data[2] = SessionKeys')
      BY <1>11, <2>2, <3>1
    <3> QED  BY <3>1, <3>2, <3>3, <3>4 DEF FromServer
  <2>6. ASSUME NEW i \in DOMAIN wire'.down PROVE FromServer(wire.down[i])'
    <3>1. /\ wire'.down = Append(wire.down, new) /\ Line(wire.down) /\ Line(wire'.down)
      BY <1>5, <1>6, <2>4 DEF WireBecomes
    <3>2. /\ Len(wire.down) \in Nat /\ Len(wire'.down) = Len(wire.down) + 1
          /\ wire'.down[Len(wire.down) + 1] = new
          /\ \A j \in 1 .. Len(wire.down) : wire'.down[j] = wire.down[j]
      BY <3>1, LineAppend
    <3>3. DOMAIN wire.down = 1 .. Len(wire.down) /\ DOMAIN wire'.down = 1 .. Len(wire.down) + 1
      BY <3>1, <3>2 DEF Line
    <3>4. CASE i = Len(wire.down) + 1
      BY <2>5, <3>2, <3>4
    <3>5. CASE i \in 1 .. Len(wire.down)
      BY <2>1, <2>3, <3>2, <3>3, <3>5
    <3> QED  BY <3>2, <3>3, <3>4, <3>5
  <2> QED  BY <1>4, <1>7, <1>9, <2>1, <2>2, <2>6 DEF ServerHonest, ServerBecomes
<1>13. ASSUME ~cause' PROVE Agreed'
  <2> DEFINE asked == IF req.at = "answering" THEN <<LoginRecord>> ELSE <<>>
  <2>1. ~cause /\ answer = LoginResponse(wire.up[1].msg)
    <3>1. ~cause /\ answer.type # "Refusal"
      BY <1>1, <1>13
    <3>2. Msg("Refusal", <<>>).type = "Refusal"
      BY DEF Msg
    <3> QED  BY <1>1, <3>1, <3>2
  <2>2. /\ wire.open /\ req.at \in {"authenticating", "answering"} /\ Greeted /\ Shook
        /\ server.rx = 2 /\ wire.down = <<>> /\ wire.up = asked
    BY <1>2, <1>3, <2>1, Parts DEF Agreed, NewServer
  <2>3. req.at = "answering" /\ wire.up = <<LoginRecord>>
    BY <1>2, <2>2
  <2>4. answer = LoginResponse(LoginRequest)
    BY <2>1, <2>3 DEF LoginRecord, Sealed
  <2>5. wire'.down = <<LoginAnswer>>
    <3>1. \A b : Append(<<>>, b) = <<b>>
      OBVIOUS
    <3> QED  BY <1>6, <2>2, <2>4, <3>1 DEF WireBecomes, LoginAnswer, key
  <2>6. wire'.up = <<>> /\ wire'.open
    BY <1>6, <2>2, <2>3, LineOne DEF WireBecomes
  <2>7. LoginAnswer' = LoginAnswer
    BY <1>4, <1>7, SameTerms DEF LoginAnswer, ServerBecomes
  <2>8. Greeted'
    BY <1>4, <1>7, <2>2, SameTerms DEF Greeted, ServerBecomes
  <2>9. Shook' /\ server'.at = "done"
    BY <1>4, <1>7, <2>2 DEF Shook, ServerBecomes
  <2> QED  BY <1>4, <2>3, <2>5, <2>6, <2>7, <2>8, <2>9 DEF Agreed
<1>14. Agreed'
  BY <1>13, AgreedVoid
<1> QED  BY <1>4, <1>6, <1>7, <1>10, <1>12, <1>14, Whole

\* The connection is disturbed, and that is noted.
LEMMA Disturbed ==
  ASSUME LinkInv, Connected, WireShaped', cause' = TRUE,
         UNCHANGED <<dnsCache, req, conns, client, server, issued, wmpf, shortlink>>,
         \A i \in DOMAIN wire'.down : FromServer(wire'.down[i]),
         server.at = "accepting" => wire'.down = <<>>
  PROVE  LinkInv'
<1>1. /\ ReqShaped' /\ ClientShaped' /\ Counted' /\ SessionInv' /\ Quiet' /\ Awaited'
      /\ ClientHonest' /\ Attached /\ Attached' /\ Connected' /\ req' = req /\ client' = client
  BY AtServer
<1>2. RestShaped' /\ ServerShaped'
  BY Parts, RestStays DEF shortlink, RestShaped, ServerShaped
<1>3. ServerHonest'
  <2>1. \A r : FromServer(r) => FromServer(r)'
    BY <1>1 DEF FromServer, SessionKeys
  <2>2. \A i \in DOMAIN wire'.down : FromServer(wire.down[i])'
    BY <2>1
  <2>3. SessionKeys' = SessionKeys
    BY <1>1, SameTerms
  <2> QED  BY <1>1, <2>2, <2>3, Parts DEF ServerHonest
<1>4. Agreed'
  BY AgreedVoid
<1> QED  BY <1>1, <1>2, <1>3, <1>4, Whole

\* The connection breaks.
LEMMA BreakKeeps ==
  ASSUME LinkInv, Break
  PROVE  LinkInv'
<1>1. WireShaped' /\ WireBecomes(<<>>, <<>>, FALSE)
  BY WireEnded DEF Break
<1>2. wire'.down = <<>> /\ DOMAIN wire'.down = {}
  BY <1>1 DEF WireBecomes
<1> QED  BY <1>1, <1>2, Disturbed DEF Break

\* WeChat hangs up.
LEMMA HangUpKeeps ==
  ASSUME LinkInv, HangUp
  PROVE  LinkInv'
<1>1. /\ server.at \in {"greeted", "open"} /\ wire' = [wire EXCEPT !.up = <<>>, !.open = FALSE]
      /\ UNCHANGED <<dnsCache, req, conns, client, server, issued, wmpf, shortlink>>
  BY DEF HangUp
<1>2. Connected
  BY <1>1, ServerAtWork
<1>3. WireShaped' /\ WireBecomes(<<>>, wire.down, FALSE)
  BY <1>1, Parts, WireHungUp
<1>4. /\ ReqShaped' /\ ClientShaped' /\ Counted' /\ SessionInv' /\ Quiet' /\ Awaited'
      /\ ClientHonest' /\ Attached /\ Attached' /\ Connected' /\ req' = req /\ client' = client
  BY <1>1, <1>2, AtServer
<1>5. cause' = TRUE
  <2>1. CASE cause
    BY <2>1 DEF HangUp
  <2>2. CASE ~cause
    <3> DEFINE asked == IF req.at = "answering" THEN <<LoginRecord>> ELSE <<>>
    <3>1. wire.up # <<>>
      BY DEF HangUp
    <3>2. /\ req.at \in {"authenticating", "answering"}
          /\ \/ server.at = "greeted" /\ server.rx = 1 /\ wire.up = <<ClientFinished>> \o asked
             \/ server.at = "open" /\ server.rx = 2 /\ wire.up = asked
      BY <1>1, <1>2, <2>2, <3>1, Parts DEF Agreed, NewServer
    <3>3. CASE server.at = "greeted"
      <4>1. wire.up = <<ClientFinished>> \o asked /\ server.rx = 1
        BY <3>2, <3>3
      <4>2. \A a, b : (<<a>> \o <<b>>)[1] = a /\ (<<a>> \o <<>>)[1] = a
        OBVIOUS
      <4>3. wire.up[1] = ClientFinished
        BY <4>1, <4>2
      <4>4. ServerTakes(HandshakeKey("client", server.secret, server.hChSh))
        BY <3>1, <4>1, <4>3 DEF ServerTakes, Opens, ClientFinished, Sealed
      <4>5. PICK opens \in BOOLEAN :
               /\ opens = ServerTakes(HandshakeKey("client", server.secret, server.hChSh))
               /\ cause' = (cause \/ opens)
        BY <3>3 DEF HangUp
      <4> QED  BY <4>4, <4>5
    <3>4. CASE server.at = "open"
      <4>1. wire.up = <<LoginRecord>> /\ server.rx = 2
        BY <3>1, <3>2, <3>4
      <4>2. wire.up[1] = LoginRecord
        BY <4>1
      <4>3. ServerTakes(AppKey("client", server.secret, server.hFinal))
        BY <3>1, <4>1, <4>2 DEF ServerTakes, Opens, LoginRecord, Sealed
      <4>4. PICK opens \in BOOLEAN :
               /\ opens = ServerTakes(AppKey("client", server.secret, server.hFinal))
               /\ cause' = (cause \/ opens)
        BY <3>4 DEF HangUp
      <4> QED  BY <4>3, <4>4
    <3> QED  BY <1>1, <3>3, <3>4
  <2> QED  BY <2>1, <2>2
<1>6. \A i \in DOMAIN wire'.down : FromServer(wire'.down[i])
  BY <1>3, <1>4, Parts DEF WireBecomes, ServerHonest
<1> QED  BY <1>1, <1>2, <1>3, <1>5, <1>6, Disturbed

\* A hello is altered on its way.
LEMMA AlterHelloKeeps ==
  ASSUME LinkInv, AlterHello
  PROVE  LinkInv'
<1>1. /\ Connected /\ cause' = TRUE
      /\ UNCHANGED <<dnsCache, req, conns, client, server, issued, wmpf, shortlink>>
  BY DEF AlterHello
<1>2. /\ Attached /\ server.at # "short" /\ (server.at = "accepting" => wire.down = <<>>)
      /\ \A i \in DOMAIN wire.down : FromServer(wire.down[i])
  BY <1>1, Parts DEF ServerHonest, Attached
<1>3. CASE /\ wire.up # <<>> /\ wire.up[1].key = <<>>
           /\ wire' = [wire EXCEPT !.up[1] = Altered(@)]
  <2> DEFINE up == [wire.up EXCEPT ![1] = Altered(wire.up[1])]
  <2>1. Line(up)
    BY <1>3, Parts, WireFields, LineExcept
  <2>2. wire' = [wire EXCEPT !.up = up]
    BY <1>3, Parts, WireFields
  <2> HIDE DEF up
  <2>3. WireShaped' /\ WireBecomes(up, wire.down, wire.open)
    BY <2>1, <2>2, Parts, WireUp
  <2> QED  BY <1>1, <1>2, <2>3, Disturbed DEF WireBecomes
<1>4. CASE /\ Arrived /\ Received.key = <<>>
           /\ wire' = [wire EXCEPT !.down[1] = Altered(@)]
  <2> DEFINE new == Altered(wire.down[1])
             down == [wire.down EXCEPT ![1] = new]
  <2>1. Line(wire.down) /\ wire.down # <<>> /\ Len(wire.down) \in Nat \ {0}
    BY <1>4, Parts, WireFields, LineTail DEF Arrived
  <2>2. Line(down) /\ DOMAIN down = DOMAIN wire.down /\ 1 \in DOMAIN wire.down
    <3>1. Line(down)
      BY <2>1, LineExcept
    <3>2. DOMAIN down = DOMAIN wire.down
      OBVIOUS
    <3>3. 1 \in DOMAIN wire.down
      BY <2>1 DEF Line
    <3> QED  BY <3>1, <3>2, <3>3
  <2>3. wire' = [wire EXCEPT !.down = down]
    BY <1>4, Parts, WireFields
  <2>4. FromServer(wire.down[1]) /\ wire.down[1].key = <<>>
    BY <1>2, <1>4, <2>2 DEF Received
  <2>5. FromServer(new)
    <3>1. wire.down[1].msg.type = "ServerHello"
      BY <2>4 DEF FromServer, HandshakeKey, AppKey, Derived
    <3>2. wire.down[1] \in [key : {wire.down[1].key}, seq : {wire.down[1].seq},
                            msg : [type : {wire.down[1].msg.type}, data : {wire.down[1].msg.data}]]
      BY <2>4 DEF FromServer
    <3>3. new = [key |-> <<>>, seq |-> wire.down[1].seq,
                 msg |-> [type |-> "ServerHello", data |-> <<"altered", req.n>>]]
      BY <2>4, <3>1, <3>2 DEF Altered
    <3> HIDE DEF new
    <3> QED  BY <3>3 DEF FromServer
  <2>6. \A i \in DOMAIN down : down[i] = IF i = 1 THEN new ELSE wire.down[i]
    BY <2>2
  <2> HIDE DEF new, down
  <2>7. WireShaped' /\ WireBecomes(wire.up, down, wire.open)
    BY <2>2, <2>3, Parts, WireDown
  <2>8. \A i \in DOMAIN wire'.down : FromServer(wire'.down[i])
    BY <1>2, <2>2, <2>5, <2>6, <2>7 DEF WireBecomes
  <2>9. server.at # "accepting"
    BY <1>2, <2>1
  <2> QED  BY <1>1, <2>7, <2>8, <2>9, Disturbed
<1> QED  BY <1>3, <1>4 DEF AlterHello

----------------------------------------------------------------------------
(* WeChat answers a hello *)

\* WeChat answers the hello: it issues the tickets, hashed up to its last CertVerify.
LEMMA AcceptHelloKeeps ==
  ASSUME LinkInv, AcceptHello
  PROVE  LinkInv'
<1>1. server.at = "accepting" /\ wire.up # <<>>
      /\ UNCHANGED <<dnsCache, req, conns, client, wmpf, shortlink>>
  BY DEF AcceptHello, ServerTakes
<1>2. PICK flight \in Flights, types \in TicketTypes :
        LET secret == Secret(wire.up[1].msg.data, Share("server"))
            hellos == <<wire.up[1].msg, Msg("ServerHello", Share("server"))>>
            key == HandshakeKey("server", secret, hellos)
            fed == hellos \o [i \in 1 .. Len(flight) |->
                       Msg(flight[i], IF flight[i] = "NewSessionTicket"
                                      THEN SetToSeq(types) ELSE <<>>)]
            last == Msg("Finished", VerifyData("server", secret, fed))
            sent == Append(fed, last)
        IN
        /\ wire' = [wire EXCEPT !.up = Tail(@), !.down = <<Plain(hellos[2])>> \o
                       [i \in 1 .. Len(flight) + 1 |-> Sealed(key, i, sent[i + 2])]]
        /\ server' = [at |-> "greeted", secret |-> secret, hChSh |-> hellos, hFinal |-> fed,
                      rx |-> 1, tx |-> Len(flight) + 2]
        /\ issued' = [issued EXCEPT ![req.n].psk = AccessPSK(secret, Certified(fed))]
        /\ cause' = (\/ cause \/ 1 \notin types
                     \/ ~({"CertVerify", "NewSessionTicket"} \subseteq ToSet(flight)))
  BY DEF AcceptHello
<1> DEFINE L == Len(flight)
           secret == Secret(wire.up[1].msg.data, Share("server"))
           hello == Msg("ServerHello", Share("server"))
           hellos == <<wire.up[1].msg, hello>>
           key == HandshakeKey("server", secret, hellos)
           Fly(i) == Msg(flight[i],
                         IF flight[i] = "NewSessionTicket" THEN SetToSeq(types) ELSE <<>>)
           fed == hellos \o [i \in 1 .. L |-> Fly(i)]
           last == Msg("Finished", VerifyData("server", secret, fed))
           sent == Append(fed, last)
           rest == [i \in 1 .. L + 1 |-> Sealed(key, i, sent[i + 2])]
           down == <<Plain(hello)>> \o rest
           disturbed == \/ cause \/ 1 \notin types
                        \/ ~({"CertVerify", "NewSessionTicket"} \subseteq ToSet(flight))
<1>3. /\ wire' = [wire EXCEPT !.up = Tail(wire.up), !.down = down]
      /\ server' = [at |-> "greeted", secret |-> secret, hChSh |-> hellos, hFinal |-> fed,
                    rx |-> 1, tx |-> L + 2]
      /\ issued' = [issued EXCEPT ![req.n].psk = AccessPSK(secret, Certified(fed))]
      /\ cause' = disturbed
  BY <1>2
<1>4. /\ flight \in Seq(STRING) /\ "Finished" \notin ToSet(flight) /\ IsFiniteSet(types)
      /\ L \in Nat /\ DOMAIN flight = 1 .. L
  BY MmtlsLoginAssumption
<1>5. ToSet(SetToSeq(types)) = types
  BY <1>4, SetAsSeq
\* The messages of the flight.
<1>6. \A i \in 1 .. L : /\ Fly(i) \in [type : {Fly(i).type}, data : {Fly(i).data}]
                        /\ Fly(i).type = flight[i] /\ flight[i] # "Finished"
                        /\ Fly(i).type = "NewSessionTicket" => ToSet(Fly(i).data) = types
  BY <1>4, <1>5 DEF Msg, ToSet
<1>7. /\ Line(hellos) /\ Len(hellos) = 2 /\ hellos[1] = wire.up[1].msg /\ hellos[2] = hello
  BY LineTwo
<1> HIDE DEF Fly, hellos, secret, hello, key
<1>8. /\ Line(fed) /\ Len(fed) = L + 2 /\ fed[1] = hellos[1] /\ fed[2] = hellos[2]
      /\ \A i \in 1 .. L : fed[2 + i] = Fly(i)
  <2> DEFINE f == [i \in 1 .. L |-> Fly(i)]
  <2>1. DOMAIN f = 1 .. L /\ f = [i \in 1 .. L |-> f[i]] /\ \A i \in 1 .. L : f[i] = Fly(i)
    OBVIOUS
  <2> HIDE DEF f
  <2>2. Line(f) /\ Len(f) = L
    BY <1>4, <2>1, LineMade
  <2>3. /\ Line(hellos \o f) /\ Len(hellos \o f) = Len(hellos) + Len(f)
        /\ \A i \in 1 .. Len(hellos) : (hellos \o f)[i] = hellos[i]
        /\ \A i \in 1 .. Len(f) : (hellos \o f)[Len(hellos) + i] = f[i]
    <3>1. Line(hellos) /\ Line(f)
      BY <1>7, <2>2
    <3> QED  BY <3>1, LineJoin
  <2>4. fed = hellos \o f
    BY DEF f
  <2> HIDE DEF fed
  <2>5. Len(fed) = L + 2 /\ fed[1] = hellos[1] /\ fed[2] = hellos[2]
    BY <1>4, <1>7, <2>2, <2>3, <2>4
  <2>6. \A i \in 1 .. L : fed[2 + i] = Fly(i)
    BY <1>7, <2>1, <2>2, <2>3, <2>4
  <2> QED  BY <2>3, <2>4, <2>5, <2>6
<1> HIDE DEF fed
<1>9. /\ sent[L + 3] = last /\ \A i \in 1 .. L + 2 : sent[i] = fed[i]
  <2>1. L + 2 + 1 = L + 3
    BY <1>4
  <2> QED  BY <1>8, <2>1, LineAppend
<1>10. last \in [type : {last.type}, data : {last.data}] /\ last.type = "Finished"
  BY DEF Msg
<1> HIDE DEF last, sent
<1>11. ASSUME NEW i \in 1 .. L + 1
       PROVE  /\ sent[i + 2] \in [type : {sent[i + 2].type}, data : {sent[i + 2].data}]
              /\ sent[i + 2].type = "NewSessionTicket" => ToSet(sent[i + 2].data) = types
  <2>1. CASE i = L + 1
    <3>1. i + 2 = L + 3
      BY <1>4, <2>1
    <3> QED  BY <1>9, <1>10, <3>1
  <2>2. CASE i # L + 1
    <3>1. i \in 1 .. L /\ 2 + i \in 1 .. L + 2 /\ i + 2 = 2 + i
      BY <1>4, <2>2
    <3>2. sent[i + 2] = Fly(i)
      BY <1>8, <1>9, <3>1
    <3> QED  BY <1>6, <3>1, <3>2
  <2> QED  BY <2>1, <2>2
<1>12. /\ Line(down) /\ Len(down) = L + 2 /\ down[1] = Plain(hello)
       /\ \A i \in 1 .. L + 1 : down[1 + i] = Sealed(key, i, sent[i + 2])
  <2>1. DOMAIN rest = 1 .. L + 1 /\ rest = [i \in 1 .. L + 1 |-> rest[i]]
        /\ \A i \in 1 .. L + 1 : rest[i] = Sealed(key, i, sent[i + 2])
    OBVIOUS
  <2> HIDE DEF rest
  <2>2. Line(rest) /\ Len(rest) = L + 1
    BY <1>4, <2>1, LineMade
  <2>3. /\ Line(<<Plain(hello)>>) /\ Len(<<Plain(hello)>>) = 1 /\ <<Plain(hello)>>[1] = Plain(hello)
    BY LineOne
  <2>4. /\ Line(down) /\ Len(down) = 1 + Len(rest) /\ down[1] = <<Plain(hello)>>[1]
        /\ \A i \in 1 .. Len(rest) : down[1 + i] = rest[i]
    BY <2>2, <2>3, LineJoin
  <2> HIDE DEF down
  <2>5. Len(down) = L + 2
    BY <1>4, <2>2, <2>4
  <2> QED  BY <2>1, <2>2, <2>3, <2>4, <2>5
<1> HIDE DEF rest, down
<1>13. Connected
  BY <1>1, ServerAtWork
<1>14. /\ ReqShaped' /\ ClientShaped' /\ Counted' /\ SessionInv' /\ Quiet' /\ Awaited'
       /\ ClientHonest' /\ Attached /\ Attached' /\ Connected' /\ req' = req /\ client' = client
  BY <1>1, <1>13, AtServer
<1>15. WireShaped' /\ WireBecomes(Tail(wire.up), down, wire.open)
  BY <1>1, <1>3, <1>12, Parts, UpTail, WireBoth
<1>16. ServerShaped' /\ ServerBecomes("greeted", secret, hellos, fed, L + 2, 1)
  <2>1. L + 2 \in Nat /\ 1 \in Nat /\ "greeted" \in ServerStages
    BY <1>4 DEF ServerStages
  <2>2. server' = [at |-> "greeted", secret |-> secret, hChSh |-> hellos, hFinal |-> fed,
                   tx |-> L + 2, rx |-> 1]
    BY <1>3
  <2> QED  BY <2>1, <2>2, ServerWhole
<1>17. req.n \in 1 .. MaxConns
  BY <1>14, Parts, OwnNumber
<1>18. /\ issued' = [i \in 1 .. MaxConns |-> [psk |-> issued'[i].psk, keys |-> issued'[i].keys]]
       /\ issued'[req.n].psk = AccessPSK(secret, Certified(fed))
  <2> DEFINE psk == AccessPSK(secret, Certified(fed))
  <2>1. /\ DOMAIN issued = 1 .. MaxConns
        /\ \A i \in 1 .. MaxConns : issued[i] = [psk |-> issued[i].psk, keys |-> issued[i].keys]
        /\ issued = [i \in 1 .. MaxConns |-> issued[i]]
    BY Parts DEF RestShaped
  <2>2. issued' = [issued EXCEPT ![req.n] = [issued[req.n] EXCEPT !.psk = psk]]
    BY <1>3
  <2> HIDE DEF psk
  <2>3. [issued[req.n] EXCEPT !.psk = psk] = [psk |-> psk, keys |-> issued[req.n].keys]
    BY <1>17, <2>1
  <2>4. issued' = [i \in 1 .. MaxConns |->
                     IF i = req.n THEN [psk |-> psk, keys |-> issued[i].keys] ELSE issued[i]]
    BY <1>17, <2>1, <2>2, <2>3
  <2>5. \A i \in 1 .. MaxConns : issued'[i] = [psk |-> issued'[i].psk, keys |-> issued'[i].keys]
    BY <2>1, <2>4
  <2> QED  BY <1>17, <2>4, <2>5 DEF psk
<1>19. RestShaped'
  <2>1. cause' \in BOOLEAN
    BY <1>3, Parts DEF RestShaped
  <2> QED  BY <1>1, <1>18, <2>1, Parts DEF shortlink, RestShaped
<1>20. ServerHonest'
  <2>1. ASSUME NEW i \in DOMAIN wire'.down PROVE FromServer(wire.down[i])'
    <3>1. wire'.down = down /\ i \in 1 .. L + 2
      BY <1>12, <1>15 DEF WireBecomes, Line
    <3>2. CASE i = 1
      <4>1. PICK r : r = Plain(hello)
        OBVIOUS
      <4>2. /\ r \in [key : {r.key}, seq : {r.seq},
                      msg : [type : {r.msg.type}, data : {r.msg.data}]]
            /\ r.key = <<>> /\ r.msg.type = "ServerHello"
        BY <4>1 DEF Plain, Sealed, hello, Msg
      <4>3. FromServer(r)'
        BY <4>2 DEF FromServer
      <4> QED  BY <1>12, <3>1, <3>2, <4>1, <4>3
    <3>3. CASE i # 1
      <4>1. PICK j \in 1 .. L + 1 : i = 1 + j
        <5>1. i \in 1 .. L + 2
          BY <3>1
        <5>2. i - 1 \in 1 .. L + 1 /\ i = 1 + (i - 1)
          BY <1>4, <3>3, <5>1
        <5> QED  BY <5>2
      <4>2. PICK r : r = Sealed(key, j, sent[j + 2])
        OBVIOUS
      <4>3. wire'.down[i] = r
        BY <1>12, <3>1, <4>1, <4>2
      <4>4. r.key = key /\ r.msg = sent[j + 2] /\ r = [key |-> r.key, seq |-> r.seq, msg |-> r.msg]
        BY <4>2 DEF Sealed
      <4>5. /\ r.msg \in [type : {r.msg.type}, data : {r.msg.data}]
            /\ r.msg.type = "NewSessionTicket" => ToSet(r.msg.data) = types
        BY <1>11, <4>4
      <4>6. r.key = HandshakeKey("server", server'.secret, server'.hChSh)
        BY <1>16, <4>4 DEF key, ServerBecomes
      <4>7. FromServer(r)'
        BY <4>4, <4>5, <4>6 DEF FromServer
      <4> QED  BY <4>3, <4>7
    <3> QED  BY <3>2, <3>3
  <2>2. /\ server'.at = "greeted" /\ server'.secret = secret /\ server'.hFinal = fed
        /\ req' = req
    BY <1>14, <1>16 DEF ServerBecomes
  <2> QED  BY <1>18, <2>1, <2>2 DEF ServerHonest
<1>21. ASSUME ~cause' PROVE Agreed'
  <2>1. /\ ~cause /\ 1 \in types
        /\ "CertVerify" \in ToSet(flight) /\ "NewSessionTicket" \in ToSet(flight)
    BY <1>3, <1>21
  <2>2. /\ wire.open /\ req.at = "flight" /\ server = NewServer
        /\ client = [NewClient EXCEPT !.transcript = <<ClientHello>>, !.tx = 1]
        /\ wire.up = <<Plain(ClientHello)>>
    BY <1>1, <1>13, <2>1, Parts DEF Agreed, Greeted, NewWire
  <2>3. /\ client.transcript = <<ClientHello>> /\ client.secret = <<>> /\ client.rx = 0
    BY <2>2 DEF NewClient
  <2>4. wire.up[1].msg = ClientHello /\ Tail(wire.up) = <<>>
    BY <2>2, LineOne DEF Plain, Sealed
  <2>5. /\ server'.at = "greeted" /\ server'.secret = secret /\ server'.hChSh = hellos
        /\ server'.hFinal = fed /\ server'.tx = L + 2 /\ server'.rx = 1 /\ req' = req
        /\ client' = client /\ wire'.up = <<>> /\ wire'.down = down /\ wire'.open
    BY <1>14, <1>15, <1>16, <2>2, <2>4 DEF ServerBecomes, WireBecomes
  <2>6. secret = Secret(Share("client"), Share("server"))
    BY <2>4 DEF secret, ClientHello, Msg
  <2>7. hellos = <<ClientHello, Msg("ServerHello", Share("server"))>>
    BY <2>4 DEF hellos, hello
  <2>8. ASSUME NEW i \in 3 .. L + 2
        PROVE  /\ fed[i].type # "Finished"
               /\ fed[i].type = "NewSessionTicket" => 1 \in ToSet(fed[i].data)
    <3>1. i - 2 \in 1 .. L /\ 2 + (i - 2) = i
      BY <1>4
    <3>2. fed[i] = Fly(i - 2)
      BY <1>8, <3>1
    <3> QED  BY <1>6, <2>1, <3>1, <3>2
  <2>9. ASSUME NEW type \in {"CertVerify", "NewSessionTicket"}
        PROVE  \E i \in 3 .. L + 2 : fed[i].type = type
    <3>1. PICK j \in 1 .. L : flight[j] = type
      BY <1>4, <2>1 DEF ToSet
    <3>2. 2 + j \in 3 .. L + 2 /\ fed[2 + j].type = type
      BY <1>4, <1>6, <1>8, <3>1
    <3> QED  BY <3>2
  <2>10. Share("client")' = Share("client") /\ Share("server")' = Share("server")
         /\ ClientHello' = ClientHello
    BY <2>5, SameTerms
  <2>11. Greeted'
    <3>1. Len(server'.hFinal) = L + 2 /\ L + 2 >= 2 /\ Line(server'.hFinal)
      BY <1>4, <1>8, <2>5
    <3>2. \A i \in 1 .. 2 : server'.hFinal[i] = server'.hChSh[i]
      BY <1>8, <2>5
    <3> QED  BY <2>5, <2>6, <2>7, <2>8, <2>9, <2>10, <3>1, <3>2 DEF Greeted, Msg
  <2>12. ASSUME NEW i \in 1 .. L + 2 PROVE down[i] = FlightRecord(0 + i - 1)'
    <3>1. CASE i = 1
      <4>1. FlightRecord(0)' = Plain(fed[2])
        BY <1>8, <2>5, <1>4 DEF FlightRecord, Fed
      <4> QED  BY <1>7, <1>8, <1>12, <3>1, <4>1
    <3>2. CASE i # 1
      <4>1. PICK j \in 1 .. L + 1 : i = 1 + j
        BY <1>4, <3>2
      <4>2. j \in Nat /\ j # 0 /\ 0 + i - 1 = j
        BY <4>1
      <4>3. FlightRecord(j)' = Sealed(key, j, Fed(j + 2)')
        BY <2>5, <4>2 DEF FlightRecord, key
      <4>4. Fed(j + 2)' = sent[j + 2]
        <5>1. CASE j = L + 1
          <6>1. j + 2 = L + 3 /\ ~(L + 3 <= L + 2)
            BY <1>4, <5>1
          <6>2. Fed(j + 2)' = ServerFinished'
            BY <1>8, <2>5, <6>1 DEF Fed
          <6>3. ServerFinished' = last
            BY <2>5 DEF ServerFinished, last
          <6> QED  BY <1>9, <6>1, <6>2, <6>3
        <5>2. CASE j # L + 1
          <6>1. j + 2 <= L + 2 /\ j + 2 \in 1 .. L + 2
            BY <1>4, <5>2
          <6> QED  BY <1>8, <1>9, <2>5, <6>1 DEF Fed
        <5> QED  BY <5>1, <5>2
      <4> QED  BY <1>12, <4>1, <4>2, <4>3, <4>4
    <3> QED  BY <3>1, <3>2
  <2>13. FlightDue'
    <3>1. client'.rx = 0 /\ Len(server'.hFinal) = L + 2 /\ 0 < L + 2 /\ L + 2 - 0 = L + 2
      BY <1>4, <1>8, <2>3, <2>5
    <3>2. Len(wire'.down) = L + 2
      BY <1>12, <2>5
    <3>3. client'.transcript = SubSeq(server'.hFinal, 1, 0 + 1)
      <4>1. 1 \in 0 .. Len(fed)
        BY <1>4, <1>8
      <4>2. /\ Line(SubSeq(fed, 1, 1)) /\ Len(SubSeq(fed, 1, 1)) = 1
            /\ SubSeq(fed, 1, 1)[1] = fed[1]
        BY <1>8, <4>1, LinePrefix
      <4>3. Line(<<ClientHello>>) /\ Len(<<ClientHello>>) = 1 /\ <<ClientHello>>[1] = fed[1]
        BY <1>7, <1>8, <2>4, LineOne
      <4>4. <<ClientHello>> = SubSeq(fed, 1, 1)
        BY <4>2, <4>3, LineEqual
      <4> QED  BY <2>3, <2>5, <4>4
    <3>4. client'.secret = <<>>
      BY <2>3, <2>5
    <3>5. \A i \in 1 .. Len(wire'.down) : wire'.down[i] = FlightRecord(client.rx + i - 1)'
      <4>1. client'.rx = 0 /\ wire'.down = down
        BY <2>5, <3>1
      <4> QED  BY <2>12, <3>2, <4>1 DEF FlightRecord
    <3> QED  BY <3>1, <3>2, <3>3, <3>4, <3>5 DEF FlightDue
  <2> QED  BY <2>2, <2>5, <2>11, <2>13 DEF Agreed
<1>22. Agreed'
  BY <1>21, AgreedVoid
<1> QED  BY <1>14, <1>15, <1>16, <1>19, <1>20, <1>22, Whole

----------------------------------------------------------------------------
(* Sending an envelope *)

\* Where no connection of a login is up, there is nothing to say about one.
LEMMA NotAttached ==
  ASSUME ~Attached', client' = NewClient, req'.at = "awaiting"
  PROVE  Quiet' /\ ServerHonest' /\ ClientHonest' /\ Agreed'
  BY DEF Quiet, ServerHonest, ClientHonest, Agreed, Attached, Connected

\* An envelope is to be sent over the targets of its session.
LEMMA SendEnvelopeKeeps ==
  ASSUME LinkInv, SendEnvelope
  PROVE  LinkInv'
<1>1. /\ req.at = "ready" /\ req' = [req EXCEPT !.at = "sending", !.left = wmpf.targets]
      /\ executed' = 0 /\ unheard' = 0
      /\ UNCHANGED <<dnsCache, conns, link, cause, issued, wmpf>>
  BY DEF SendEnvelope
<1>2. Line(wmpf.targets) /\ wmpf # None
  BY <1>1, Parts DEF SessionInv
<1>3. ReqShaped' /\ ReqBecomes("sending", req.proxy, req.tries, wmpf.targets, req.n, req.logins)
  BY <1>1, <1>2, Parts, ReqMovedLeft DEF Stages
<1>4. ClientShaped' /\ ServerShaped' /\ WireShaped'
  BY <1>1, Parts, LinkStill
<1>5. RestShaped'
  BY <1>1, Parts DEF RestShaped
<1>6. Quiet' /\ ServerHonest' /\ ClientHonest' /\ Agreed'
  BY <1>1, <1>3, Parts, StillParted DEF ReqBecomes, Elsewhere, link
<1>7. Counted'
  BY <1>1, <1>3, Parts DEF Counted, ReqBecomes, Attached, Connected
<1>8. SessionInv'
  BY <1>1, <1>3, Parts
  DEF SessionInv, SessionKept, KeysShared, ProxyKept, ReqBecomes, Counted, Attached, Connected
<1>9. Awaited'
  BY <1>1, <1>3 DEF Awaited, ReqBecomes
<1> QED  BY <1>3, <1>4, <1>5, <1>6, <1>7, <1>8, <1>9, Whole

\* The envelope goes to a target.
LEMMA SendToKeeps ==
  ASSUME LinkInv, SendTo
  PROVE  LinkInv'
<1>1. PICK route \in Routes(wmpf.proxy, TCPProxyFallbackDirect /\ ~wmpf.proxy) :
         conns' = {[n |-> wmpf.n, via |-> route]}
  BY DEF SendTo
<1>2. /\ req.at = "sending" /\ req.left # <<>> /\ client' = NewClient
      /\ server' = [NewServer EXCEPT !.at = "short"]
      /\ wire' = [NewWire EXCEPT !.up = <<Sealed(EarlyKey(wmpf.psk), 2, Envelope)>>]
      /\ cause' = FALSE /\ req' = [req EXCEPT !.at = "awaiting"]
      /\ UNCHANGED <<dnsCache, issued, wmpf, shortlink>>
  BY DEF SendTo, Proceed
<1>3. ReqShaped' /\ ReqBecomes("awaiting", req.proxy, req.tries, req.left, req.n, req.logins)
  BY <1>2, Parts, ReqMoved DEF Stages
<1>4. /\ ClientShaped' /\ ServerShaped' /\ ServerBecomes("short", <<>>, <<>>, <<>>, 0, 0)
  BY <1>2, ClientNew, ServerShort
<1>5. WireShaped' /\ wire'.down = <<>> /\ wire'.open = TRUE
  <2>1. wire' = [up |-> <<Sealed(EarlyKey(wmpf.psk), 2, Envelope)>>, down |-> <<>>, open |-> TRUE]
    BY <1>2 DEF NewWire
  <2>2. Line(<<Sealed(EarlyKey(wmpf.psk), 2, Envelope)>>) /\ Line(<<>>)
    BY LineOne, LineEmpty
  <2>3. WireShaped' /\ WireBecomes(<<Sealed(EarlyKey(wmpf.psk), 2, Envelope)>>, <<>>, TRUE)
    BY <2>1, <2>2, WireWhole
  <2> QED  BY <2>3 DEF WireBecomes
<1>6. RestShaped'
  BY <1>2, Parts, RestStays DEF shortlink, RestShaped
<1>7. ~Attached' /\ req'.at = "awaiting"
  BY <1>3 DEF Attached, Connected, ReqBecomes
<1>8. Quiet' /\ ServerHonest' /\ ClientHonest' /\ Agreed'
  BY <1>2, <1>7, NotAttached
<1>9. wmpf # None /\ wmpf.n \in 1 .. MaxConns /\ wmpf.proxy \in BOOLEAN
  BY <1>2, Parts DEF SessionInv
<1>10. route \in {"proxy", "direct"} /\ (route = "direct" => ~wmpf.proxy)
  <2>1. TCPProxyFallbackDirect \in BOOLEAN
    BY MmtlsLoginAssumption
  <2> QED  BY <1>1, <1>9, <2>1 DEF Routes
<1>11. Counted'
  <2>1. IsFiniteSet(conns') /\ Cardinality(conns') = 1
    BY <1>1, FS_Singleton
  <2>2. conns' \subseteq [n : 1 .. MaxConns, via : {"proxy", "direct"}]
    BY <1>1, <1>9, <1>10
  <2> QED  BY <1>3, <1>7, <2>1, <2>2, Parts DEF Counted, ReqBecomes
<1>12. SessionInv'
  <2>1. ProxyKept'
    BY <1>1, <1>2, <1>7, <1>10 DEF ProxyKept
  <2>2. KeysShared'
    BY <1>2, Parts DEF SessionInv, SessionKept, KeysShared
  <2> QED  BY <1>2, <1>7, <1>9, <2>1, <2>2, Parts DEF SessionInv, SessionKept
<1>13. Awaited'
  <2>1. executed <= unheard
    BY <1>2, Parts DEF Awaited
  <2>2. executed' = executed /\ unheard' = unheard /\ executed \in Nat /\ unheard \in Nat
    BY <1>2, Parts DEF shortlink, RestShaped
  <2>3. executed' <= unheard' + (IF wire'.down = <<>> THEN 0 ELSE 1) /\ executed' <= unheard' + 1
    BY <1>5, <2>1, <2>2
  <2>4. req'.left # <<>> /\ server'.at = "short" /\ req'.at # "sending"
    BY <1>2, <1>3, <1>4 DEF ReqBecomes, ServerBecomes
  <2> QED  BY <1>5, <2>3, <2>4 DEF Awaited
<1> QED  BY <1>3, <1>4, <1>5, <1>6, <1>8, <1>11, <1>12, <1>13, Whole

\* While an envelope has no connection, only its targets and its stage change.
LEMMA SendingEnds ==
  ASSUME LinkInv, req.at = "sending", req'.at \in {"sending", "idle"}, ReqShaped', req'.n = req.n,
         req'.logins = req.logins, req'.proxy = req.proxy,
         UNCHANGED <<dnsCache, conns, link, cause, issued, wmpf, shortlink>>
  PROVE  LinkInv'
<1>1. ClientShaped' /\ ServerShaped' /\ WireShaped' /\ RestShaped'
  BY Parts, LinkStill, RestStays DEF shortlink, RestShaped
<1>2. Quiet' /\ ServerHonest' /\ ClientHonest' /\ Agreed'
  BY Parts, StillParted DEF Elsewhere, link
<1>3. Counted'
  BY Parts DEF Counted, Attached, Connected
<1>4. SessionInv'
  BY Parts DEF SessionInv, SessionKept, KeysShared, ProxyKept, Counted, Attached, Connected
<1>5. Awaited'
  BY Parts DEF Awaited, shortlink
<1> QED  BY <1>1, <1>2, <1>3, <1>4, <1>5, Whole

\* No connection to a target.
LEMMA SendToFailsKeeps ==
  ASSUME LinkInv, SendToFails
  PROVE  LinkInv'
<1>1. /\ req.at = "sending" /\ req' = [req EXCEPT !.left = Tail(req.left)] /\ req.left # <<>>
      /\ UNCHANGED <<dnsCache, conns, link, cause, issued, wmpf, shortlink>>
  BY DEF SendToFails
<1>2. Line(Tail(req.left))
  BY <1>1, Parts, ReqFields, LineTail
<1>3. ReqShaped' /\ ReqBecomes(req.at, req.proxy, req.tries, Tail(req.left), req.n, req.logins)
  BY <1>1, <1>2, Parts, ReqLeft
<1> QED  BY <1>1, <1>3, SendingEnds DEF ReqBecomes

\* No target is left for the envelope.
LEMMA SendGivesUpKeeps ==
  ASSUME LinkInv, SendGivesUp
  PROVE  LinkInv'
<1>1. /\ req.at = "sending" /\ req' = [req EXCEPT !.at = "idle"]
      /\ UNCHANGED <<dnsCache, conns, link, cause, issued, wmpf, shortlink>>
  BY DEF SendGivesUp, Proceed
<1>2. ReqShaped' /\ ReqBecomes("idle", req.proxy, req.tries, req.left, req.n, req.logins)
  BY <1>1, Parts, ReqMoved DEF Stages
<1> QED  BY <1>1, <1>2, SendingEnds DEF ReqBecomes

\* While an envelope is under way, only the wire and the counters change.
LEMMA AtTarget ==
  ASSUME LinkInv, req.at = "awaiting",
         UNCHANGED <<dnsCache, req, conns, client, server, issued, wmpf>>
  PROVE  /\ ReqShaped' /\ ClientShaped' /\ ServerShaped' /\ Counted' /\ SessionInv'
         /\ Quiet' /\ ServerHonest' /\ ClientHonest' /\ Agreed'
         /\ Tried' = Tried /\ req'.at = "awaiting" /\ req'.left # <<>> /\ server'.at = "short"
<1>1. ReqShaped' /\ ClientShaped' /\ ServerShaped'
  BY Parts DEF ReqShaped, ClientShaped, ServerShaped
<1>2. Counted' /\ SessionInv'
  BY Parts, CountedStays, SessionStays
<1>3. ~Attached /\ ~Attached' /\ client' = NewClient
  BY Parts DEF Quiet, Attached, Connected
<1>4. Quiet' /\ ServerHonest' /\ ClientHonest' /\ Agreed'
  BY <1>3, NotAttached
<1>5. Tried' = Tried
  BY DEF Tried, Answered
<1>6. req'.left # <<>> /\ server'.at = "short"
  BY Parts DEF Awaited
<1> QED  BY <1>1, <1>2, <1>4, <1>5, <1>6

\* WeChat carries the envelope out; until then each execution had an answer unheard.
LEMMA ExecuteKeeps ==
  ASSUME LinkInv, Execute
  PROVE  LinkInv'
<1>1. PICK type \in AnswerTypes, hash \in Hashes, seq \in 1 .. 3 :
         wire' = [wire EXCEPT !.up = <<>>, !.down = <<Answered(type, hash, seq)>>]
  BY DEF Execute
<1>2. /\ req.at = "awaiting" /\ wire.open /\ wire.up # <<>> /\ executed' = executed + 1
      /\ UNCHANGED <<dnsCache, req, conns, client, server, cause, issued, wmpf, unheard>>
  BY DEF Execute
<1>3. /\ ReqShaped' /\ ClientShaped' /\ ServerShaped' /\ Counted' /\ SessionInv'
      /\ Quiet' /\ ServerHonest' /\ ClientHonest' /\ Agreed'
      /\ Tried' = Tried /\ req'.at = "awaiting" /\ req'.left # <<>> /\ server'.at = "short"
  BY <1>2, AtTarget
<1> DEFINE answer == Answered(type, hash, seq)
<1>4. answer \in Tried
  BY DEF Tried
<1> HIDE DEF answer
<1>5. /\ Line(<<answer>>) /\ <<answer>>[1] = answer /\ <<answer>> # <<>> /\ Line(<<>>)
  BY LineOne, LineEmpty
<1>6. WireShaped' /\ WireBecomes(<<>>, <<answer>>, wire.open)
  <2>1. wire' = [wire EXCEPT !.up = <<>>, !.down = <<answer>>]
    BY <1>1 DEF answer
  <2> QED  BY <1>5, <2>1, Parts, WireBoth
<1>7. executed <= unheard /\ executed \in Nat /\ unheard \in Nat
  BY <1>2, Parts DEF Awaited, RestShaped
<1>8. RestShaped'
  BY <1>2, <1>7, Parts DEF RestShaped
<1>9. Awaited'
  <2>1. wire'.up = <<>> /\ wire'.down # <<>> /\ wire'.down[1] \in Tried'
    BY <1>3, <1>4, <1>5, <1>6 DEF WireBecomes
  <2>2. executed' <= unheard' + 1
    BY <1>2, <1>7
  <2> QED  BY <1>3, <2>1, <2>2 DEF Awaited
<1> QED  BY <1>3, <1>6, <1>8, <1>9, Whole

\* WeChat does not take the ticket.
LEMMA RefuseTicketKeeps ==
  ASSUME LinkInv, RefuseTicket
  PROVE  LinkInv'
<1>1. /\ req.at = "awaiting" /\ wire.up # <<>> /\ cause' = TRUE
      /\ wire' = [wire EXCEPT !.up = <<>>, !.open = FALSE]
      /\ UNCHANGED <<dnsCache, req, conns, client, server, issued, wmpf, shortlink>>
  BY DEF RefuseTicket
<1>2. /\ ReqShaped' /\ ClientShaped' /\ ServerShaped' /\ Counted' /\ SessionInv'
      /\ Quiet' /\ ServerHonest' /\ ClientHonest' /\ Agreed'
      /\ Tried' = Tried /\ req'.at = "awaiting" /\ req'.left # <<>> /\ server'.at = "short"
  BY <1>1, AtTarget
<1>3. WireShaped' /\ WireBecomes(<<>>, wire.down, FALSE)
  BY <1>1, Parts, WireHungUp
<1>4. RestShaped'
  BY <1>1, Parts, RestStays DEF shortlink, RestShaped
<1>5. Awaited'
  <2>1. wire.down = <<>> /\ wire'.down = <<>> /\ executed <= unheard + 0
    BY <1>1, <1>3, Parts DEF Awaited, WireBecomes
  <2>2. executed \in Nat /\ unheard \in Nat /\ executed' = executed /\ unheard' = unheard
    BY <1>1, Parts DEF RestShaped, shortlink
  <2>3. executed' <= unheard' + 0 /\ executed' <= unheard' + 1
    BY <2>1, <2>2
  <2> QED  BY <1>1, <1>2, <2>1, <2>3 DEF Awaited
<1> QED  BY <1>2, <1>3, <1>4, <1>5, Whole

\* The answer, or the envelope, is lost.
LEMMA LoseAnswerKeeps ==
  ASSUME LinkInv, LoseAnswer
  PROVE  LinkInv'
<1>1. /\ req.at = "awaiting" /\ cause' = TRUE
      /\ wire' = [up |-> <<>>, down |-> <<>>, open |-> FALSE]
      /\ unheard' = IF Arrived THEN unheard + 1 ELSE unheard
      /\ UNCHANGED <<dnsCache, req, conns, client, server, issued, wmpf, executed>>
  BY DEF LoseAnswer
<1>2. /\ ReqShaped' /\ ClientShaped' /\ ServerShaped' /\ Counted' /\ SessionInv'
      /\ Quiet' /\ ServerHonest' /\ ClientHonest' /\ Agreed'
      /\ Tried' = Tried /\ req'.at = "awaiting" /\ req'.left # <<>> /\ server'.at = "short"
  BY <1>1, AtTarget
<1>3. WireShaped' /\ WireBecomes(<<>>, <<>>, FALSE)
  BY <1>1, WireEnded
<1>4. executed \in Nat /\ unheard \in Nat /\ unheard' \in Nat
  BY <1>1, Parts DEF RestShaped
<1>5. RestShaped'
  BY <1>1, <1>4, Parts DEF RestShaped
<1>6. Awaited'
  <2>1. executed <= unheard + (IF wire.down = <<>> THEN 0 ELSE 1)
    BY <1>1, Parts DEF Awaited
  <2>2. executed' <= unheard'
    BY <1>1, <1>4, <2>1 DEF Arrived
  <2>3. executed' <= unheard' + 0 /\ executed' <= unheard' + 1
    BY <1>1, <1>4, <2>2
  <2>4. wire'.down = <<>>
    BY <1>3 DEF WireBecomes
  <2> QED  BY <1>1, <1>2, <2>3, <2>4 DEF Awaited
<1> QED  BY <1>2, <1>3, <1>5, <1>6, Whole

\* The connection to a target is given up.
LEMMA TargetLeft ==
  ASSUME LinkInv, req.at = "awaiting", req'.at \in {"idle", "sending"}, conns' = {}, Forget,
         ReqShaped', req'.n = req.n, req'.logins = req.logins, req'.proxy = req.proxy,
         cause' \in BOOLEAN, unheard' \in Nat, executed' <= unheard' + 1,
         req'.at = "sending" => executed' <= unheard',
         UNCHANGED <<dnsCache, issued, wmpf, executed>>
  PROVE  LinkInv'
<1>1. ClientShaped' /\ ServerShaped' /\ WireShaped' /\ RestShaped'
  BY Parts, ForgetAll DEF RestShaped
<1>2. Quiet' /\ ServerHonest' /\ ClientHonest' /\ Agreed'
  BY Parted DEF Elsewhere, Forget
<1>3. Counted'
  BY Parts, FS_EmptySet DEF Counted, Attached, Connected
<1>4. SessionInv'
  BY Parts DEF SessionInv, SessionKept, KeysShared, ProxyKept, Attached, Connected
<1>5. Awaited'
  BY Parts DEF Awaited
<1> QED  BY <1>1, <1>2, <1>3, <1>4, <1>5, Whole

\* An answer is heard; an empty one counts as unheard.
LEMMA HeardKeeps ==
  ASSUME LinkInv, Heard
  PROVE  LinkInv'
<1>1. /\ req.at = "awaiting" /\ conns' = {} /\ Forget
      /\ UNCHANGED <<dnsCache, issued, wmpf, executed>>
  BY DEF Heard
<1>2. /\ executed <= unheard + 1 /\ executed \in Nat /\ unheard \in Nat /\ req.left # <<>>
      /\ cause \in BOOLEAN
  BY <1>1, Parts DEF RestShaped, Awaited
<1>3. CASE req' = [req EXCEPT !.at = "idle"] /\ UNCHANGED <<cause, unheard>>
  <2>1. ReqShaped' /\ ReqBecomes("idle", req.proxy, req.tries, req.left, req.n, req.logins)
    BY <1>3, Parts, ReqMoved DEF Stages
  <2> QED  BY <1>1, <1>2, <1>3, <2>1, TargetLeft DEF ReqBecomes
<1>4. CASE /\ req' = [req EXCEPT !.at = "sending", !.left = Tail(req.left)]
           /\ cause' = TRUE /\ unheard' = unheard + 1
  <2>1. Line(Tail(req.left))
    BY <1>2, Parts, ReqFields, LineTail
  <2>2. ReqShaped' /\ ReqBecomes("sending", req.proxy, req.tries, Tail(req.left), req.n, req.logins)
    BY <1>4, <2>1, Parts, ReqMovedLeft DEF Stages
  <2>3. unheard' \in Nat /\ executed' <= unheard' /\ executed' <= unheard' + 1 /\ cause' \in BOOLEAN
    BY <1>1, <1>2, <1>4
  <2> QED  BY <1>1, <2>2, <2>3, TargetLeft DEF ReqBecomes
<1> QED  BY <1>3, <1>4 DEF Heard, Proceed

\* Nothing has come back from a target.
LEMMA TargetFailsKeeps ==
  ASSUME LinkInv, TargetFails
  PROVE  LinkInv'
<1>1. /\ req.at = "awaiting" /\ conns' = {} /\ Forget
      /\ req' = [req EXCEPT !.at = "sending", !.left = Tail(req.left)]
      /\ UNCHANGED <<dnsCache, cause, issued, wmpf, executed, unheard>>
  BY DEF TargetFails, shortlink
<1>2. req.left # <<>> /\ executed \in Nat /\ unheard \in Nat /\ cause \in BOOLEAN
  BY <1>1, Parts DEF RestShaped, Awaited
<1>3. wire.down = <<>> /\ executed <= unheard + 0
  <2>1. ~Arrived
    BY <1>1, Parts DEF TargetFails, Awaited, Arrived, Received
  <2>2. wire.down = <<>>
    BY <2>1 DEF Arrived
  <2> QED  BY <1>1, <2>2, Parts DEF Awaited
<1>4. Line(Tail(req.left))
  BY <1>2, Parts, ReqFields, LineTail
<1>5. ReqShaped' /\ ReqBecomes("sending", req.proxy, req.tries, Tail(req.left), req.n, req.logins)
  BY <1>1, <1>4, Parts, ReqMovedLeft DEF Stages
<1>6. executed' <= unheard' /\ executed' <= unheard' + 1 /\ cause' \in BOOLEAN /\ unheard' \in Nat
  BY <1>1, <1>2, <1>3
<1> QED  BY <1>1, <1>5, <1>6, TargetLeft DEF ReqBecomes

\* The invariant holds at the start.
LEMMA LinkInvInit == LinkInit => LinkInv
<1> SUFFICES ASSUME LinkInit PROVE LinkInv
  OBVIOUS
<1> USE DEF LinkInit
<1>1. ReqShaped
  BY LineEmpty DEF ReqShaped, Idle, Stages
<1>2. ClientShaped /\ ServerShaped /\ WireShaped
  BY LineEmpty
  DEF ClientShaped, ServerShaped, WireShaped, NewClient, NewServer, NewWire, ServerStages
<1>3. RestShaped
  BY DEF RestShaped
<1>4. Counted
  <2>1. MaxTargets \in Nat /\ MaxLogins \in Nat /\ MaxTargets * 0 = 0
    BY MmtlsLoginAssumption
  <2>2. req.at = "idle" /\ req.n = 0 /\ req.logins = 0 /\ conns = {}
    BY DEF Idle
  <2> QED  BY <2>1, <2>2, FS_EmptySet DEF Counted, Attached, Connected
<1>5. Quiet /\ ServerHonest /\ ClientHonest /\ Agreed
  BY DEF Idle, Quiet, ServerHonest, ClientHonest, Agreed, Attached, Connected
<1>6. SessionInv
  BY DEF Idle, SessionInv, SessionKept, KeysShared, ProxyKept, Attached, Connected
<1>7. Awaited
  BY DEF Idle, Awaited
<1> QED  BY <1>1, <1>2, <1>3, <1>4, <1>5, <1>6, <1>7 DEF LinkInv, Shaped

\* Every step of the link preserves the invariant: one lemma per action.
LEMMA LinkInvNext == LinkInv /\ LinkNext => LinkInv'
<1> SUFFICES ASSUME LinkInv, LinkNext PROVE LinkInv'
  OBVIOUS
<1> QED
  BY LoginKeeps, ResolvingKeeps, ResolveFailsKeeps, OthersResolveKeeps, DialKeeps, DialFailsKeeps,
     LoginGivesUpKeeps, SendClientHelloKeeps, RecvServerHelloKeeps, RecvFlightKeeps,
     SendClientFinishedKeeps, SendManualAuthKeeps, RecvManualAuthKeeps, AttemptFailsKeeps,
     AcceptHelloKeeps, AcceptFinishedKeeps, AnswerManualAuthKeeps, HangUpKeeps, BreakKeeps,
     AlterHelloKeeps, SendEnvelopeKeeps, SendToKeeps, SendToFailsKeeps, ExecuteKeeps,
     RefuseTicketKeeps, LoseAnswerKeeps, HeardKeeps, TargetFailsKeeps, SendGivesUpKeeps
     DEF LinkNext

----------------------------------------------------------------------------
(* The theorems *)

\* Nothing changes, and the ends agree as before.
LEMMA AgreedStutter ==
  ASSUME Agreed, UNCHANGED linkVars
  PROVE  Agreed'
<1> USE DEF linkVars
<1>1. /\ ClientHello' = ClientHello /\ LoginRequest' = LoginRequest
      /\ LoginResponse(LoginRequest)' = LoginResponse(LoginRequest)
  BY SameTerms
<1>2. Greeted => Greeted'
  BY GreetedStays
<1>3. \A seq : FlightRecord(seq)' = FlightRecord(seq)
  BY DEF FlightRecord, Fed, ServerFinished
<1>4. FlightDue => FlightDue'
  BY <1>3 DEF FlightDue
<1>5. Shook => Shook'
  BY DEF Shook
<1>6. ClientFinished' = ClientFinished /\ LoginRecord' = LoginRecord /\ LoginAnswer' = LoginAnswer
  BY <1>1 DEF ClientFinished, LoginRecord, LoginAnswer
<1>7. Connected' <=> Connected
  BY DEF Connected
<1> QED  BY <1>1, <1>2, <1>4, <1>5, <1>6, <1>7 DEF Agreed

\* Nothing changes, and the invariant holds as before.
LEMMA LinkInvStutter ==
  ASSUME LinkInv, UNCHANGED linkVars
  PROVE  LinkInv'
<1> USE DEF linkVars
<1>1. ReqShaped' /\ ClientShaped' /\ ServerShaped' /\ WireShaped'
  BY Parts DEF ReqShaped, ClientShaped, ServerShaped, WireShaped
<1>2. RestShaped'
  BY Parts DEF RestShaped
<1>3. Counted' /\ SessionInv'
  BY Parts, CountedStays, SessionStays
<1>4. Quiet' /\ ClientHonest'
  BY Parts DEF Quiet, ClientHonest, Attached, Connected
<1>5. SessionKeys' = SessionKeys
  BY DEF SessionKeys
<1>6. ServerHonest'
  BY <1>5, Parts DEF ServerHonest, FromServer, Attached, Connected
<1>7. Awaited'
  BY Parts DEF Awaited, Tried, Answered
<1> QED  BY <1>1, <1>2, <1>3, <1>4, <1>6, <1>7, Parts, AgreedStutter, Whole

\* The link keeps its invariant, whatever the name service, WeChat and the network do.
THEOREM LinkInvariant == LinkSpec => []LinkInv
<1>1. LinkInv /\ [LinkNext]_linkVars => LinkInv'
  BY LinkInvNext, LinkInvStutter
<1> QED  BY LinkInvInit, <1>1, PTL DEF LinkSpec

\* The link is always well typed; its connections are closed when a login or a sending has
\* returned, and never more than MaxTargets of them are open (connectMmtls and the deferred
\* closes of loginAndSession and send0RTTRaw).
THEOREM LinkTyping == LinkSpec => []LinkTypeOK
<1>1. LinkInv => LinkTypeOK
  <2> SUFFICES ASSUME LinkInv PROVE LinkTypeOK
    OBVIOUS
  <2>1. /\ req.at \in Stages /\ req.tries \in 0 .. 2 /\ req.n \in Nat /\ req.logins \in Nat
        /\ Line(req.left)
    BY Parts, ReqFields
  <2>2. Len(req.left) \in Nat /\ (req.left # <<>> => Len(req.left) >= 1)
    BY <2>1, LineTail
  <2>3. /\ MaxConns \in Nat /\ MaxTargets \in Nat \ {0}
        /\ MaxTargets * req.logins \in Nat /\ MaxTargets * req.logins <= MaxConns
    BY Parts, Numbers
  <2>4. req.n \in 0 .. MaxConns
    BY <2>1, <2>3, Parts DEF Counted
  <2>5. IsFiniteSet(conns) /\ Cardinality(conns) \in Nat
    BY Parts, FS_CardinalityType DEF Counted
  <2>6. Cardinality(conns) <= MaxTargets
    <3>1. CASE req.at \in {"idle", "resolving", "ready", "sending"}
      BY <2>3, <3>1, Parts, FS_EmptySet DEF Counted
    <3>2. CASE req.at = "dialing"
      BY <2>2, <2>3, <2>5, <3>2, Parts DEF Counted
    <3>3. CASE Attached
      BY <2>2, <2>3, <2>5, <3>3, Parts DEF Counted
    <3>4. CASE req.at = "awaiting"
      BY <2>3, <3>4, Parts DEF Counted
    <3> QED  BY <2>1, <3>1, <3>2, <3>3, <3>4 DEF Stages, Attached, Connected
  <2>7. client.tx \in 0 .. 3 /\ client.rx \in Nat /\ client.tickets \in TicketTypes \cup {{}}
    BY Parts DEF ClientShaped
  <2> QED  BY <2>1, <2>4, <2>6, <2>7, Parts DEF LinkTypeOK, Counted, RestShaped
<1> QED  BY LinkInvariant, <1>1, PTL

\* A session, its ticket first, has the keys WeChat has for it, even if hellos were altered on
\* the way, and one asked for over a proxy sends nothing without it (extractPSKs,
\* recvServerFlight, hybridECDHDecrypt, sendEnvelope).
THEOREM KeysAgree == LinkSpec => []SessionKept
<1>1. LinkInv => SessionKept
  BY Parts DEF SessionInv
<1> QED  BY LinkInvariant, <1>1, PTL

\* An envelope is carried out once more than its answers were lost or empty, and never more
\* often (send0RTT): the loop over the targets repeats nothing that was heard.
THEOREM NotRepeated == LinkSpec => []RepeatedOnlyUnheard
<1>1. LinkInv => RepeatedOnlyUnheard
  BY Parts DEF RepeatedOnlyUnheard
<1> QED  BY LinkInvariant, <1>1, PTL

\* A record of the flight that nobody has touched is one the client goes on with.
LEMMA FlightExpected ==
  ASSUME LinkInv, req.at = "flight", ~cause, Arrived
  PROVE  Expected
<1>1. /\ Greeted /\ FlightDue /\ Received = FlightRecord(client.rx)
      /\ client.rx \in Nat /\ Len(server.hFinal) \in Nat
      /\ (client.secret = <<>> <=> client.rx = 0)
  BY AgreedFlight
<1>2. CASE client.secret = <<>>
  <2>1. Received = Plain(Fed(2))
    BY <1>1, <1>2 DEF FlightRecord
  <2>2. Fed(2) = Msg("ServerHello", Share("server"))
    BY <1>1 DEF Fed, Greeted
  <2> QED  BY <1>2, <2>1, <2>2 DEF Expected, Plain, Sealed, Msg
<1>3. CASE client.secret # <<>>
  <2>1. /\ client.rx > 0 /\ client.rx < Len(server.hFinal)
        /\ client.secret = server.secret /\ client.hChSh = server.hChSh
        /\ client.transcript = SubSeq(server.hFinal, 1, client.rx + 1)
    <3>1. client.rx > 0
      BY <1>1, <1>3
    <3> QED  BY <1>1, <3>1 DEF FlightDue
  <2>2. Received = Sealed(HandshakeKey("server", server.secret, server.hChSh), client.rx,
                          Fed(client.rx + 2))
    BY <1>1, <2>1 DEF FlightRecord
  <2>3. Opens(Received, HandshakeKey("server", client.secret, client.hChSh), client.rx)
    BY <2>1, <2>2 DEF Opens, Sealed
  <2>4. Received.msg = Fed(client.rx + 2)
    BY <2>2 DEF Sealed
  <2>5. ASSUME Received.msg.type = "Finished"
        PROVE  Received.msg.data = VerifyData("server", client.secret, client.transcript)
    <3>1. ~(client.rx + 2 <= Len(server.hFinal))
      <4> SUFFICES ASSUME client.rx + 2 <= Len(server.hFinal) PROVE FALSE
        OBVIOUS
      <4>1. client.rx + 2 \in 3 .. Len(server.hFinal)
        BY <1>1, <2>1
      <4>2. Fed(client.rx + 2) = server.hFinal[client.rx + 2]
        BY DEF Fed
      <4> QED  BY <1>1, <2>4, <2>5, <4>1, <4>2 DEF Greeted
    <3>2. client.rx + 1 = Len(server.hFinal)
      BY <1>1, <2>1, <3>1
    <3>3. Line(server.hFinal)
      BY <1>1 DEF Greeted
    <3>4. SubSeq(server.hFinal, 1, Len(server.hFinal)) = server.hFinal
      BY <3>3 DEF Line
    <3>5. client.transcript = server.hFinal
      BY <2>1, <3>2, <3>4
    <3>6. Received.msg = ServerFinished
      BY <2>4, <3>1 DEF Fed
    <3>7. ServerFinished.data = VerifyData("server", server.secret, server.hFinal)
      BY DEF ServerFinished, Msg
    <3> QED  BY <2>1, <3>5, <3>6, <3>7
  <2> QED  BY <1>3, <2>3, <2>5 DEF Expected
<1> QED  BY <1>2, <1>3

\* The answer to the login is one it goes on with.
LEMMA AnswerExpected ==
  ASSUME LinkInv, req.at = "answering", ~cause, Arrived
  PROVE  Expected
<1>1. /\ Greeted /\ Shook /\ wire.down = <<LoginAnswer>> /\ server.at = "done"
  BY Parts DEF Agreed, Connected, Arrived
<1>2. Received = LoginAnswer
  BY <1>1 DEF Received
<1>3. server.tx = client.rx /\ client.secret = server.secret /\ client.hFinal = server.hFinal
  BY <1>1 DEF Greeted, Shook
<1>4. Opens(Received, AppKey("server", client.secret, client.hFinal), client.rx)
  BY <1>2, <1>3 DEF Opens, LoginAnswer, Sealed
<1>5. Received.msg.type = "ManualAuthResponse" /\ Received.msg.data[1] = LoginRequest.data
  BY <1>2 DEF LoginAnswer, Sealed, LoginResponse, Msg
<1> QED  BY <1>1, <1>4, <1>5 DEF Expected, Shook

\* Undisturbed, a record that has arrived is one the client goes on with, and the connection is
\* up: an attempt does not fail.
LEMMA AttemptCause ==
  ASSUME LinkInv, AttemptFails
  PROVE  cause
<1> SUFFICES ASSUME ~cause PROVE FALSE
  OBVIOUS
<1>1. Connected
  BY DEF AttemptFails, Connected
<1>2. wire.open
  BY <1>1, Parts DEF Agreed
<1>3. Arrived /\ req.at \in {"flight", "answering"} /\ ~Expected
  BY <1>2 DEF AttemptFails
<1> QED  BY <1>3, FlightExpected, AnswerExpected

\* What comes back from a target is an answer that opens.
LEMMA TargetCause ==
  ASSUME LinkInv, TargetFails
  PROVE  cause
<1>1. req.at = "awaiting" /\ (IF Arrived THEN Received \notin Tried ELSE ~wire.open)
  BY DEF TargetFails
<1>2. wire.down # <<>> => wire.down[1] \in Tried
  BY <1>1, Parts DEF Awaited
<1>3. wire.down = <<>> /\ ~wire.open
  BY <1>1, <1>2 DEF Arrived, Received
<1> QED  BY <1>1, <1>3, Parts DEF Awaited

\* An attempt on a target fails only after the network, the proxy or WeChat has let it down:
\* the numbers, hashes and keys of the two ends never part by themselves (mmtls_client.go,
\* shortlink.go).
THEOREM Caused == LinkSpec => FailureHasCause
<1>1. LinkInv /\ [LinkNext]_linkVars => [AttemptFails \/ TargetFails => cause]_linkVars
  BY AttemptCause, TargetCause
<1> QED  BY LinkInvariant, <1>1, PTL DEF LinkSpec, FailureHasCause
=============================================================================
