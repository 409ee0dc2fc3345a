---------------------------- MODULE LoginFlight ----------------------------
(***************************************************************************)
(* What the session pool promises, without its mutexes and channels: per   *)
(* key (account and proxy) there is at most one login in flight, none      *)
(* while the key has a live session, never more than Limit of them         *)
(* together, and each one ends.  SessionPool implements this module.       *)
(***************************************************************************)
EXTENDS Naturals, FiniteSets

CONSTANTS Keys,   \* (account, proxy) pairs
          Limit   \* logins allowed at the same time

VARIABLES live,   \* keys with a session that can be used
          flight  \* keys somebody is logging in for

vars == <<live, flight>>

Init == live = {} /\ flight = {}

Depart(k) ==
    /\ k \notin live \cup flight
    /\ Cardinality(flight) < Limit
    /\ flight' = flight \cup {k}
    /\ UNCHANGED live

\* The login produced a session.
Land(k) ==
    /\ k \in flight
    /\ flight' = flight \ {k}
    /\ live' = live \cup {k}

\* The login failed, or its session could not be stored.
Lose(k) ==
    /\ k \in flight
    /\ flight' = flight \ {k}
    /\ UNCHANGED live

\* Sessions expire, are invalidated, or go with their account.
Drop ==
    /\ \E gone \in SUBSET live : live' = live \ gone
    /\ UNCHANGED flight

Next == Drop \/ \E k \in Keys : Depart(k) \/ Land(k) \/ Lose(k)

Spec == Init /\ [][Next]_vars

FairSpec == Spec /\ \A k \in Keys : WF_vars(Land(k) \/ Lose(k))
============================================================================
