---------------------------- MODULE MCUserStore ----------------------------
(* Small instances of UserStore for TLC. *)
EXTENDS UserStore, TLC

RequestSymmetry == Permutations(Requests)

\* Bound: one user at a time has been signed out.  What outlives a sign-out concerns
\* the one user and its sessions.
OneSignedOut == Cardinality({u \in DOMAIN users : users[u].epoch > 0}) <= 1
============================================================================
