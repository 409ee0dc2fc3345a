---------------------------- MODULE MCEmailCode ----------------------------
(* Small instances of EmailCode for TLC. *)
EXTENDS EmailCode, TLC

RequestSymmetry == Permutations(Requests) \cup Permutations(Emails)

\* Bound: all requests together are made within the first ticks only.
OneLeft == clock <= 1 \/ \E r \in Requests : pc[r] = "new"
============================================================================
