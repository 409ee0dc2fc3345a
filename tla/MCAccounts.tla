----------------------------- MODULE MCAccounts -----------------------------
(* Small instances of Accounts for TLC. *)
EXTENDS Accounts, TLC

\* Bounds: no credentials expire (MCAccounts_live lets them) and one at a time is due; the
\* third credentials and the second row are not both used.
FewCredentials ==
    /\ \A t \in 1 .. Len(issued) : issued[t].age < Over
    /\ Cardinality({t \in 1 .. Len(issued) : issued[t].age = Due}) <= 1
    /\ lastId + Len(issued) <= 4

RequestSymmetry == Permutations(Requests)
============================================================================
