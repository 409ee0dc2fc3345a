---------------------------- MODULE MCScanLogin ----------------------------
(* Small instances of ScanLogin for TLC. *)
EXTENDS ScanLogin, TLC

\* Bounds: at most one session grows old; the phone is used on the first code only.
OneStory == Cardinality(late) <= 1 /\ \A s \in Scans \ {1} : phone[s] \in {"none", "shown"}

ClientSymmetry == Permutations(Clients)
============================================================================
