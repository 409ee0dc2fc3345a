---------------------------- MODULE MCScriptJobs ----------------------------
(* Small instances of ScriptJobs for TLC. *)
EXTENDS ScriptJobs

\* Bounds: the accounts begin with one user; one of them changes hands, or one is deleted
\* and one cron goes, with it or alone; one request at a time lists the jobs, and from the
\* change on one enables and one runs them.
OneUser == \E u \in Owners : \A a \in Accounts : u \in owners[a]
Moved == {a \in Accounts : Cardinality(owners[a]) > 1}
Deleted == {a \in Accounts : owner[a] = Gone}
Lost == 1 .. lastCron \ DOMAIN cron
Busy(purposes) == {r \in Requests : req[r].at # "idle" /\ req[r].for \in purposes}

FewChanges ==
    /\ OneUser
    /\ Cardinality(Moved \cup Deleted) <= 1 /\ Cardinality(Lost) <= 1
    /\ Moved = {} \/ Lost = {}
    /\ Cardinality(Busy({"list", "heal", "sync"})) <= 1
    /\ Moved \cup Deleted # {} =>
          Cardinality(Busy({"enable"})) <= 1 /\ Cardinality(Busy({"run"})) <= 1

Symmetry == Permutations(Requests) \cup Permutations(Accounts) \cup Permutations(Owners)
============================================================================
