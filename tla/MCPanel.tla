------------------------------ MODULE MCPanel ------------------------------
(* A small instance of Panel for TLC. *)
EXTENDS Panel, TLC

\* Bounds: when calls that share something have overlapped, the process does not restart and
\* they are a save and a status while nothing is on the panels, or calls on YYB_SERVER of
\* one panel.
SaveAndStatus ==
    /\ \A c \in Calls : call[c].at \in {"idle", "asking", "retrying"} \cup Saving
    /\ Cardinality({c \in Calls : call[c].at \in Saving}) <= 1
    /\ \A p \in Panels : envs[p] = <<>>
OnServers ==
    /\ settings = manager.config /\ settings = manager.driver
    /\ \A c \in Calls : call[c].at \notin {"asking", "retrying"} \cup Saving
\* In any case one request at a time asks for the status, when the panel is of the other type,
\* and accounts are put on one of the panels only; a process that starts from a
\* configuration saved in part is not followed further.
Bounds ==
    /\ Cardinality({c \in Calls : call[c].at \in {"asking", "retrying"}}) <= 1
    /\ \A c \in Calls : call[c].at = "asking" => NotFound(call[c].config)
    /\ restarts > 0 /\ torn => \E c \in Calls : call[c].at = "persisting"
    /\ \E p \in Panels : \A i \in DOMAIN envs[p] : envs[p][i] = {Foreign}
    /\ shared => restarts = 0 /\ (SaveAndStatus \/ OnServers)

\* told and torn matter only while no calls have overlapped.
Relevant == <<settings, manager, envs, call, IF shared THEN <<>> ELSE <<told, torn>>, restarts>>

CallSymmetry == Permutations(Calls)
============================================================================
