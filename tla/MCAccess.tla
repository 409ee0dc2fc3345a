------------------------------ MODULE MCAccess ------------------------------
(* A small instance of Access for TLC. *)
EXTENDS Access, TLC

CONSTANTS manager, member

Generated == [chosen |-> FALSE, open |-> FALSE, auth |-> TRUE]
Given == [chosen |-> TRUE, open |-> FALSE, auth |-> TRUE]
Open == [chosen |-> FALSE, open |-> TRUE, auth |-> TRUE]
Local == [chosen |-> FALSE, open |-> TRUE, auth |-> FALSE]
ConfigsMC == {Generated, Given, Open, Local}

\* A directory whose name begins like another one's.
ScriptsMC == {<<"a", "x">>, <<"ab", "x">>}

Account(owner, shared, alive, updated) ==
    [owner |-> owner, shared |-> shared, alive |-> alive, updated |-> updated]

Scene(c, attemptsLeft, callsLeft, changesLeft, users, first, second, dirs, made) ==
    [config |-> c, attempts |-> attemptsLeft, calls |-> callsLeft, changes |-> changesLeft,
     signed |-> users, admins |-> {manager}, account |-> <<first, second>>,
     setting |-> [form |-> "json", dirs |-> dirs], jobs |-> made]

\* Attempts alone, one login before a call, and calls with a change under them; the member's
\* account has a job of a script outside the visible directory.
ScenesMC ==
    {Scene(Generated, 4, 0, 0, {}, Account(manager, TRUE, TRUE, 1), Account(member, TRUE, TRUE, 1),
           {}, {}),
     Scene(Given, 1, 1, 1, {manager},
           Account(manager, TRUE, TRUE, 1), Account(member, TRUE, TRUE, 1), {<<"a">>}, {})}
    \cup {Scene(c, 0, 2, 1, {manager, member},
                 Account(manager, TRUE, TRUE, 2), Account(member, FALSE, TRUE, 1), {<<"a">>},
                 {<<2, <<"ab", "x">>>>})
            : c \in {Generated, Local}}
    \cup {Scene(c, 0, 2, 1, {manager, member},
                 Account(member, TRUE, FALSE, 2), Account(Nobody, TRUE, TRUE, 1), {}, {})
            : c \in {Given, Open}}

RequestSymmetry == Permutations(Requests)
============================================================================
