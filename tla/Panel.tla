------------------------------- MODULE Panel -------------------------------
(***************************************************************************)
(* The task panel (QingLong or Daidai) the gateway works with: which one,  *)
(* and the list of accounts the gateway keeps there in YYB_SERVER.         *)
(*                                                                         *)
(* panelManager holds the configuration in use and a driver made from it;  *)
(* every operation takes the driver of the moment.  handleQingLongConfig   *)
(* tests a new configuration, saves it key by key and then puts it in use. *)
(* status may find that the panel is of the other type, and changes the    *)
(* driver.  Synchronising or deleting an account reads YYB_SERVER, changes *)
(* the text and writes it back: two calls that overlap overwrite each      *)
(* other.                                                                  *)
(*                                                                         *)
(* The panels are external.  Their environment variables named YYB_SERVER  *)
(* are kept in the order they list them, each as the set of its lines.     *)
(* Jobs are the matter of ScriptJobs.                                      *)
(***************************************************************************)
EXTENDS Naturals, Sequences, FiniteSets, FiniteSetsExt

CONSTANTS Calls,       \* requests under way at the same time
          QingLongs,   \* addresses of QingLong panels
          Daidais,     \* addresses of Daidai panels
          NoPanel,     \* the empty address, and the empty secret
          Accounts,    \* accounts of the gateway
          Foreign,     \* a line of YYB_SERVER that is none of theirs
          MaxEnvs,     \* bound: variables of that name on a panel
          MaxRestarts  \* bound: restarts of the process

Panels == QingLongs \cup Daidais
Lines == Accounts \cup {Foreign}

\* What the variables of a panel may say, one set of lines for each.
Lists == UNION {[1 .. n -> SUBSET Lines] : n \in 0 .. MaxEnvs}

ASSUME PanelAssumption ==
    /\ QingLongs \cap Daidais = {} /\ NoPanel \notin Panels
    /\ Foreign \notin Accounts
    /\ MaxEnvs \in Nat \ {0} /\ MaxRestarts \in Nat

VARIABLES settings,  \* qinglong_type, qinglong_url, qinglong_client_secret as a start loads them:
                     \* saved, or those of the environment, which stays what it is
          manager,   \* panelManager: the fields and the driver
          envs,      \* the variables YYB_SERVER of each panel
          call,
          told,      \* what the callers were told last about a line on a panel
          torn,      \* a configuration was saved in part only
          shared,    \* two calls that can disturb each other have overlapped
          restarts

vars == <<settings, manager, envs, call, told, torn, shared, restarts>>

Types == {"qinglong", "daidai"}
Keys == {"type", "url", "secret"}
Config == [type : Types, url : Panels \cup {NoPanel}, secret : Panels \cup {NoPanel}]
Empty == [type |-> "qinglong", url |-> NoPanel, secret |-> NoPanel]

\* The secret of a panel has the name of the panel; the client id goes with the address.
Kind(p) == IF p \in QingLongs THEN "qinglong" ELSE "daidai"
OtherType(type) == IF type = "qinglong" THEN "daidai" ELSE "qinglong"

\* newPanelManager: the driver is made from the fields.
Manager(config) == [config |-> config, driver |-> config]

\* createDriver and authenticate: what the panel says to this type with this secret.
Works(d) == d.url \in Panels /\ d.secret = d.url /\ d.type = Kind(d.url)
NotFound(d) == d.url \in Panels /\ d.secret # NoPanel /\ d.type # Kind(d.url)

\* configured
Configured == manager.config.url # NoPanel /\ manager.config.secret # NoPanel

\* Every operation of the manager goes to the driver it has at that moment.
GetDriver == manager.driver

Stages == {"idle", "testing", "persisting", "asking", "retrying", "merging", "writing",
           "removing", "undoing"}

\* config: what is tested or saved; keys: those left to save; seen: the variables as listed;
\* left: those to change, and done: those changed; line: the account.
Idle == [at |-> "idle", config |-> Empty, keys |-> {}, left |-> {}, done |-> {},
         seen |-> <<>>, line |-> Foreign]

\* Two calls share something, unless one of them is idle or status and neither saves.
Saving == {"testing", "persisting"}
Sharing(a, b) == "idle" \notin {a, b} /\ ({a, b} \cap Saving # {} \/ {a, b} \cap {"asking", "retrying"} = {})

Start(c, new) ==
    /\ call[c].at = "idle"
    /\ call' = [call EXCEPT ![c] = new]
    /\ shared' = (shared \/ \E other \in Calls \ {c} : Sharing(call[other].at, new.at))

Finish(c) == call' = [call EXCEPT ![c] = Idle]

\* PUT by id (QingLong) or by name (Daidai) of the i-th variable.
Put(p, i, value) ==
    IF p \in Daidais
    THEN IF envs[p] = <<>> THEN <<value>> ELSE [envs[p] EXCEPT ![1] = value]
    ELSE [envs[p] EXCEPT ![i] = value]

Tell(p, line, what) == told' = [told EXCEPT ![p][line] = what]

\* mergeYYBServerValue and removeAccountFromYYBServer.
Merged(seen, line) == (IF seen = <<>> THEN {} ELSE seen[1]) \cup {line}
Without(value, line) == value \ {line}
Occurrences(seen, line) == {i \in DOMAIN seen : line \in seen[i]}
----------------------------------------------------------------------------
(* Faulty variants, one per property. *)

\* status putting a driver of the other type in use under the old type.
UseOtherTypeUnnamed(c) ==
    /\ call[c].at = "retrying"
    /\ Works(call[c].config)
    /\ manager' = [manager EXCEPT !.driver = call[c].config]
    /\ Finish(c)
    /\ UNCHANGED <<settings, envs, told, torn, shared, restarts>>

\* rollbackEnvs writing the values it should take back.
UndoAgain(c) ==
    LET i == Max(call[c].done)
        p == GetDriver.url
    IN
    /\ call[c].at = "undoing" /\ call[c].done # {}
    /\ Works(GetDriver) /\ i \in DOMAIN envs[p]
    /\ envs' = [envs EXCEPT ![p] = Put(p, i, Without(call[c].seen[i], call[c].line))]
    /\ call' = [call EXCEPT ![c].done = @ \ {i}]
    /\ UNCHANGED <<settings, manager, told, torn, shared, restarts>>

\* persistQingLongConfig without the secret.
TestedKeepSecret(c) ==
    /\ call[c].at = "testing"
    /\ Works(call[c].config)
    /\ call' = [call EXCEPT ![c].at = "persisting", ![c].keys = Keys \ {"secret"}]
    /\ UNCHANGED <<settings, manager, envs, told, torn, shared, restarts>>

\* reconfigure with the driver it had.
ReconfigureFields(c) ==
    /\ call[c].at = "persisting" /\ call[c].keys = {}
    /\ manager' = [config |-> call[c].config, driver |-> [manager.driver EXCEPT !.type = call[c].config.type]]
    /\ torn' = FALSE
    /\ Finish(c)
    /\ UNCHANGED <<settings, envs, told, shared, restarts>>
----------------------------------------------------------------------------
Init ==
    /\ settings \in {Empty} \cup {[type |-> Kind(p), url |-> p, secret |-> p] : p \in Panels}
    /\ manager = Manager(settings)
    /\ envs \in {e \in [Panels -> Lists] : \A p \in Daidais : Len(e[p]) <= 1}
    /\ call = [c \in Calls |-> Idle]
    /\ told = [p \in Panels |-> [l \in Lines |->
                 IF Occurrences(envs[p], l) = {} THEN "off" ELSE "on"]]
    /\ torn = FALSE /\ shared = FALSE
    /\ restarts = 0

(* The configuration: handleQingLongConfig *)

\* A secret left out is the one in use.
Configure(c, type, url, secret) ==
    LET kept == IF secret = NoPanel THEN manager.config.secret ELSE secret IN
    /\ kept # NoPanel
    /\ Start(c, [Idle EXCEPT !.at = "testing",
                             !.config = [type |-> type, url |-> url, secret |-> kept]])
    /\ UNCHANGED <<settings, manager, envs, told, torn, restarts>>

\* The candidate's status: good if the panel answers to either type.
Tested(c) ==
    LET config == call[c].config IN
    /\ call[c].at = "testing"
    /\ Works(config) \/ (NotFound(config) /\ Works([config EXCEPT !.type = OtherType(@)]))
    /\ call' = [call EXCEPT ![c].at = "persisting", ![c].keys = Keys]
    /\ UNCHANGED <<settings, manager, envs, told, torn, shared, restarts>>

Clear(c) ==
    /\ Start(c, [Idle EXCEPT !.at = "persisting", !.keys = Keys])
    /\ UNCHANGED <<settings, manager, envs, told, torn, restarts>>

\* persistQingLongConfig writes the keys in no particular order, each by itself.
Persist(c) ==
    /\ call[c].at = "persisting"
    /\ \E key \in call[c].keys :
          /\ settings' = [settings EXCEPT ![key] = call[c].config[key]]
          /\ call' = [call EXCEPT ![c].keys = @ \ {key}]
    /\ torn' = TRUE
    /\ UNCHANGED <<manager, envs, told, shared, restarts>>

\* reconfigure
Reconfigure(c) ==
    /\ call[c].at = "persisting" /\ call[c].keys = {}
    /\ manager' = IF manager.config = call[c].config THEN manager ELSE Manager(call[c].config)
    /\ torn' = FALSE
    /\ Finish(c)
    /\ UNCHANGED <<settings, envs, told, shared, restarts>>

(* status *)

Status(c) ==
    /\ Start(c, [Idle EXCEPT !.at = "asking", !.config = GetDriver])
    /\ UNCHANGED <<settings, manager, envs, told, torn, restarts>>

\* 404 or 405: a driver of the other type is made from the fields as they are now ...
TryOtherType(c) ==
    /\ call[c].at = "asking"
    /\ NotFound(call[c].config)
    /\ call' = [call EXCEPT ![c].at = "retrying",
                   ![c].config = [manager.config EXCEPT !.type = OtherType(call[c].config.type)]]
    /\ UNCHANGED <<settings, manager, envs, told, torn, shared, restarts>>

\* ... and takes the place of whatever driver there is when the panel has answered it.
UseOtherType(c) ==
    LET found == call[c].config IN
    /\ call[c].at = "retrying"
    /\ Works(found)
    /\ manager' = [config |-> [manager.config EXCEPT !.type = found.type], driver |-> found]
    /\ Finish(c)
    /\ UNCHANGED <<settings, envs, told, torn, shared, restarts>>

(* YYB_SERVER: syncAccountToQingLong *)

Sync(c, line) ==
    /\ Configured
    /\ Works(GetDriver)
    /\ Start(c, [Idle EXCEPT !.at = "merging", !.seen = envs[GetDriver.url], !.line = line])
    /\ UNCHANGED <<settings, manager, envs, told, torn, restarts>>

\* UpsertEnv of QingLong lists again to find the variable; that of Daidai needs not.
Upsert(c) ==
    /\ call[c].at = "merging"
    /\ Works(GetDriver)
    /\ call' = [call EXCEPT ![c].at = "writing", ![c].config = GetDriver,
                            ![c].left = IF envs[GetDriver.url] = <<>> THEN {} ELSE {1}]
    /\ UNCHANGED <<settings, manager, envs, told, torn, shared, restarts>>

\* The value is written to the variable found, or to a new one; the answer may be lost.
WriteServers(c) ==
    LET p == call[c].config.url
        value == Merged(call[c].seen, call[c].line)
    IN
    /\ call[c].at = "writing"
    /\ IF p \in QingLongs /\ call[c].left = {}
       THEN Len(envs[p]) < MaxEnvs /\ envs' = [envs EXCEPT ![p] = Append(@, value)]
       ELSE envs' = [envs EXCEPT ![p] = Put(p, 1, value)]
    /\ \E what \in {"on", "unknown"} : Tell(p, call[c].line, what)
    /\ Finish(c)
    /\ UNCHANGED <<settings, manager, torn, shared, restarts>>

(* YYB_SERVER: cleanupAccountFromQingLong, before an account is deleted *)

Cleanup(c, line) ==
    LET p == GetDriver.url IN
    /\ Configured
    /\ Works(GetDriver)
    /\ Start(c, [Idle EXCEPT !.at = "removing", !.seen = envs[p], !.line = line,
                             !.left = Occurrences(envs[p], line)])
    /\ UNCHANGED <<settings, manager, envs, told, torn, restarts>>

\* updateEnvEntry, one variable after the other, through the driver of the moment.
RemoveEntry(c) ==
    LET i == Min(call[c].left)
        p == GetDriver.url
    IN
    /\ call[c].at = "removing" /\ call[c].left # {}
    /\ Works(GetDriver) /\ (p \in QingLongs => i \in DOMAIN envs[p])
    /\ envs' = [envs EXCEPT ![p] = Put(p, i, Without(call[c].seen[i], call[c].line))]
    /\ \/ call' = [call EXCEPT ![c].left = @ \ {i}, ![c].done = @ \cup {i}] /\ UNCHANGED told
       \/ call' = [call EXCEPT ![c].at = "undoing"] /\ Tell(p, call[c].line, "unknown")
    /\ UNCHANGED <<settings, manager, torn, shared, restarts>>

\* The tasks are deleted last.
DeleteCrons(c) ==
    /\ call[c].at = "removing" /\ call[c].left = {}
    /\ Works(GetDriver)
    /\ Tell(GetDriver.url, call[c].line, "off")
    /\ Finish(c)
    /\ UNCHANGED <<settings, manager, envs, torn, shared, restarts>>

CleanupFails(c) ==
    /\ call[c].at = "removing"
    /\ call' = [call EXCEPT ![c].at = "undoing"]
    /\ UNCHANGED <<settings, manager, envs, told, torn, shared, restarts>>

\* rollbackEnvs: the values listed at the start go back, the last one first; a failure is
\* not looked at.
Undo(c) ==
    LET i == Max(call[c].done)
        p == GetDriver.url
    IN
    /\ call[c].at = "undoing" /\ call[c].done # {}
    /\ \/ /\ Works(GetDriver) /\ (p \in QingLongs => i \in DOMAIN envs[p])
          /\ envs' = [envs EXCEPT ![p] = Put(p, i, call[c].seen[i])]
          /\ UNCHANGED told
       \/ /\ UNCHANGED envs
          /\ told' = [q \in Panels |-> [told[q] EXCEPT ![call[c].line] = "unknown"]]
    /\ call' = [call EXCEPT ![c].done = @ \ {i}]
    /\ UNCHANGED <<settings, manager, torn, shared, restarts>>

UndoEnds(c) ==
    /\ call[c].at = "undoing" /\ call[c].done = {}
    /\ Finish(c)
    /\ UNCHANGED <<settings, manager, envs, told, torn, shared, restarts>>

\* Any request to a panel or to the database may fail: a save then stops half-way.
Fails(c) ==
    /\ call[c].at \in {"testing", "persisting", "asking", "retrying", "merging", "writing"}
    /\ Finish(c)
    /\ UNCHANGED <<settings, manager, envs, told, torn, shared, restarts>>

\* NewApp makes the manager from what is saved.
Restart ==
    /\ restarts < MaxRestarts
    /\ restarts' = restarts + 1
    /\ manager' = Manager(settings)
    /\ told' = [p \in Panels |-> [l \in Lines |->
                  IF \E c \in Calls : call[c].at # "idle" /\ call[c].line = l /\ l # Foreign
                  THEN "unknown" ELSE told[p][l]]]
    /\ call' = [c \in Calls |-> Idle]
    /\ UNCHANGED <<settings, envs, torn, shared>>

Next ==
    \/ \E c \in Calls :
          \/ \E type \in Types, url \in Panels : \E secret \in {url, NoPanel} :
                Configure(c, type, url, secret)
          \/ Tested(c) \/ Clear(c) \/ Persist(c) \/ Reconfigure(c)
          \/ Status(c) \/ TryOtherType(c) \/ UseOtherType(c)
          \/ \E line \in Accounts : Sync(c, line) \/ Cleanup(c, line)
          \/ Upsert(c) \/ WriteServers(c)
          \/ RemoveEntry(c) \/ DeleteCrons(c) \/ CleanupFails(c) \/ Undo(c) \/ UndoEnds(c)
          \/ Fails(c)
    \/ Restart

Spec == Init /\ [][Next]_vars
----------------------------------------------------------------------------
Quiet == \A c \in Calls : call[c].at = "idle"

(* Every variable has its type, and the type the manager shows is that of  *)
(* its driver (panel_manager.go:75, panel_manager.go:119).                 *)
TypeOK ==
    /\ settings \in Config
    /\ manager \in [config : Config, driver : Config]
    /\ manager.config.type = manager.driver.type
    /\ envs \in [Panels -> Lists]
    /\ \A c \in Calls :
          /\ call[c].at \in Stages /\ call[c].config \in Config /\ call[c].line \in Lines
          /\ call[c].seen \in Lists
          /\ call[c].keys \subseteq Keys /\ call[c].left \subseteq 1 .. MaxEnvs
          /\ call[c].done \subseteq DOMAIN call[c].seen
    /\ told \in [Panels -> [Lines -> {"on", "off", "unknown"}]]
    /\ torn \in BOOLEAN /\ shared \in BOOLEAN /\ restarts \in 0 .. MaxRestarts

(* As long as no calls that share it have overlapped, YYB_SERVER says what *)
(* the callers were told: an account synchronised is on the list of that   *)
(* panel, one whose deletion was cleaned up is not, and the lines of       *)
(* others stay - through failed requests, lost answers, roll-backs,        *)
(* changes of panel and restarts (qinglong_accounts.go:214, 282).          *)
ListAsTold ==
    Quiet /\ ~shared =>
       \A p \in Panels, l \in Lines :
          /\ told[p][l] = "on" => Occurrences(envs[p], l) # {}
          /\ told[p][l] = "off" => Occurrences(envs[p], l) = {}

(* Unless a save stopped half-way or calls overlapped, the configuration   *)
(* in use is the saved one, so that a restart changes nothing but the type *)
(* status has found, and it is one that was tested: the secret is that of  *)
(* the address (handleQingLongConfig, persistQingLongConfig).              *)
SavedIsUsed ==
    Quiet /\ ~shared /\ ~torn =>
       /\ settings.url = manager.config.url /\ settings.secret = manager.config.secret
       /\ settings.secret = settings.url

(* The driver goes to the address and has the secret of the manager's      *)
(* fields; only status can break that, when a configuration was put in use *)
(* while it waited for the other panel type (panel_manager.go:119).        *)
DriverMatches(m) == m.driver.url = m.config.url /\ m.driver.secret = m.config.secret

StaleDriverOnlyByStatus ==
    [][DriverMatches(manager) /\ ~DriverMatches(manager') =>
          \E c \in Calls : call[c].at = "retrying" /\ call'[c].at = "idle"
                           /\ ~DriverMatches([config |-> manager.config,
                                              driver |-> call[c].config])]_vars
============================================================================
