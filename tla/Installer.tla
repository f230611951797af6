------------------------------ MODULE Installer ------------------------------
(***************************************************************************)
(* scripts/setup_harness.py: install, repair, uninstall and                *)
(* verify-provider, with the audit that follows them.                      *)
(*                                                                         *)
(* A command reads every file and computes a plan; apply_transaction then  *)
(* copies the files it is about to change and replaces them one by one.    *)
(* An exception restores the copies, a kill does not.  Nothing locks the   *)
(* files: the user edits them, and user turns change the host state,       *)
(* between any two steps.  One command runs at a time.                     *)
(*                                                                         *)
(* disk maps every path to its content.  Bytes the installer writes are    *)
(* modelled by the release they come from (a digest in the manifest is     *)
(* that release).  A new release changes every file the installer owns;    *)
(* what inspect_repository finds in the Project may change some, too.  The *)
(* Project is configured for one provider and commands name no other.      *)
(***************************************************************************)
EXTENDS Integers, FiniteSets

CONSTANTS
    Owned,          \* installer-owned files of the Project and of the host
    HostOwned,      \* those of the host runtime
    ContextBroker,  \* one of them: .agent-harness/bin/read_context.py
    HookIds,        \* the managed entries of the provider's hook file
    Texts,          \* what a user writes into instruction, hook and seed files
    Blank,          \* the text of an instruction or hook file with none
    MaxRelease,     \* bound: releases of the Skill
    MaxCommands,    \* bound: commands
    MaxEvents,      \* bound: edits, turns, leases, releases, failed writes, kills
    None,           \* an absent file or entry
    Edited,         \* managed content with bytes no release has
    Broken,         \* JSON, markers or a checksum that cannot be read
    Unsafe          \* a symlink or directory in the place of a file (of a
                    \* file of the host state: a directory)

ASSUME InstallerAssumption ==
    /\ IsFiniteSet(Owned) /\ HostOwned \subseteq Owned
    /\ ContextBroker \in Owned \ HostOwned
    /\ Owned \cap {"bridge", "hooks", "seed", "state", "status", "sidecar", "evidence",
                    "manifest", "recovery"} = {}
    /\ HookIds # {} /\ Blank \in Texts
    /\ MaxRelease \in Nat \ {0}
    /\ MaxCommands \in Nat /\ MaxEvents \in Nat

VARIABLES
    disk,       \* path -> content
    release,    \* the release of the Skill a command would install
    pc, cmd,    \* what the running command does next, and which one it is
    plan,       \* path -> content the command will write
    saves,      \* path -> drifted content it will first copy to recovery/
    todo,       \* mutations not yet made, or paths not yet rolled back
    snap,       \* path -> content to roll back or restore
    seen,       \* verify-provider: status and manifest read at its start
    canary,     \* .engineering-harness-provider-canary exists
    denied,     \* the canary run showed a denial by the PreToolUse hook
    commands, events,
    (* History. *)
    mine,       \* path -> content the user last gave it while no command ran
    found,      \* disk when the running command made its plan
    alone,      \* nobody else changed a file since
    spoiled,    \* a rollback could not restore a file
    lost,       \* a command was killed or a manifest was destroyed
    last,       \* how the last command ended
    revoked     \* the user has had a turn since the last lease was granted

bounds == <<release, commands, events>>
work == <<pc, cmd, plan, saves, todo, snap, seen, denied>>
history == <<mine, found, alone, spoiled, lost, last, revoked>>
vars == <<disk, canary, work, bounds, history>>

UserPaths == {"bridge", "hooks", "seed"} \cup Owned
StatePaths == {"state", "status", "sidecar", "evidence"}
Paths == UserPaths \cup StatePaths \cup {"manifest"}
Releases == 1..MaxRelease
Commands == {"install", "repair", "uninstall", "verify-provider"}

(* AGENTS.md or CLAUDE.md: the user's text, the managed block, and how many*)
(* times the line breaks the installer frames its block with are in it     *)
(* (those around a block the user takes out become the user's text).       *)
Bridge == [text : Texts, block : Releases \cup {None, Edited, Broken}, frame : Nat]
(* .codex/hooks.json or .claude/settings.json.  "Edited" entries still     *)
(* carry the id of the managed hook; Broken here is a duplicated entry.    *)
Hooks == [other : Texts, ours : [HookIds -> Releases \cup {None, Edited, Broken}]]
State == [turn : Nat, lease : BOOLEAN, private : BOOLEAN]
Manifest == [release : Releases, created : BOOLEAN, framed : BOOLEAN,
             hooksCreated : BOOLEAN]
(* setup-status.json: the manifest whose hooks were verified, the digest   *)
(* of the context broker (contextBrokerSha256), whether others may not     *)
(* read it, and whether it names the provider, as an old one does not.     *)
Status == [verified : Manifest \cup {None}, broker : Releases, private : BOOLEAN,
           bound : BOOLEAN]

(* What stands for an absent or damaged file or entry is no content of one.*)
ASSUME MarkAssumption ==
    /\ None \notin {Edited, Broken, Unsafe} /\ Edited \notin {Broken, Unsafe}
    /\ Broken # Unsafe
    /\ \A mark \in {None, Edited, Broken, Unsafe} :
           mark \notin Releases \cup Texts \cup Bridge \cup Hooks \cup State \cup Status
                      \cup Manifest

Bad == {None, Broken, Unsafe}
ContentOf(p) ==
    CASE p = "bridge" -> Bridge \cup {None, Unsafe}
      [] p = "hooks" -> Hooks \cup Bad
      [] p = "seed" -> Texts \cup {None}
      [] p = "state" -> State \cup Bad
      [] p = "status" -> Status \cup Bad
      [] p \in {"sidecar", "evidence"} -> Nat \cup {None, Unsafe}
      [] p = "manifest" -> Manifest \cup {None, Broken}
      [] OTHER -> Releases \cup {None, Edited, Unsafe}

TypeOK ==
    /\ \A p \in Paths : disk[p] \in ContentOf(p)
    /\ DOMAIN disk = Paths \cup {"recovery"}
    /\ DOMAIN disk["recovery"] = Paths
    /\ release \in Releases
    /\ pc \in {"idle", "planned", "apply", "rollback", "manifest", "status", "state",
               "sidecars", "canary", "restore", "judge"}
    /\ cmd \in Commands \cup {None}
    /\ DOMAIN plan \subseteq Paths
    /\ DOMAIN saves \subseteq Paths
    /\ DOMAIN snap \subseteq DOMAIN disk
    /\ canary \in BOOLEAN /\ denied \in BOOLEAN
    /\ alone \in BOOLEAN /\ spoiled \in BOOLEAN /\ lost \in BOOLEAN /\ revoked \in BOOLEAN
    /\ last \in {"none", "ok", "failed", "killed", "incomplete"}
    /\ commands \in 0..MaxCommands /\ events \in 0..MaxEvents

Nothing == [p \in {} |-> None]

(* A project before its first install, with or without the user's own      *)
(* instruction and hook files.                                             *)
Init ==
    /\ \E b \in {None} \cup {[text |-> t, block |-> None, frame |-> 0] : t \in Texts},
          h \in {None} \cup {[other |-> t, ours |-> [i \in HookIds |-> None]] :
                                t \in Texts} :
        disk = [p \in Paths \cup {"recovery"} |->
                    CASE p = "bridge" -> b [] p = "hooks" -> h
                      [] p = "recovery" -> [q \in Paths |-> {}] [] OTHER -> None]
    /\ release = 1
    /\ pc = "idle" /\ cmd = None /\ plan = Nothing /\ saves = Nothing /\ todo = {}
    /\ snap = Nothing /\ seen = None /\ canary = FALSE /\ denied = FALSE
    /\ commands = 0 /\ events = 0
    /\ mine = [p \in UserPaths |-> disk[p]]
    /\ found = disk /\ alone = TRUE /\ spoiled = FALSE /\ lost = FALSE /\ last = "none"
    /\ revoked = FALSE

-----------------------------------------------------------------------------
(* Planning.  The plan for one path: its new content (the present one when *)
(* nothing is to be done), whether the present one is first copied to      *)
(* recovery/, and whether the path stops the whole command.                *)

Keep(p) == [new |-> disk[p], save |-> FALSE, conflict |-> FALSE]
Replace(c) == [new |-> c, save |-> FALSE, conflict |-> FALSE]
SaveAndReplace(c) == [new |-> c, save |-> TRUE, conflict |-> FALSE]
Conflict(p) == [new |-> disk[p], save |-> FALSE, conflict |-> TRUE]

(* load_manifest: the manifest, or None when it cannot be trusted.         *)
Previous == IF disk["manifest"] \in {None, Broken} THEN None ELSE disk["manifest"]
PreviousRelease == IF Previous = None THEN None ELSE Previous.release

(* bridge_analysis *)
BridgePlan(repair) ==
    LET b == disk["bridge"]
    IN  IF b = Unsafe THEN Conflict("bridge")
        ELSE IF b = None
        THEN Replace([text |-> Blank, block |-> release, frame |-> 1])
        ELSE IF b.block = None
        THEN Replace([b EXCEPT !.block = release, !.frame = @ + 1])
        ELSE IF b.block = Broken THEN Conflict("bridge")
        ELSE IF b.block = release THEN Keep("bridge")
        ELSE IF b.block = PreviousRelease THEN Replace([b EXCEPT !.block = release])
        ELSE IF repair THEN SaveAndReplace([b EXCEPT !.block = release])
        ELSE Conflict("bridge")

(* The framing bridge_analysis records: what it writes now, or what the    *)
(* previous manifest says; a bridge that no manifest knows has none.       *)
Framing ==
    LET b == disk["bridge"]
    IN  IF b = None THEN [created |-> TRUE, framed |-> TRUE]
        ELSE IF b # Unsafe /\ b.block = None THEN [created |-> FALSE, framed |-> TRUE]
        ELSE IF Previous = None THEN [created |-> FALSE, framed |-> FALSE]
        ELSE [created |-> Previous.created, framed |-> Previous.framed]

(* hook_analysis for one managed entry: it drifted when it is not what the *)
(* manifest recorded, and is then replaced by repair only.                 *)
EntryDrifted(e) ==
    CASE e = None -> PreviousRelease # None
      [] e = Broken -> TRUE
      [] e = release -> FALSE
      [] OTHER -> e # PreviousRelease

(* Mutant: an entry of an earlier release is left as it is.                *)
MutantHooksPlan(repair) ==
    LET h == disk["hooks"]
        ours == IF h \in Bad THEN [i \in HookIds |-> None] ELSE h.ours
        drifted == \E i \in HookIds : EntryDrifted(ours[i])
        new == [other |-> IF h \in Bad THEN Blank ELSE h.other,
                ours |-> [i \in HookIds |-> IF ours[i] \in Releases THEN ours[i]
                                            ELSE release]]
    IN  IF h \in {Broken, Unsafe} \/ (drifted /\ ~repair) THEN Conflict("hooks")
        ELSE IF drifted THEN SaveAndReplace(new)
        ELSE Replace(new)

HooksPlan(repair) ==
    LET h == disk["hooks"]
        ours == IF h \in Bad THEN [i \in HookIds |-> None] ELSE h.ours
        drifted == \E i \in HookIds : EntryDrifted(ours[i])
        new == [other |-> IF h \in Bad THEN Blank ELSE h.other,
                ours |-> [i \in HookIds |-> release]]
    IN  IF h \in {Broken, Unsafe} \/ (drifted /\ ~repair) THEN Conflict("hooks")
        ELSE IF drifted THEN SaveAndReplace(new)
        ELSE Replace(new)

(* Mutant: repair replaces a drifted file without a recovery copy.         *)
MutantOwnedPlan(p, repair) ==
    IF disk[p] = Unsafe \/ (disk[p] = Edited /\ ~repair) THEN Conflict(p)
    ELSE Replace(release)

(* add_desired_file *)
OwnedPlan(p, repair) ==
    LET c == disk[p]
    IN  IF c = Unsafe THEN Conflict(p)
        ELSE IF c \in {None, release, PreviousRelease} THEN Replace(release)
        ELSE IF repair THEN SaveAndReplace(release)
        ELSE Conflict(p)

InitialState == [turn |-> 0, lease |-> FALSE, private |-> TRUE]

(* Mutant: an existing gate state is locked again by every install.        *)
MutantStatePlan(repair) ==
    IF disk["state"] \in {Broken, Unsafe} THEN Conflict("state") ELSE Replace(InitialState)

(* The loop of plan_setup over the host state: created when absent, reset  *)
(* by repair when invalid, and otherwise preserved; a wrong mode rewrites  *)
(* the bytes read now.                                                     *)
StatePlan(repair) ==
    LET s == disk["state"]
    IN  IF s = None THEN Replace(InitialState)
        ELSE IF s = Unsafe THEN Conflict("state")
        ELSE IF s = Broken
        THEN IF repair THEN SaveAndReplace(InitialState) ELSE Conflict("state")
        ELSE Replace([s EXCEPT !.private = TRUE])

InitialStatus == [verified |-> None, broker |-> release, private |-> TRUE, bound |-> TRUE]

(* An existing status is kept, with the digest of the broker it was made   *)
(* for; a wrong mode rewrites the bytes read now, and only when the mode   *)
(* is right does a status that names no provider get this one.             *)
StatusPlan(repair) ==
    LET s == disk["status"]
    IN  IF s = None THEN Replace(InitialStatus)
        ELSE IF s = Unsafe THEN Conflict("status")
        ELSE IF s = Broken
        THEN IF repair THEN SaveAndReplace(InitialStatus) ELSE Conflict("status")
        ELSE IF ~s.private THEN Replace([s EXCEPT !.private = TRUE])
        ELSE IF s.bound THEN Keep("status")
        ELSE Replace([s EXCEPT !.bound = TRUE, !.verified = None])

(* build_manifest *)
NewManifest ==
    [release |-> release, created |-> Framing.created, framed |-> Framing.framed,
     hooksCreated |-> IF Previous = None THEN disk["hooks"] = None
                      ELSE Previous.hooksCreated]

ManifestPlan(repair) ==
    IF disk["manifest"] # Broken THEN Replace(NewManifest)
    ELSE IF repair THEN SaveAndReplace(NewManifest)
    ELSE Conflict("manifest")

(* plan_setup *)
SetupPlan(repair) ==
    [p \in Paths |->
        CASE p = "bridge" -> BridgePlan(repair)
          [] p = "hooks" -> HooksPlan(repair)
          [] p = "seed" -> IF disk[p] = None THEN Replace(Blank) ELSE Keep(p)
          [] p = "state" -> StatePlan(repair)
          [] p = "status" -> StatusPlan(repair)
          [] p \in {"sidecar", "evidence"} -> Keep(p)
          [] p = "manifest" -> ManifestPlan(repair)
          [] OTHER -> OwnedPlan(p, repair)]

(* Mutant: the framing is left in the file.                                *)
MutantBridgeRemoval(m) ==
    LET b == disk["bridge"]
    IN  IF b \in {None, Unsafe} \/ b.block # m.release THEN Conflict("bridge")
        ELSE Replace([b EXCEPT !.block = None])

(* Mutant: the framing is taken out unseen.                                *)
MutantFramingRemoval(m) ==
    LET b == disk["bridge"]
    IN  IF b \in {None, Unsafe} \/ b.block # m.release THEN Conflict("bridge")
        ELSE Replace([b EXCEPT !.block = None, !.frame = IF m.framed THEN @ - 1 ELSE @])

(* uninstall_bridge *)
BridgeRemoval(m) ==
    LET b == disk["bridge"]
        rest == [b EXCEPT !.block = None, !.frame = IF m.framed THEN @ - 1 ELSE @]
    IN  IF b \in {None, Unsafe} THEN Conflict("bridge")
        ELSE IF b.block # m.release \/ (m.framed /\ b.frame = 0) THEN Conflict("bridge")
        ELSE IF m.created /\ rest.text = Blank /\ rest.frame = 0 THEN Replace(None)
        ELSE Replace(rest)

(* uninstall_hooks *)
HooksRemoval(m) ==
    LET h == disk["hooks"]
    IN  IF h \in Bad THEN Conflict("hooks")
        ELSE IF \E i \in HookIds : h.ours[i] # m.release THEN Conflict("hooks")
        ELSE IF m.hooksCreated /\ h.other = Blank THEN Replace(None)
        ELSE Replace([h EXCEPT !.ours = [i \in HookIds |-> None]])

(* plan_uninstall *)
UninstallPlan ==
    LET m == disk["manifest"]
    IN  [p \in Paths |->
            IF m \in {None, Broken} THEN Conflict(p)
            ELSE CASE p = "bridge" -> BridgeRemoval(m)
                   [] p = "hooks" -> HooksRemoval(m)
                   [] p = "seed" -> Keep(p)
                   [] p = "state" -> IF disk[p] \in Bad THEN Conflict(p) ELSE Replace(None)
                   [] p = "status" -> IF disk[p] \in Bad THEN Conflict(p) ELSE Replace(None)
                   [] p \in {"sidecar", "evidence"} ->
                          IF disk[p] = Unsafe THEN Conflict(p) ELSE Replace(None)
                   [] p = "manifest" -> Replace(None)
                   [] OTHER -> IF disk[p] = m.release THEN Replace(None) ELSE Conflict(p)]

PlanOf(c) == IF c = "uninstall" THEN UninstallPlan ELSE SetupPlan(c = "repair")
IsRefused(planned) == \E p \in Paths : planned[p].conflict

-----------------------------------------------------------------------------
(* Applying.  A mutation replaces a path, or first saves its content.      *)

Rank(p) ==
    CASE p = "bridge" -> 1 [] p = "hooks" -> 2 [] p = "seed" -> 4 [] p \in HostOwned -> 5
      [] p = "state" -> 6 [] p = "status" -> 7 [] p = "sidecar" -> 8 [] p = "evidence" -> 9
      [] p = "manifest" -> 10 [] OTHER -> 3

(* The place of a mutation in the plan: a copy for recovery comes just     *)
(* before what replaces the original, the manifest's copy before all else. *)
Place(m) == IF m.save /\ m.path = "manifest" THEN 0
            ELSE 2 * Rank(m.path) + (IF m.save THEN 0 ELSE 1)

(* execute_setup and execute_uninstall up to the finished plan; a command  *)
(* that meets a conflict changes nothing and is left out.                  *)
Start(c) ==
    /\ pc = "idle" /\ commands < MaxCommands /\ commands' = commands + 1
    /\ LET planned == PlanOf(c)
       IN  /\ ~IsRefused(planned)
           /\ plan' = [p \in {q \in Paths : planned[q].new # disk[q]} |-> planned[p].new]
           /\ saves' = [p \in {q \in Paths : /\ planned[q].save
                                            /\ disk[q] \notin disk["recovery"][q]} |->
                           disk[p]]
    /\ pc' = "planned" /\ cmd' = c
    /\ found' = disk /\ alone' = TRUE /\ last' = "none"
    /\ UNCHANGED <<disk, canary, todo, snap, seen, denied, release, events, mine,
                   spoiled, lost, revoked>>

AllMutations == [path : DOMAIN plan, save : {FALSE}] \cup [path : DOMAIN saves, save : {TRUE}]

(* apply_transaction, the copies of what it will change ...                *)
Begin ==
    /\ pc = "planned"
    /\ pc' = "apply"
    /\ snap' = [p \in DOMAIN plan |-> disk[p]]
    /\ todo' = AllMutations
    /\ UNCHANGED <<disk, canary, cmd, plan, saves, seen, denied, bounds, history>>

(* ... one mutation ...                                                    *)
Mutate(m) ==
    /\ pc = "apply" /\ m \in todo
    /\ \A n \in todo : Place(m) <= Place(n)
    /\ disk' = IF m.save
               THEN [disk EXCEPT !["recovery"][m.path] = @ \cup {saves[m.path]}]
               ELSE [disk EXCEPT ![m.path] = plan[m.path]]
    /\ todo' = todo \ {m}
    /\ UNCHANGED <<canary, pc, cmd, plan, saves, snap, seen, denied, bounds, history>>

Rest == /\ pc' = "idle" /\ cmd' = None /\ plan' = Nothing /\ saves' = Nothing /\ todo' = {}
        /\ snap' = Nothing /\ seen' = None /\ denied' = FALSE
        /\ found' = Nothing

(* ... and its success.                                                    *)
Commit ==
    /\ pc = "apply" /\ todo = {}
    /\ Rest
    /\ last' = "ok"
    /\ UNCHANGED <<disk, canary, bounds, mine, alone, spoiled, lost, revoked>>

(* A write, or securing the host directory after the last one, fails: the  *)
(* copies of all paths are put back, the last one first.                   *)
WriteFails ==
    /\ events < MaxEvents /\ events' = events + 1
    /\ pc = "apply" /\ (todo # {} \/ cmd # "uninstall")
    /\ pc' = "rollback"
    /\ todo' = AllMutations
    /\ UNCHANGED <<disk, canary, cmd, plan, saves, snap, seen, denied, release, commands,
                   history>>

IsLast(m) == m \in todo /\ \A n \in todo : Place(m) >= Place(n)

(* Mutant: a file that did not exist before stays.                         *)
MutantRollBack(m) ==
    /\ pc = "rollback" /\ IsLast(m)
    /\ disk' = IF m.save
               THEN [disk EXCEPT !["recovery"][m.path] = @ \ {saves[m.path]}]
               ELSE [disk EXCEPT ![m.path] = IF snap[m.path] = None THEN @ ELSE snap[m.path]]
    /\ todo' = todo \ {m}
    /\ UNCHANGED <<canary, pc, cmd, plan, saves, snap, seen, denied, bounds, history>>

RollBack(m) ==
    /\ pc = "rollback" /\ IsLast(m)
    /\ disk' = IF m.save
               THEN [disk EXCEPT !["recovery"][m.path] = @ \ {saves[m.path]}]
               ELSE [disk EXCEPT ![m.path] = snap[m.path]]
    /\ todo' = todo \ {m}
    /\ UNCHANGED <<canary, pc, cmd, plan, saves, snap, seen, denied, bounds, history>>

(* A path that cannot be restored is reported; the others still are.       *)
RollBackFails(m) ==
    /\ events < MaxEvents /\ events' = events + 1
    /\ pc = "rollback" /\ IsLast(m)
    /\ todo' = todo \ {m}
    /\ spoiled' = TRUE
    /\ UNCHANGED <<disk, canary, pc, cmd, plan, saves, snap, seen, denied, release, commands,
                   mine, found, alone, lost, last, revoked>>

RolledBack ==
    /\ pc = "rollback" /\ todo = {}
    /\ Rest
    /\ last' = "failed"
    /\ UNCHANGED <<disk, canary, bounds, mine, alone, spoiled, lost, revoked>>

(* The process dies between two steps of any command.                      *)
Killed ==
    /\ events < MaxEvents /\ events' = events + 1
    /\ pc # "idle"
    /\ Rest
    /\ lost' = TRUE /\ last' = "killed"
    /\ UNCHANGED <<disk, canary, release, commands, mine, alone, spoiled, revoked>>

-----------------------------------------------------------------------------
(* Audit and provider verification *)

(* The paths audit reports an issue about.                                 *)
AuditIssues ==
    LET m == disk["manifest"]
    IN  IF m \in {None, Broken} THEN {"manifest"}
        ELSE {p \in Paths :
                CASE p = "bridge" -> disk[p] \in {None, Unsafe} \/ disk[p].block # m.release
                  [] p = "hooks" -> \/ disk[p] \in Bad
                                    \/ \E i \in HookIds : disk[p].ours[i] # m.release
                  [] p = "seed" -> disk[p] = None
                  [] p = "state" -> disk[p] \in Bad
                  [] p = "status" -> \/ disk[p] \in Bad
                                     \/ disk[p].broker # disk[ContextBroker]
                                     \/ ~disk[p].bound
                  [] p \in {"sidecar", "evidence", "manifest"} -> FALSE
                  [] OTHER -> disk[p] # m.release}

(* verify_provider goes no further unless an audit finds no issue; then it *)
(* reads the manifest ...                                                  *)
VerifyProvider ==
    /\ pc = "idle" /\ commands < MaxCommands /\ commands' = commands + 1
    /\ AuditIssues = {}
    /\ pc' = "manifest" /\ cmd' = "verify-provider"
    /\ found' = disk /\ alone' = TRUE /\ last' = "none"
    /\ UNCHANGED <<disk, canary, plan, saves, todo, snap, seen, denied, release, events,
                   mine, spoiled, lost, revoked>>

ReadManifest ==
    /\ pc = "manifest" /\ Previous # None
    /\ pc' = "status"
    /\ seen' = [status |-> None, manifest |-> Previous]
    /\ UNCHANGED <<disk, canary, cmd, plan, saves, todo, snap, denied, bounds, history>>

(* ... the status, unless a canary file is in the way ...                  *)
IsReadable == disk["state"] # None /\ disk["status"] \notin Bad /\ ~canary

ReadStatus ==
    /\ pc = "status" /\ IsReadable
    /\ pc' = "state"
    /\ seen' = [status |-> disk["status"], manifest |-> seen.manifest]
    /\ UNCHANGED <<disk, canary, cmd, plan, saves, todo, snap, denied, bounds, history>>

(* ... copies the gate state, and then the mutable host files.             *)
CopyState ==
    /\ pc = "state" /\ disk["state"] # Unsafe
    /\ pc' = "sidecars"
    /\ snap' = [p \in {"state"} |-> disk[p]]
    /\ UNCHANGED <<disk, canary, cmd, plan, saves, todo, seen, denied, bounds, history>>

CopySidecars ==
    /\ pc = "sidecars" /\ disk["sidecar"] # Unsafe
    /\ pc' = "canary"
    /\ snap' = [p \in {"state", "sidecar"} |-> IF p = "state" THEN snap[p] ELSE disk[p]]
    /\ UNCHANGED <<disk, canary, cmd, plan, saves, todo, seen, denied, bounds, history>>

(* What it needs was changed or removed since the audit.                   *)
VerifyStops ==
    /\ \/ pc = "manifest" /\ Previous = None
       \/ pc = "status" /\ ~IsReadable
       \/ pc = "state" /\ disk["state"] = Unsafe
       \/ pc = "sidecars" /\ disk["sidecar"] = Unsafe
    /\ Rest
    /\ last' = "failed"
    /\ UNCHANGED <<disk, canary, bounds, mine, alone, spoiled, lost, revoked>>

HooksInstalled == disk["hooks"] \notin Bad /\ \A i \in HookIds : disk["hooks"].ours[i] # None

TurnOn(d) ==
    LET s == d["state"]
    IN  [d EXCEPT !["state"] = [s EXCEPT !.turn = @ + 1, !.lease = FALSE],
                  !["sidecar"] = s.turn + 1]

(* The provider session: its prompt hook may record the canary prompt as a *)
(* turn, its native write is denied by the hook, by something else, or     *)
(* succeeds.  A missing version or a timeout ends it in between.           *)
Canary(turn, outcome) ==
    /\ pc = "canary"
    /\ turn \/ outcome = "denied" => HooksInstalled
    /\ turn => disk["state"] \notin Bad /\ disk["sidecar"] # Unsafe
    /\ disk' = IF turn THEN TurnOn(disk) ELSE disk
    /\ canary' = (outcome = "escaped")
    /\ denied' = (outcome = "denied")
    /\ pc' = "restore"
    /\ todo' = [path : DOMAIN snap, save : {FALSE}]
    /\ UNCHANGED <<cmd, plan, saves, snap, seen, bounds, history>>

(* The finally clause puts the copies back, the gate state first.          *)
Restore(m) ==
    /\ pc = "restore" /\ m \in todo
    /\ \A n \in todo : Place(m) <= Place(n)
    /\ disk' = [disk EXCEPT ![m.path] = snap[m.path]]
    /\ todo' = todo \ {m}
    /\ pc' = IF todo' = {} THEN "judge" ELSE pc
    /\ UNCHANGED <<canary, cmd, plan, saves, snap, seen, denied, bounds, history>>

RestoreFails ==
    /\ events < MaxEvents /\ events' = events + 1
    /\ pc = "restore"
    /\ Rest
    /\ spoiled' = TRUE /\ last' = "failed"
    /\ UNCHANGED <<disk, canary, release, commands, mine, alone, lost, revoked>>

(* An escaped canary file is removed; a denial is recorded in the status   *)
(* that was read at the start.                                             *)
Judge ==
    /\ pc = "judge"
    /\ Rest
    /\ canary' = FALSE
    /\ IF ~canary /\ denied
       THEN /\ disk' = [disk EXCEPT !["status"] =
                            [seen.status EXCEPT !.verified = seen.manifest,
                                                !.private = TRUE, !.bound = TRUE]]
            /\ last' = "ok"
       ELSE /\ last' = IF canary THEN "failed" ELSE "incomplete"
            /\ UNCHANGED disk
    /\ UNCHANGED <<bounds, mine, alone, spoiled, lost, revoked>>

-----------------------------------------------------------------------------
(* Everyone else *)

(* What a user may make of a file.                                         *)
EditsOf(p) ==
    LET c == disk[p]
    IN  CASE p = "bridge" ->
                {None, Unsafe} \cup (IF c \in {None, Unsafe}
                    THEN {[text |-> t, block |-> None, frame |-> 0] : t \in Texts}
                    ELSE {[c EXCEPT !.text = t] : t \in Texts}
                         \cup (IF c.block = None THEN {}
                               ELSE {[c EXCEPT !.block = e] : e \in {Edited, Broken}}
                                    \cup {[c EXCEPT !.block = None, !.frame = 0]})
                         \cup {[c EXCEPT !.frame = 0]})
          [] p = "hooks" ->
                {None, Broken, Unsafe} \cup (IF c \in Bad
                    THEN {[other |-> t, ours |-> [i \in HookIds |-> None]] : t \in Texts}
                    ELSE {[c EXCEPT !.other = t] : t \in Texts}
                         \cup {[c EXCEPT !.ours[i] = e] :
                                  i \in {j \in HookIds : c.ours[j] # None},
                                  e \in {None, Edited, Broken}})
          [] p = "seed" -> Texts \cup {None}
          [] p = "state" -> {Broken, Unsafe}
                            \cup (IF c \in Bad THEN {} ELSE {[c EXCEPT !.private = FALSE]})
          [] p = "status" -> {None, Broken, Unsafe}
                             \cup (IF c \in Bad THEN {} ELSE {[c EXCEPT !.private = FALSE],
                                                            [c EXCEPT !.bound = FALSE]})
          [] p = "manifest" -> {None, Broken}
          [] p = "sidecar" -> {Unsafe}
          [] p = "evidence" -> {Unsafe} \cup {IF c \in {None, Unsafe} THEN 1 ELSE c + 1}
          [] OTHER -> {None, Edited, Unsafe}

Edit(p) ==
    /\ events < MaxEvents /\ events' = events + 1
    /\ \E c \in EditsOf(p) \ {disk[p]} : disk' = [disk EXCEPT ![p] = c]
    /\ mine' = IF p \notin UserPaths THEN mine
               ELSE [mine EXCEPT ![p] = IF pc = "idle" THEN disk'[p] ELSE None]
    /\ alone' = FALSE
    /\ lost' = (lost \/ p = "manifest")
    /\ UNCHANGED <<canary, work, release, commands, found, spoiled, last, revoked>>

(* A user turn in another session records a Task and revokes its lease.    *)
Turn ==
    /\ events < MaxEvents /\ events' = events + 1
    /\ disk["state"] \notin Bad /\ disk["sidecar"] # Unsafe /\ HooksInstalled
    /\ disk' = TurnOn(disk)
    /\ alone' = FALSE /\ revoked' = TRUE
    /\ UNCHANGED <<canary, work, release, commands, mine, found, spoiled, lost, last>>

Grant ==
    /\ events < MaxEvents /\ events' = events + 1
    /\ disk["state"] \notin Bad /\ ~disk["state"].lease
    /\ disk["sidecar"] = disk["state"].turn
    /\ disk' = [disk EXCEPT !["state"].lease = TRUE]
    /\ alone' = FALSE /\ revoked' = FALSE
    /\ UNCHANGED <<canary, work, release, commands, mine, found, spoiled, lost, last>>

(* A new release of the Skill.                                             *)
Upgrade ==
    /\ release < MaxRelease /\ pc = "idle"
    /\ events < MaxEvents /\ events' = events + 1
    /\ release' = release + 1
    /\ UNCHANGED <<disk, canary, work, commands, history>>

Mutations == [path : Paths, save : BOOLEAN]

Step ==
    \/ Begin \/ Commit \/ RolledBack \/ Judge
    \/ ReadManifest \/ ReadStatus \/ CopyState \/ CopySidecars \/ VerifyStops
    \/ \E m \in Mutations : Mutate(m) \/ RollBack(m) \/ Restore(m)
    \/ \E turn \in BOOLEAN, outcome \in {"denied", "escaped", "none"} : Canary(turn, outcome)

Fault == WriteFails \/ (\E m \in Mutations : RollBackFails(m)) \/ RestoreFails \/ Killed

World == (\E p \in Paths : Edit(p)) \/ Turn \/ Grant \/ Upgrade

Next ==
    \/ \E c \in Commands \ {"verify-provider"} : Start(c)
    \/ VerifyProvider \/ Step \/ Fault \/ World

Spec == Init /\ [][Next]_vars
=============================================================================
