----------------------------- MODULE GatePolicy -----------------------------
(***************************************************************************)
(* The PreToolUse hook from the tool call to the provider's write:         *)
(* assets/runtime/pretool_gate.py chooses the mode,                        *)
(* runtime/adapters/codex/pretool_gate.py reads the call and the state,    *)
(* runtime/domain/gate.py decides, and lease_lifecycle.py attests.         *)
(*                                                                         *)
(* Several calls may be on their way.  Nothing is locked: the user edits   *)
(* files, moves symlinks and takes turns between any two reads of a hook,  *)
(* and between its decision and the provider's write.                      *)
(*                                                                         *)
(* A path is the sequence of its names below the Project root; Outside is  *)
(* every path that is not below it.  A glob is a sequence of names, "*"    *)
(* and "**".  What the lease is bound to is modelled by the values whose   *)
(* digest it holds.                                                        *)
(***************************************************************************)
EXTENDS Integers, Sequences, FiniteSets

CONSTANTS
    Files,              \* files of the Project
    Config,             \* .agent-harness/config.json
    Outside,            \* what is not in the Project
    Fold,               \* casefold of a name
    ProtectedGlobs,     \* MINIMUM_PROTECTED_GLOBS and the state's own
    HarnessRoots,       \* first names of Harness-owned paths
    SecretNames,        \* names of secret-bearing files
    DependencyNames,    \* manifests and lockfiles
    Scopes,             \* sets of globs a lease may be requested for
    LinkMaps,           \* symlinks there may be: path -> target
    Payloads,           \* tool calls the agent may make
    LeaseCommands,      \* commands a lease registers
    Slots,              \* tool calls that may be on their way at once
    LeaseTerm,          \* ticks a lease lives
    MaxEvents,          \* bound: edits, links, turns, leases, ticks, damage
    MaxCalls,           \* bound: tool calls
    None                \* absent

VARIABLES
    state,      \* gate-state.json; None when it cannot be read or parsed
    tree,       \* file -> content
    links,      \* symlink -> target
    now,
    hook,       \* slot -> the tool call the hook is judging
    events, calls,
    (* History. *)
    late,       \* writes since the last turn whose lease had ended
    foreign     \* somebody but a plain leased write touched the tree since Issue

vars == <<state, tree, links, now, hook, events, calls, late, foreign>>

Contents == {"base", "user", "agent"}
Modes == {"assistive", "strict", "broken"}
Phases == {"received", "implementing", "verifying"}
Tools == {"write", "multi-edit", "patch", "shell", "research", "unknown"}

Evidence == [path : Files, digest : Contents]

-----------------------------------------------------------------------------
(* Paths and globs *)

Root == << >>
(* relative_to(root).as_posix(): the root itself is ".".                   *)
Relative(p) == IF p = Root THEN <<".">> ELSE p
FoldAll(p) == [i \in DOMAIN p |-> Fold[p[i]]]
Last(p) == p[Len(p)]

(* _glob_matches: "*" stays inside a name; "**" is any number of whole     *)
(* names, and at least one where it ends a glob of more than "**".         *)
Matches(g, p) ==
    LET from[i \in 1..Len(g) + 1, j \in 1..Len(p) + 1] ==
            IF i > Len(g) THEN j > Len(p)
            ELSE IF g[i] = "**"
            THEN \/ j <= Len(p) /\ (i = Len(g) \/ from[i, j + 1])
                 \/ i < Len(g) /\ from[i + 1, j]
            ELSE /\ j <= Len(p)
                 /\ g[i] \in {"*", p[j]}
                 /\ from[i + 1, j + 1]
    IN  from[1, 1]

InScope(globs, p) == \E g \in globs : Matches(g, p)

(* Mutant: the protected globs are compared as they are written.           *)
MutantIsProtected(p) == \E g \in ProtectedGlobs : Matches(g, p)

IsProtected(p) == \E g \in ProtectedGlobs : Matches(FoldAll(g), FoldAll(p))

(* _is_dependency_control_path *)
IsDependencyControl(p) == Fold[Last(p)] \in DependencyNames

IsBelow(p, l) == Len(l) <= Len(p) /\ SubSeq(p, 1, Len(l)) = l

(* Path.resolve in the Project with at most one symlink on the way.        *)
Resolve(p) ==
    IF p = Outside \/ ~\E l \in DOMAIN links : IsBelow(p, l) THEN p
    ELSE LET l == CHOOSE l \in DOMAIN links : IsBelow(p, l)
         IN  IF links[l] = Outside THEN Outside
             ELSE links[l] \o SubSeq(p, Len(l) + 1, Len(p))

(* _path_fact *)
PathFact(p) == [lexical |-> p, resolved |-> Resolve(p)]

(* validate_lease_scope and validate_safe_glob: a request names no broad,  *)
(* hidden, protected or unobservable scope.                                *)
Wildcards == {"*", "**"}
ValidLeaseScope(g) ==
    /\ g # << >> /\ g[1] \notin Wildcards
    /\ \A i \in DOMAIN g \ {j \in DOMAIN g : g[j] \in Wildcards} :
           Fold[g[i]] \notin HarnessRoots \cup SecretNames

ASSUME GatePolicyAssumption ==
    /\ Config \in Files /\ \E i \in DOMAIN Config : Fold[Config[i]] \in HarnessRoots
    /\ Root \notin Files
    /\ \A f \in Files : \A i \in DOMAIN f : f[i] \in DOMAIN Fold
    /\ \A s \in Scopes : s # {} /\ \A g \in s : ValidLeaseScope(g)
    /\ << >> \in LinkMaps /\ \A m \in LinkMaps : Cardinality(DOMAIN m) <= 1
    /\ IsFiniteSet(Slots)
    /\ LeaseTerm \in Nat \ {0} /\ MaxEvents \in Nat /\ MaxCalls \in Nat

(* What observe_outside_scope_tree hashes of a file; git lists nothing     *)
(* below a symlink.                                                        *)
ViewOf(f) ==
    IF \E l \in DOMAIN links : IsBelow(f, l) /\ l # f
    THEN [link |-> None, content |-> None]
    ELSE IF f \in DOMAIN links THEN [link |-> links[f], content |-> None]
    ELSE [link |-> None, content |-> tree[f]]

Observed(globs) == {f \in Files : ~InScope(globs, f)}
Observation(globs) == [f \in Files |-> IF f \in Observed(globs) THEN ViewOf(f) ELSE None]

-----------------------------------------------------------------------------
(* The decision (gate.py) *)

WritePhases == {"implementing"}
LeasePhases == {"implementing", "verifying"}
StateBinding(s) == [task |-> s.task, base |-> s.base, evidence |-> s.evidence]

(* Mutant: the term of the lease is not looked at.                         *)
MutantLeaseUsable(s, t) ==
    s.lease # None /\ s.phase \in LeasePhases /\ s.evidence # {}
    /\ s.lease.binding = StateBinding(s)

(* evaluate_write_lease *)
LeaseUsable(s, t) ==
    /\ s.lease # None
    /\ s.phase \in LeasePhases
    /\ s.evidence # {}
    /\ s.lease.binding = StateBinding(s)
    /\ s.lease.issued <= t /\ t < s.lease.issued + LeaseTerm

(* _evaluate_path: below the Project before and after resolution, not      *)
(* protected unless the lease names this very manifest, and in scope both  *)
(* times.                                                                  *)
PathAllowed(lease, fact) ==
    LET l == Relative(fact.lexical)
        r == Relative(fact.resolved)
        exactDependencyApproval ==
            /\ IsDependencyControl(l) /\ IsDependencyControl(r)
            /\ l = r /\ l \in lease.globs
    IN  /\ fact.lexical # Outside /\ fact.resolved # Outside
        /\ exactDependencyApproval \/ (~IsProtected(l) /\ ~IsProtected(r))
        /\ InScope(lease.globs, l) /\ InScope(lease.globs, r)

(* is_read_broker_command, is_lifecycle_command and                        *)
(* is_verification_broker_command: an approved Python, the broker's own    *)
(* path, and a canonical command line with a known operation.              *)
IsBroker(c, b) == c.python = "approved" /\ c.broker = b /\ c.exact

(* evaluate_gate *)
Allows(s, action, t) ==
    \/ action.kind \in {"read-broker", "read-only-research", "lease-request"}
    \/ /\ action.kind = "verification-command"
       /\ LeaseUsable(s, t)
       /\ action.cwd = Root
       /\ action.command \in s.lease.commands /\ IsBroker(action.command, "verification")
    \/ /\ action.kind = "native-write"
       /\ s.phase \in WritePhases /\ LeaseUsable(s, t)
       /\ action.facts # {}
       /\ \A fact \in action.facts : PathAllowed(s.lease, fact)

-----------------------------------------------------------------------------
(* The call (pretool_gate.py) *)

(* The top of a call and each of its items are objects with a path under   *)
(* one of two keys, under both or under none: a sequence of paths.         *)
(* _one_path_value finds no path where there are two.                      *)
OnePath(object) == IF Len(object) = 1 THEN object[1] ELSE None
TopPath(call) == OnePath(call.top)
ItemPaths(call) == {OnePath(call.items[i]) : i \in DOMAIN call.items}
Objects(call) == {call.top} \cup {call.items[i] : i \in DOMAIN call.items}

(* A write has no list of edits, and the headers of a patch are paths.     *)
ASSUME CallAssumption ==
    \A call \in Payloads :
        /\ \A object \in Objects(call) :
               /\ Len(object) \in 0..2 /\ DOMAIN object = 1..Len(object)
               /\ \A k \in DOMAIN object : object[k] # None
        /\ call.tool = "write" => call.items = << >>
        /\ call.tool = "patch" => /\ call.top = << >>
                                  /\ \A i \in DOMAIN call.items : Len(call.items[i]) = 1

(* The paths of an edit, or none when the call is refused as malformed.    *)
(* Mutant: only the first edit of several is looked at.                    *)
MutantEditPaths(call) ==
    CASE call.tool = "write" -> {TopPath(call)} \ {None}
      [] call.tool = "multi-edit" ->
            IF call.items = << >> THEN {}
            ELSE IF TopPath(call) # None THEN {TopPath(call)}
            ELSE {OnePath(call.items[1])} \ {None}
      [] call.tool = "patch" -> ItemPaths(call)

EditPaths(call) ==
    CASE call.tool = "write" -> {TopPath(call)} \ {None}
      [] call.tool = "multi-edit" ->
            IF call.items = << >> THEN {}
            ELSE IF TopPath(call) # None
            THEN IF ItemPaths(call) = {None} THEN {TopPath(call)} ELSE {}
            ELSE IF None \in ItemPaths(call) THEN {} ELSE ItemPaths(call)
      [] call.tool = "patch" -> ItemPaths(call)

NoAction == [kind |-> "unknown", facts |-> {}, command |-> None, cwd |-> Root]

(* action_from_codex_payload *)
ActionFrom(call, s) ==
    IF call.cwd = Outside THEN NoAction
    ELSE IF call.tool \in {"write", "multi-edit", "patch"}
    THEN [NoAction EXCEPT !.kind = "native-write",
                          !.facts = {PathFact(p) : p \in EditPaths(call)}]
    ELSE IF call.tool = "research"
    THEN [NoAction EXCEPT !.kind = "read-only-research"]
    ELSE IF call.tool # "shell" \/ ~call.command.alone THEN NoAction
    ELSE IF IsBroker(call.command, "read")
    THEN [NoAction EXCEPT !.kind = "read-broker"]
    ELSE IF IsBroker(call.command, "lifecycle")
    THEN [NoAction EXCEPT !.kind = "lease-request"]
    ELSE IF /\ s.lease # None /\ call.command \in s.lease.commands
            /\ call.cwd = Root /\ IsBroker(call.command, "verification")
    THEN [NoAction EXCEPT !.kind = "verification-command", !.command = call.command]
    ELSE [NoAction EXCEPT !.kind = "shell-execution"]

(* _is_assistive_protected_path *)
AssistiveProtected(p) == Fold[p[1]] \in HarnessRoots \/ Fold[Last(p)] \in SecretNames

(* evaluate_assistive_payload *)
AssistiveAllows(call) ==
    LET paths == CASE call.tool = "write" -> {TopPath(call)} \ {None}
                   [] call.tool = "multi-edit" ->
                         IF None \in ItemPaths(call) THEN {} ELSE ItemPaths(call)
                   [] call.tool = "patch" -> ItemPaths(call)
    IN  \/ call.cwd = Outside
        \/ call.tool \notin {"write", "multi-edit", "patch"}
        \/ /\ paths # {}
           /\ \A p \in paths : /\ p # Outside /\ Resolve(p) # Outside
                               /\ ~AssistiveProtected(Relative(p))

-----------------------------------------------------------------------------
(* State *)

IdleHook == [pc |-> "idle", call |-> None, strict |-> FALSE, seen |-> None,
             lease |-> None, todo |-> {}, decidedOn |-> << >>, changed |-> {}]

(* Tree observations, leases and gate-state.json.                          *)
View == [link : {None} \cup UNION {{m[l] : l \in DOMAIN m} : m \in LinkMaps},
         content : {None} \cup Contents \cup Modes]
Base == [Files -> View \cup {None}]
Binding == [task : Nat, base : Base, evidence : SUBSET Evidence]
Lease == [globs : Scopes, commands : {LeaseCommands}, issued : Nat, binding : Binding]
State == [task : Nat, phase : Phases, base : Base \cup {None}, evidence : SUBSET Evidence,
          lease : Lease \cup {None}]

ASSUME StateAssumption == None \notin State

TypeOK ==
    /\ state \in State \cup {None}
    /\ \A f \in Files : tree[f] \in IF f = Config THEN Modes ELSE Contents
    /\ links \in LinkMaps
    /\ now \in Nat
    /\ \A s \in Slots :
        /\ hook[s].pc \in {"idle", "config", "state", "decide", "attest", "allowed"}
        /\ hook[s].todo \subseteq Files /\ hook[s].changed \subseteq Files
    /\ events \in 0..MaxEvents /\ calls \in 0..MaxCalls
    /\ late \in Nat /\ foreign \in BOOLEAN

Init ==
    /\ state = [task |-> 0, phase |-> "received", base |-> None, evidence |-> {},
                lease |-> None]
    /\ tree \in {[f \in Files |-> IF f = Config THEN m ELSE "base"] :
                     m \in {"assistive", "strict"}}
    /\ links = << >>
    /\ now = 0
    /\ hook = [s \in Slots |-> IdleHook]
    /\ events = 0 /\ calls = 0 /\ late = 0 /\ foreign = FALSE

-----------------------------------------------------------------------------
(* One tool call *)

Deny(s) == hook' = [hook EXCEPT ![s] = IdleHook]
Unread == UNCHANGED <<state, tree, links, now, events, calls, late, foreign>>

CallTool(s, call) ==
    /\ hook[s].pc = "idle"
    /\ calls < MaxCalls /\ calls' = calls + 1
    /\ hook' = [hook EXCEPT ![s] = [IdleHook EXCEPT !.pc = "config", !.call = call]]
    /\ UNCHANGED <<state, tree, links, now, events, late, foreign>>

(* The launcher reads write_gate.mode; in assistive mode it needs no state.*)
ReadConfig(s) ==
    /\ hook[s].pc = "config"
    /\ CASE tree[Config] = "broken" -> Deny(s)
          [] tree[Config] = "strict" ->
                hook' = [hook EXCEPT ![s].pc = "state", ![s].strict = TRUE]
          [] tree[Config] = "assistive" ->
                IF AssistiveAllows(hook[s].call)
                THEN hook' = [hook EXCEPT ![s].pc = "allowed"]
                ELSE Deny(s)
    /\ Unread

(* load_gate_state and evaluate_gate: the state is read, the symlinks on   *)
(* the way of each path are resolved and the clock is read.                *)
LoadState(s) ==
    /\ hook[s].pc = "state"
    /\ IF state = None THEN Deny(s)
       ELSE hook' = [hook EXCEPT ![s].pc = "decide", ![s].seen = state]
    /\ Unread

Decide(s) ==
    /\ hook[s].pc = "decide"
    /\ LET h == hook[s]
           action == ActionFrom(h.call, h.seen)
       IN  IF ~Allows(h.seen, action, now) THEN Deny(s)
           ELSE IF action.kind \in {"native-write", "verification-command"}
           THEN hook' = [hook EXCEPT ![s].pc = "attest", ![s].seen = None,
                                     ![s].lease = h.seen.lease,
                                     ![s].decidedOn = links, ![s].changed = {},
                                     ![s].todo = Observed(h.seen.lease.globs)]
           ELSE hook' = [hook EXCEPT ![s].pc = "allowed", ![s].seen = None]
    /\ Unread

(* active_lease_attestation: the files outside the scope are read one      *)
(* after the other ...                                                     *)
(* Mutant: a file that is not there is taken as unchanged.                 *)
MutantObserve(s, f) ==
    /\ hook[s].pc = "attest" /\ f \in hook[s].todo
    /\ IF ViewOf(f) \in {hook[s].lease.binding.base[f], [link |-> None, content |-> None]}
       THEN hook' = [hook EXCEPT ![s].todo = @ \ {f}]
       ELSE Deny(s)
    /\ Unread

Observe(s, f) ==
    /\ hook[s].pc = "attest" /\ f \in hook[s].todo
    /\ IF ViewOf(f) = hook[s].lease.binding.base[f]
       THEN hook' = [hook EXCEPT ![s].todo = @ \ {f}]
       ELSE Deny(s)
    /\ Unread

(* ... and then the Evidence outside the scope.                            *)
(* Mutant: Evidence the lease allows to change must not change.            *)
MutantEvidenceHolds(e, globs) ==
    ~(\E l \in DOMAIN links : IsBelow(e.path, l)) /\ tree[e.path] = e.digest

EvidenceHolds(e, globs) ==
    \/ InScope(globs, e.path)
    \/ ~(\E l \in DOMAIN links : IsBelow(e.path, l)) /\ tree[e.path] = e.digest

Attest(s) ==
    /\ hook[s].pc = "attest" /\ hook[s].todo = {}
    /\ LET lease == hook[s].lease
       IN  IF \A e \in lease.binding.evidence : EvidenceHolds(e, lease.globs)
           THEN hook' = [hook EXCEPT ![s].pc = "allowed"]
           ELSE Deny(s)
    /\ Unread

(* The provider writes every path the call names under any key, through    *)
(* the symlinks there are by then.  What it does with a refused call, or   *)
(* when the user refuses an allowed one, is nothing.                       *)
Named(call) == UNION {{object[k] : k \in DOMAIN object} : object \in Objects(call)}
Targets(call) == {Resolve(p) : p \in Named(call)} \cap Files
Writes(call) == call.tool \in {"write", "multi-edit", "patch"}

(* No object of the call names two paths.                                  *)
Plain(call) == \A object \in Objects(call) : Len(object) <= 1

LeaseEnded(lease) == \/ state = None \/ state.lease # lease
                     \/ now >= lease.issued + LeaseTerm

ProviderWrites(s) ==
    /\ hook[s].pc = "allowed" /\ Writes(hook[s].call)
    /\ LET h == hook[s]
           targets == Targets(h.call)
           ended == h.strict /\ LeaseEnded(h.lease)
       IN  /\ tree' = [f \in Files |-> IF f \notin targets THEN tree[f]
                                       ELSE IF f = Config THEN "assistive" ELSE "agent"]
           /\ hook' = [t \in Slots |-> IF t = s THEN IdleHook
                                       ELSE [hook[t] EXCEPT !.changed = @ \cup targets]]
           /\ late' = IF ended THEN late + 1 ELSE late
           /\ foreign' = (foreign \/ ended \/ ~h.strict \/ links # h.decidedOn
                            \/ ~Plain(h.call))
    /\ UNCHANGED <<state, links, now, events, calls>>

ProviderReturns(s) ==
    /\ hook[s].pc = "allowed"
    /\ Deny(s)
    /\ Unread

-----------------------------------------------------------------------------
(* Everyone else *)

Event == events < MaxEvents /\ events' = events + 1
Disturb(changed) == /\ foreign' = TRUE
                    /\ hook' = [s \in Slots |-> [hook[s] EXCEPT !.changed = @ \cup changed]]

(* The lifecycle broker issues a lease on the tree it observes, with a     *)
(* regular unprotected file as its Evidence.                               *)
CanBeEvidence(f) ==
    /\ ~\E l \in DOMAIN links : IsBelow(f, l)
    /\ \A i \in DOMAIN f : Fold[f[i]] \notin HarnessRoots \cup SecretNames

Issue(globs, e) ==
    /\ Event /\ state # None /\ CanBeEvidence(e)
    /\ state.lease # None => now >= state.lease.issued + LeaseTerm
    /\ LET evidence == {[path |-> e, digest |-> tree[e]]}
           base == Observation(globs)
           bare == [state EXCEPT !.phase = "implementing", !.base = base,
                                 !.evidence = evidence]
       IN  state' = [bare EXCEPT !.lease =
                        [globs |-> globs, commands |-> LeaseCommands, issued |-> now,
                         binding |-> StateBinding(bare)]]
    /\ foreign' = FALSE
    /\ UNCHANGED <<tree, links, now, hook, calls, late>>

(* Mutant: the phase has a name the policy does not know.                  *)
MutantVerifying ==
    /\ Event /\ state # None /\ state.lease # None /\ state.phase = "implementing"
    /\ state' = [state EXCEPT !.phase = "verified"]
    /\ UNCHANGED <<tree, links, now, hook, calls, late, foreign>>

(* A check passed; a user turn revoked the lease; the file was damaged.    *)
Verifying ==
    /\ Event /\ state # None /\ state.lease # None /\ state.phase = "implementing"
    /\ state' = [state EXCEPT !.phase = "verifying"]
    /\ UNCHANGED <<tree, links, now, hook, calls, late, foreign>>

Turn ==
    /\ Event /\ state # None
    /\ state' = [task |-> state.task + 1, phase |-> "received", base |-> None,
                 evidence |-> {}, lease |-> None]
    /\ late' = 0
    /\ UNCHANGED <<tree, links, now, hook, calls, foreign>>

Damage ==
    /\ Event /\ state' = None /\ late' = 0
    /\ UNCHANGED <<tree, links, now, hook, calls, foreign>>

Tick ==
    /\ Event /\ now' = now + 1
    /\ late' = IF state # None /\ state.lease # None
                  /\ now' = state.lease.issued + LeaseTerm THEN 0 ELSE late
    /\ UNCHANGED <<state, tree, links, hook, calls, foreign>>

UserEdits(f) ==
    /\ Event
    /\ \E c \in IF f = Config THEN Modes ELSE {"base", "user"} :
            c # tree[f] /\ tree' = [tree EXCEPT ![f] = c]
    /\ Disturb({f})
    /\ UNCHANGED <<state, links, now, calls, late>>

UserLinks(m) ==
    /\ Event /\ m # links /\ links' = m
    /\ Disturb(Files)
    /\ UNCHANGED <<state, tree, now, calls, late>>

Judge(s) ==
    \/ ReadConfig(s) \/ LoadState(s) \/ Decide(s)
    \/ (\E f \in Files : Observe(s, f)) \/ Attest(s)
    \/ ProviderWrites(s) \/ ProviderReturns(s)

World ==
    \/ \E globs \in Scopes, e \in Files : Issue(globs, e)
    \/ Verifying \/ Turn \/ Damage \/ Tick
    \/ (\E f \in Files : UserEdits(f)) \/ (\E m \in LinkMaps : UserLinks(m))

Next ==
    \/ \E s \in Slots : Judge(s) \/ \E call \in Payloads : CallTool(s, call)
    \/ World

Spec == Init /\ [][Next]_vars
=============================================================================
