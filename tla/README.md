# Formal model of the Engineering Harness

TLA+ modules, TLC configurations and TLAPS proofs for this repository. The
Engineering Harness makes a coding agent work under a contract: in *strict* mode
a provider's native write is allowed only under a **Write Lease**, a lease is
issued only for an **accepted** Task, a Task is **completed** only with receipts
of verification commands, and every user turn revokes what the previous one
granted. That lifecycle is the core of the system. The gate in front of the
writes, the verification plan, dependency Evidence, the installer and the live
benchmark have models of their own. TLC checks each model on a small instance;
TLAPS proves every safety property that the passing runs check, for all values
of the constants.

Path abbreviations: `lifecycle` is `src/runtime/application/lease_lifecycle.py`,
`gate` is `src/runtime/domain/gate.py`, `adapter` is
`src/runtime/adapters/codex/pretool_gate.py`, `live_codex` and `engine` are files
of `src/runtime/benchmark/`. Under `src/skills/setup-engineering-harness/`,
`hook` is `assets/runtime/userprompt_context.py`, `broker` is
`assets/harness/runtime/verification_broker.py`, `audit` is
`assets/harness/checks/audit.py` and `installer` is `scripts/setup_harness.py`.

## 1. Inventory

| Component | State it keeps | Operations | Talks to |
|---|---|---|---|
| Strict write lifecycle (`lifecycle`) | host files `gate-state.json`, `task-contract.json`, `lease-proposal.json`, `verification-receipts.json`, `completion-receipt.json`, `gate-state.lock` | record a prompt, revoke after failure, set acceptance, request, approve, renew, record a receipt, complete | called by the hook, the brokers and a terminal, all as separate processes; shares the files with all of them |
| UserPromptSubmit hook (`hook`) | none of its own | handle one user turn; on any error revoke and report | calls the lifecycle |
| Verification plan (in `lifecycle`) | `verificationPlan` inside the contract | build, validate | read from the configuration and repository profile |
| Verification broker (`broker`) | a disposable copy of the Project | read the lease, snapshot, run a registered command in a sandbox, record a receipt | calls the lifecycle |
| PreToolUse gate (`gate`, `adapter`, launcher) | none; reads the configuration, `gate-state.json` and the tree | choose the mode, decide on one tool call, attest the lease | called by the provider before each tool call; the provider writes afterwards |
| Lease request broker | none | locate the trusted runtime, call the lifecycle | agent's command line |
| Official and dependency Evidence (in `lifecycle`) | `official-evidence/`: a text and a metadata file per document | register, read, capture, check a dependency claim | holds the lifecycle's lock through a download; reads files that package managers change |
| Installer (`installer`) | Project and host files, manifest, `setup-status.json`, recovery copies | plan, apply with rollback, repair, verify a provider, uninstall | replaces every other component's files, the host state of a running Task among them |
| Audit (`audit`) | none | compare the installation with its manifest | ends every install and repair; `verify-provider` starts only when it finds no issue |
| Context broker | none | bounded read-only searches | agent's command line |
| Benchmark comparison (`engine`, scorers) | none | compare arms, find regressions, decide | called by a live screen and by a replay |
| Live Codex runner (`live_codex`) | observation file, its attestation, `attestation.key` | run a counterbalanced matrix, judge it, publish it; replay it | drives an external coding agent; screens and replays share the three files |
| Benchmark input and reports | none | read artifacts, render | - |
| Package entry points | none | start Python, compare bundled copies | - |

`assets/runtime/engineering_harness_gate/{domain,lifecycle,codex}.py` are copies
of the modules under `src/runtime/` with other import lines; one model covers both.

### What is hard here

* **Processes share files.** Hook, approval at a terminal, request, renew,
  verification and completion are processes that share five files under one
  `flock`. Each file is replaced atomically, a *handler* that replaces three of
  them is not: a failed write or a kill leaves a prefix of its writes. The
  installer and the benchmark replace several files without any lock.
* **Work outside the lock.** Approval and renewal read the proposal before they
  take the lock, approval writes the proposal after it has released it, renewal
  uses two critical sections, verification runs for minutes between reading the
  lease and recording the receipt, the provider writes after the gate decided,
  `verify-provider` restores the host state it copied a minute ago.
* **State that goes stale.** The plan is computed from a configuration, a receipt
  from a tree, Evidence from files, an attestation from a tree read file by file:
  all of them may change before they are used.
* **Long protocols.** What a turn keeps (decisions, acceptance, plan) depends on
  what the prompt looks like and on what earlier turns and drafts left; what
  uninstall may remove depends on what every earlier install recorded.
* **Time.** A lease has a term, and a call reads the clock *before* it waits for
  the lock: what it then does may come after the term (`lifecycle:1721`,
  `lifecycle:2119`, `lifecycle:2233`). The lock is held through a download while
  prompt hooks wait for it.

`PROJECT.json` lists each hazard at its line, with the property that covers it.

### What makes each component correct

* Lifecycle: a lease rests on an accepted contract; acceptance of what is risky or
  unproven involves the user; a lease needs consent or eligibility for automatic
  approval; a completion is backed by receipts; failure leaves no authority.
* Hook: every turn ends; a failed turn leaves no lease.
* Broker: a receipt records bytes that were really tested.
* Gate: a write stays in the scope and off what is protected, rests on the tree
  the lease was issued on, and does not outlive its lease by more than what was
  already on its way; the agent's own work does not invalidate its lease.
* Plan: what no command proves becomes a decision; what is configured is required.
* Evidence: a registered document is readable and belongs to the accepted
  question; an attested claim about an installed package is true.
* Installer: what users wrote survives; a failed command leaves what it found; a
  successful one leaves what audit accepts; uninstall takes away its own files and
  entries and keeps what is the user's; a running Task is not undone.
* Benchmark: only a fair and finished matrix is offered for promotion; a replay
  attests and decides what one screen did; arms run in a balanced order.

## 2. Modules

| Module | What it is |
|---|---|
| `WriteAuthority` | abstract specification of what the lifecycle promises |
| `LeaseLifecycle` | the lifecycle, with hook, verification broker, renewal and native writes as its clients |
| `LeaseProperties` | its properties, its refinement mapping and its fairness |
| `LeaseLifecycleProofs`, `LeaseAuthorityProofs`, `LeaseVerificationProofs` | theorems about the lifecycle: types, agreement of the files, failed turns; authority, consent and the refinement; receipts, completion and terms |
| `VerificationPlan` | `build_verification_plan` with its loop, and the protocol that stores, answers and validates the plan |
| `GatePolicy`, `GateProperties` | a tool call from the provider to the write, through mode, state, decision and attestation |
| `DependencyEvidence` | registration and reading of official documents, capture and check of a dependency claim |
| `Installer`, `InstallerProperties` | install, repair, uninstall and verify-provider over the files of a Project and its host |
| `Benchmark` | screens, judgement, publication and replay of a live matrix |
| `PlanProofs`, `GateProofs`, `EvidenceProofs`, `InstallerProofs`, `BenchmarkProofs` | theorems about these components, one module each |
| `MCLease`, `MCPlan`, `MCGate`, `MCEvidence`, `MCBenchmark` | values of the constants for TLC |

### `LeaseLifecycle`

**State.** One variable per host file (`gate`, `contract`, `proposal`, `ledger`,
`completion`); `todo`/`staged` for the process inside a critical section; `hook`,
`renewal`, `run`, `tool` for the processes between theirs; `tree`, `policy`,
`clock` for the world. Digests are modelled by what they digest, so two digests
are equal exactly when the digested values are: `gate.acc`, the acceptance hash,
is the contract.

**Handlers.** Taking the lock, all reads, all guards and the computation of the
new files are one action (nothing else can change the files meanwhile). It
*stages* the new files; each `WriteFile(f)` step then performs one
`atomic_write_json`, in the order of the code (`Rank`). The lock is held while
`todo` is not empty. `WriteFails` is an `OSError` from a write and `Killed` the
death of a process, at any point, both at most `MaxFaults` times.

| Code | Actions |
|---|---|
| `record_prompt_task` | `RecordPrompt` (forms of prompts: `Forms`, outcome of the classification: `Classes`) |
| `process_user_prompt` + `approve_proposal` | `ReadApproved`, `IssueApproved` or `RefuseApproval`, `MarkRead`, `MarkWrite` |
| `approve` at a terminal | the same with `via = "terminal"`, which ends without the marker and does not revoke on failure |
| `block_after_prompt_failure` + `revoke_write_lease_after_prompt_failure` | `RejectPrompt`, `RevokeAfterFailure`, `ReportReturns` |
| `set_acceptance_contract` | `SetAcceptance` |
| `request_write_lease` | `RequestLease`; `Propose` is shared with approval and renewal |
| `renew_write_lease` | `ReadForRenewal`, `RenewRevokes`, `RenewRequests` |
| verification broker `main` + `record_verification_receipt` | `RunVerification`, `RecordReceipt` |
| `complete_task` | `CompleteTask` |
| `CodexGateAdapter.evaluate_payload`, native write | `AllowNativeWrite`, then `NativeWrite` by the provider; in full in `GatePolicy` |

**Abstractions.** One acceptance criterion, either of a kind a command proves or
of none (`semantic`); one decision name per cause. Evidence is a set of files
whose contents are captured; that Evidence *supports* a claim is modelled in
`DependencyEvidence`. Evidence files that git ignores are in no tree observation
(`Ignored`). `Scopes` are scopes that pass path validation and the scope-count
limit. Taking the lock is one step with the reads before it, the clock excepted:
`now \in 0..clock` is the time a call read before it began to wait (any earlier
time, for a call may have waited from then on), bounded by what it did before
(`since` in a hook, a renewal and a run). A handler observes the tree at one
instant; `GatePolicy` observes it file by file. One hook runs at a time (a
provider session waits for its hook), beside it any interleaving of brokers, one
renewal, one verification run and one native write in flight. A verification run
that fails changes nothing and is left out. Assistive mode has no lifecycle.

### `WriteAuthority`, and how the lifecycle implements it

The abstract specification has no files: the *terms* the user accepted, a lease
on *offer* under them, the *lease* in force, a native *write* that has begun, the
last *done* completion, the time, and how many leases were ever offered. `Bind`
changes the terms and ends the lease with them; `Offer` needs terms and no lease,
and its lease is new; `Issue` puts the offer in force; `Begin` starts a write in
the lease's scope and term; `Complete` closes a Task under lease and terms. An
offer and a completion bear a time not later than now, and a completion one in
the term of its lease: when they happen is not promised.

`LeaseProperties!Authority` maps: terms to the accepted contract that
`gate-state.json` is bound to (`TermsOf`); offer to the lease of a staged gate
state that is not on disk (`OfferOf`); lease to `gate.lease`; write, done, now and
count to `tool`, `completion`, `clock` and `leases`. A write of any other file
maps to a stutter. That this works is not obvious: the acceptance a lease rests on
is computed from `task-contract.json`, and the files may belong to different
handlers after a kill.

### `VerificationPlan`

The two modules split the plan's two difficulties. `LeaseLifecycle` has files,
lock and faults, and a plan for one criterion; `VerificationPlan` has a contract
that changes atomically, drafts of several criteria, and the complete plan.

| Code | Definitions |
|---|---|
| loop of `build_verification_plan` | what iteration `i` gathers and asks: `Proofs`, `OwnDecision`, `Asks`; what it reads of the Python name `decision_id`, which outlives the iteration that assigned it: `Reads`, `Asked` (the value is that of the last iteration up to `i` that asked), `LoopEnds` (it was assigned before it was read); together `CriterionPlan`, `CriteriaRequired`, `CriteriaAsk` |
| rest of `build_verification_plan` | `RiskRequired`, `RiskAsks`, `BuildPlan` |
| `_configured_verification_ids`, `validate_verification_plan` | `ConfigIsRegistered`, `PlanIsCurrent` |
| `set_acceptance_contract` | `SetAcceptance` (`Superseded`, `MayResolve`; a crash in the loop leaves the files) |
| `record_prompt_task`, branch that keeps the Task | `Answer` (`Revise`, `Unrun`) |
| `request_write_lease`, `complete_task` | `Request`, `Complete`, as far as they depend on the plan |
| configuration and profile | `Reconfigure`, at any time |

A decision id is a digest of what the decision is about; the model uses that
record itself. The regular expressions that find out what a statement speaks of
are the constants `KindsOf`, `UiStatements`, `PerfStatements`.

### `GatePolicy`

`state` is `gate-state.json` (`None` when unreadable), `tree` and `links` are the
Project, and each slot of `hook` is one tool call on its way. The top of a call and each of
its items is the sequence of paths it names, none, one or (under both keys) two.

| Code | Definitions |
|---|---|
| launcher: mode, assistive policy | `ReadConfig`, `AssistiveAllows` |
| `action_from_codex_payload`, edit paths, path facts | `ActionFrom`, `EditPaths` (`OnePath`, `TopPath`, `ItemPaths`), `PathFact` |
| `evaluate_gate`, `evaluate_write_lease`, `_evaluate_path`, `_glob_matches` | `Allows`, `LeaseUsable`, `PathAllowed`, `Matches` |
| `validate_lease_scope`, `validate_safe_glob` | `ValidLeaseScope`, an assumption on `Scopes` that TLC evaluates |
| `load_gate_state`, `evaluate_gate` | `LoadState`, `Decide`: two steps, the state may change in between |
| `active_lease_attestation`, tree and Evidence | `Observe`, one file at a time, then `Attest` |
| the provider | `ProviderWrites` through the symlinks there are by then, or `ProviderReturns` |

A path is its sequence of names and a glob a sequence of names, `*` and `**`, so
scopes, protected globs, spelling (`Fold`) and symlinks are matched for real. That
a command line is canonical, and that a payload is well-formed JSON, are data.
There is at most one symlink on the way of a path. `GatePolicyAssumption` says
what the proofs use of the constants: the configuration is a file below a
Harness root, the Project root is not a file, every name can be folded, a scope
passes `validate_lease_scope`, the tree without symlinks is one of the trees, the
slots are finitely many. `CallAssumption` is what the adapter's parsing gives: a
plain write has no list of edits, the edits of a patch name their paths.

`_one_path_value` finds no path in an object that names two (`adapter:662`). An
item that names two is refused like one that names none, except under a path at
the top, where "none" is what is expected: that path alone is judged, whatever two
paths the item names (`adapter:519`). `FormsAgree` states this rule for every
call. What a provider does with such an item is not in the repository;
`ProviderWrites` lets it write all of them, and `WritesStayInScope` is about calls
without such objects (`Plain`).

While modelling: assistive mode denies an ordinary multi-edit that names its file
at the top, which strict mode accepts (`AssistiveAllows`, `EditPaths`); a branch
for `project-root-write` is never reached; and no lease scope can name the root.

### `DependencyEvidence`

The lease broker is one process that holds the lock from its first read to its
last write; `broker.pc` is its place: `fetch`, `body`, `metadata` for
`register_official_evidence`; `capture`, `validate`, `package`, `native`,
`official`, `issue` for a request, where each reading of a file is a step (the
metadata is read twice, for the version and for the place of the package).
`Change` is a package manager between any two of them, `BrokerDies` a kill or a
failed write. `hook` is a prompt hook that waits for the lock and is ended by the
provider after its 10 seconds (`HookTimesOut`). `SamePackage` and `IsAsked` keep
the two different ideas of "the same name" the code has. A document's id digests
its package, question and text; the model uses the three. The manifest formats of
the four ecosystems are data: a metadata file is the package and version it names,
a native file the symbols in it. Where files are is a constant (`Location`,
`Site`), and `IsBelowPackage` is the rule for the path of a native file, by prefix
for npm, rust and go and by the first name below `site-packages` for Python; the
run is one of npm, the theorems are about all four.

The digest of a file and the check of its content are two reads. A file changed in
between, and changed back later, is attested although its check was of something
else. `disturbed` is history: the files that changed between their own digest and
their own check (of the metadata, the check of package and version);
`AttestedClaimIsTrue` excepts what is said about them, and nothing else.

While modelling: a native file in a *nested* `node_modules` of the named package
is taken as a file of the outer package (`IsBelowPackage` compares prefixes).

### `Installer`

`disk` maps paths to contents. Bytes the installer writes are the release they
come from, so a digest in the manifest is a release. `bridge` is `AGENTS.md` or
`CLAUDE.md` (the user's text, the managed block, the line breaks around it),
`hooks` the provider's hook file (other entries, managed entries), `seed` a file
created once, `state`, `status`, `sidecar`, `evidence` the host's files,
`manifest`, and the files the installer owns. `disk["recovery"]` are the copies a
repair makes.

| Code | Definitions |
|---|---|
| `plan_setup`, `bridge_analysis`, `hook_analysis`, `add_desired_file`, host state, `build_manifest` | `SetupPlan` with `BridgePlan`, `HooksPlan`, `OwnedPlan`, `StatePlan`, `StatusPlan`, `NewManifest` |
| `plan_uninstall`, `uninstall_bridge`, `uninstall_hooks` | `UninstallPlan`, `BridgeRemoval`, `HooksRemoval` |
| `execute_setup`, `execute_uninstall` up to the plan | `Start` |
| `apply_transaction` | `Begin`, one `Mutate` per file in the order of `Place`, `Commit`; `WriteFails`, `RollBack` in reverse, `RollBackFails`, `RolledBack` |
| `verify_provider` | `VerifyProvider` (the audit), `ReadManifest`, `ReadStatus`, `CopyState`, `CopySidecars`, `VerifyStops`, `Canary`, `Restore`, `Judge` |
| `audit` | `AuditIssues` |
| users, other sessions, new releases | `Edit`, `Turn`, `Grant`, `Upgrade`; `Killed` at any step |

Planning reads every file in one step; from there on every file operation is a
step, and edits, user turns and kills come between any two. What inspection finds
in the Project is part of the release number. All commands name one provider, so
the conflicts about another one do not arise; a status that names none (`bound` is
false) is bound by the next install. `verify_provider` reads one file after the
other, with other processes in between, from the audit to the last copy.

While modelling: a rollback that cannot restore a file still deletes the recovery
copy made of it (`UserContentKept` excepts that case, as `spoiled`); when the user
removes the line breaks around the managed block, audit passes but uninstall
refuses until they are back (`FramingDrift`).

### `Benchmark`

`screen[p]` is one `run_live_screen`: its plan (arms, scenarios, repetitions), the
log of its runs, its frozen copy of the installer, and how far it is. A fixture
and the installer are the versions they have. `build` is the version a screen
copied when it began, `copy` what has become of the copy: how often it was changed,
the configuration it installs, and whether it installs hooks. `copies` is history:
the copy each run was prepared from. What a run records of its installation
(`Treatment`) is the arm, `build` and the configuration; whether its hooks come from
the copy as it was frozen is asked only when hooks were installed and are to be
trusted (`Vetted`, `live_codex:2701`). `Request` is the position-th run of the Latin
rotation.
The names of the arms, and of the scenarios, of a plan are unique
(`PlansAssumption`), as the matrix requires (`live_codex:4057`).

| Code | Definitions |
|---|---|
| `execute_counterbalanced_live_matrix`, preparing and finishing a run | `Offset`, `Request`, `PrepareRun` (`Treatment`, `Vetted`), `FinishRun`, `HostVerifies` |
| checks of a finished matrix, report | `Judged`: `EnvironmentsAgree`, `TreatmentsAgree`; `Judge` |
| `engine.compare`, regressions, decision | `Comparable`, `Mean`, `Regressions`, `Decision`, `Compare` |
| attestation key and publication | `LoadKey`, `WriteKey`, `WritePayload`, `WriteSidecar`, `Die` |
| replay | `ReadPayload`, then `Replay` (`Verified`, `ReplayReport`, which checks the matrix again) |
| everyone else | `EditFixture`, `EditInstaller`, `Thaw` (changes a copy), `EditPayload` |

What a provider writes is data: a run is captured or not, and the score of a
variant belongs to the plan. Statistics other than the mean are left out.

While modelling: host verification copies the fixture a second time, after the
run (`HostVerifies` takes the fixture of that moment); without a `stable` arm the
live report's reference is whichever variant the seed ran first (`Reference`); a
process killed between creating and writing `attestation.key` leaves an empty key
that every later run refuses; the fixture may differ between repetitions, since
only the arms of one cell are compared; that two arms have one treatment cannot
happen in a live matrix, because the fingerprint contains the arm's name, and is
seen by a replay only in an edited file; and a copy of the installer that changed
while it still installs the same configuration is noticed only where installed
hooks are to be trusted and by host verification, because the runs of a matrix are
compared by the configuration they installed and by the build they *declare*, the
fingerprint taken once when the matrix began (`live_codex:4113`). `ReviewIsEarned`
says accordingly which runs come from the copy as it was frozen.

Without a `stable` arm the screen and the replay report different regressions of
one matrix (`live_codex:4609`, `live_codex:4554`). `ReplayAgrees` therefore demands
the same decision always, and the same regressions where both compare with the same
control and reference.

## 3. Runs

`CHECK_DEADLOCK FALSE` everywhere: turns, leases, commands, faults and the clock
are bounded, and a system whose users and agents do nothing more may stop.

| Run | Bounds that matter | Shows |
|---|---|---|
| `authority` | 2 turns, 2 leases, 1 fault, low and material Tasks | `TypeOK`; under a failed write or kill anywhere, `AcceptanceNeedsUser`, `LeaseRestsOnAcceptance`, `LeaseNotReplaced`, `CompletionIsVerified`, and the refinement `ImplementsAuthority` |
| `receipts` | 2 scopes, only one eligible for automatic approval; 2 contents; 1 lease | `ReceiptsWereTested`, `CompletionIsVerified` and `LeaseNeedsConsent` while files change and the proposal is replaced under the user's answer |
| `conditions` | 2 configurations that change at any time; term 1, clock to 2 | `CompletionMeetsPolicy`; `LeaseUsedInTerm` and `ImplementsAuthority` at and after the boundary tick, with calls that read the clock before it and get the lock after it |
| `live` | `FairSpec`, no faults, 2 turns, 2 leases | `FilesAgree`, `FailedTurnRevokes`, `TurnsEnd`, `RenewalsEnd` |
| `plan` | 3 statements, drafts of at most 2, 3 turns, 2 profiles, 3 configurations, all risks | `CriteriaProved`, `AuthorityMeetsConfiguration` |
| `gate` | 5 files, 2 scopes, 3 symlinks, 19 calls of all forms, malformed ones and ones with two paths in an object among them, 2 of them made, 3 events, term 1 | `TypeOK`, `WritesStayInScope`, `WritesRestOnBase`, `LateWritesAreBounded`, `OwnWorkKeepsLease`, `FormsAgree` |
| `evidence` | `FairSpec`; 2 names that differ in a separator, 2 questions, 4 broker calls, 2 changes | `TypeOK`, `RegisteredIsReadable`, `OfficialBelongs`, `AttestedClaimIsTrue`, `PromptsEnd` |
| `install` | 2 releases, 3 commands, 2 events | `TypeOK`, `UserContentKept`, `FailureRestores`, `CommitIsSound`, `UninstallIsExact`, `TaskSurvives` |
| `benchmark` | a long and a short screen, 6 plans, 2 events | `TypeOK`, `ReviewIsEarned`, `AttestedIsOneMatrix`, `ReplayAgrees`, `OrderIsBalanced` |

Why the bounds suffice.

* *Lifecycle.* Two files, one in scope and one outside, have a change that a scope
  digest sees and one that only the base digest sees. Every property relates at
  most two consecutive Tasks or leases (an old one that a stale reader still holds
  and the current one), so two leases and a turn between them reach the stale
  cases; the clock matters only by its order with issue and expiry, so in `conditions`
  a call may have read it before the issue, in the term, or after; a second fault
  only repeats the first, since every fault leaves a prefix of one handler's
  writes on disk. The proofs remove these bounds. `FilesAgree` and
  `FailedTurnRevokes` are checked without faults, because they are false with
  them: a kill between two writes breaks the first, a failed write the second.
  What holds with faults is proved (section 4).
* *Plan.* The loop carries one thing from an iteration to the next, so two
  criteria reach every combination; three turns are a Task, a turn that settles
  the product decision, and one that gives a reason for an unproven criterion.
* *Gate.* The files are one of each kind the policy distinguishes (source,
  manifest, secret in another spelling, unleased, Harness-owned), the calls one of
  each form; the events are what may come between two reads of one hook, so three
  are a lease, a change and a change back. One slot: calls meet only through the
  tree, where another call's write is like an edit.
* *Evidence.* Two changes alter a file and restore it; the two package names
  separate the code's two comparisons; four calls are an acceptance, a
  registration under it, the acceptance of another question, and a request that
  names the document of the first. One turn interrupts them.
* *Installer.* Three commands are an install, one that meets what the first left,
  and one that undoes both; two events are an upgrade and an edit, or a failure
  and a failure of the rollback. One owned file stands for all: the plan of one is
  independent of the others, and other paths are present to be half-applied.
* *Benchmark.* Of the six plans one is the smallest matrix that may be offered for
  promotion, one has all arms, one has three repetitions with hooks nobody vetted,
  over a scenario with required checks and one without, one has three repetitions
  with trusted hooks and no required checks, one lacks the preferred control, one
  has only it. The last two are those of the second screen, which
  needs no more runs than reach publication.

### Findings: what the repository says and the code does not do

Three runs are expected to be violated; each states one sentence of the repository.

| Run | Statement | What TLC shows |
|---|---|---|
| `doc_plan` | acceptance claims are bound to host-detected checks | a draft whose checks are all configured gets no plan: the loop reads `decision_id` before any iteration assigned it |
| `doc_upgrade` | the audit after an install or repair does not fail | the context-broker digest in `setup-status.json` is written once; after an upgrade that changes the broker, every install and repair ends in a failing audit and `verify-provider` refuses, until uninstall. The quoted test repairs the release it installed |
| `doc_canary` | "The prior Write Lease was revoked before this user turn" | `verify-provider` restores the host state it copied before a turn of another session, and with it the revoked lease |

Met while modelling the lifecycle, true of the model, and stated by no run of
their own:

* "new task: ..." abandons pending work only when its body is one line
  (`lifecycle:127`).
* After a kill between the gate state and the proposal the active lease cannot be
  renewed (`lifecycle:1910`, `lifecycle:1734`).
* The approval marker is written without the lock and may restore an older
  proposal; completion then asks for its checks only (`lifecycle:1998`).
  `CompletionIsVerified` and `CompletionMeetsPolicy` hold all the same, because
  `complete_task` builds the plan again from the contract and the configuration.
* A receipt binds only the in-scope part of the snapshot (`broker:822`, `broker:853`).
* A receipt or completion that waited for the lock is written under a lease that
  has expired meanwhile, and `completedAt` may be earlier than the `recordedAt` of
  the receipts it rests on (`lifecycle:2119`, `lifecycle:2233`).
* Repair of a gate state with a wrong mode writes back the bytes it planned from,
  and with them a lease that a turn in between revoked (`installer:1496`).
* The hook reports "Write authority was revoked." although the revoking write
  failed (`hook:74`, `hook:85`).

### Fairness

`LeaseProperties!FairSpec` assumes weak fairness of `Write`, `MarkRead`,
`MarkWrite`, `ReportReturns`: a live process performs its next write or its next
unlocked step. It assumes strong fairness of the steps that take the lock
(`RenewRevokes`, `RenewRequests`, `RevokeAfterFailure`, and the hook's approval):
`flock` is blocking and the kernel does not pass a waiter over for ever.
`DependencyEvidence!FairSpec` assumes weak fairness of the lock holder's next step
(the server answers or the connection times out: the request has a timeout) and
strong fairness of the waiting hook's `Record`. Users, agents, editors, package
managers, timeouts, faults and the clock have no fairness: nothing makes them act.

## 4. Proofs

| Theorem | Statement |
|---|---|
| *Lifecycle* | |
| `TypesHold` | `Spec => []TypeOK` |
| `FilesAgreeUntilAFault` | `Spec => [](faults = 0 => FilesAgree)` |
| `FailedTurnsRevokeOrFault` | `Spec => [][a failed turn is reported and this step is no fault => gate.lease' = None]_vars` |
| `FailedTurnsRevoke` | with `MaxFaults = 0`: `Spec => FailedTurnRevokes` |
| `LeasesRest` | `Spec => []LeaseRestsOnAcceptance` |
| `UsersAccept` | `Spec => []AcceptanceNeedsUser` |
| `LeasesEndFirst` | `Spec => LeaseNotReplaced` |
| `LeasesHaveConsent` | `Spec => LeaseNeedsConsent` |
| `LifecycleImplements` | `Spec => ImplementsAuthority` |
| `ReceiptsAreTested` | `Spec => []ReceiptsWereTested` |
| `CompletionsAreVerified` | `Spec => CompletionIsVerified` |
| `CompletionsMeetPolicy` | `Spec => CompletionMeetsPolicy` |
| `LeasesAreUsedInTerm` | `Spec => LeaseUsedInTerm` |
| *Plan* | |
| `CriteriaAreProved` | `Spec => []CriteriaProved` |
| `AuthorityIsCurrent` | `Spec => AuthorityMeetsConfiguration` |
| *Gate* | |
| `GateTypes` | `Spec => []TypeOK` |
| `EditsStayInScope` | `Spec => WritesStayInScope` |
| `EditsRestOnBase` | `Spec => WritesRestOnBase` |
| `OwnWorkIsKept` | `Spec => []OwnWorkKeepsLease` |
| `LateEditsAreBounded` | `Spec => []LateWritesAreBounded` |
| `FormsAreJudgedAlike` | `Spec => []FormsAgree` |
| *Evidence* | |
| `EvidenceTypes` | `Spec => []TypeOK` |
| `DocumentsAreReadable` | `Spec => []RegisteredIsReadable` |
| `DocumentsBelong` | `Spec => []OfficialBelongs` |
| `AttestedClaimsAreTrue` | `Spec => []AttestedClaimIsTrue` |
| *Installer* | |
| `InstallerTypes` | `Spec => []TypeOK` |
| `UserFilesAreKept` | `Spec => []UserContentKept` |
| `FailuresRestore` | `Spec => FailureRestores` |
| `TasksSurvive` | `Spec => TaskSurvives` |
| `UninstallsAreExact` | `Spec => UninstallIsExact` |
| `CommitsAreSound` | `Spec => CommitIsSound` |
| *Benchmark* | |
| `BenchmarkTypes` | `Spec => []TypeOK` |
| `ReviewsAreEarned` | `Spec => []ReviewIsEarned` |
| `AttestationsAreWhole` | `Spec => []AttestedIsOneMatrix` |
| `ReplaysAgree` | `Spec => []ReplayAgrees` |
| `OrdersAreBalanced` | `Spec => []OrderIsBalanced` |

They hold for every value of the constants that satisfies the assumptions of the
module: `FilesAssumption`, `PolicyAssumption`, `BoundAssumption` of
`LeaseLifecycle`; `StatementAssumption`, `ConfigAssumption`, `BoundAssumption` of
`VerificationPlan`; `GatePolicyAssumption`, `CallAssumption`, `StateAssumption`;
`EvidenceAssumption`; `InstallerAssumption` (the paths the installer owns are none
of the paths with a role of their own) and `MarkAssumption` (the marks for edited,
broken and unsafe contents are no contents); `PlansAssumption`,
`EventsAssumption`, `NoneAssumption` of `Benchmark`. TLC evaluates all of them in
the runs. So there may be any number of files, scopes, commands, turns, leases,
faults, tool calls, packages, releases, plans and screens. `FailedTurnsRevoke` is
the one theorem with a hypothesis of its own; `FailedTurnsRevokeOrFault` is what
holds without it.

### Lifecycle

*Types.* `TypeOK` alone is not inductive: what `HookAfterWrites` and the failure
steps return depends on the hook's state while it holds the lock. `TypeInv` adds
`HookIsReady`, which says so.

*Agreement.* `FilesAgree` speaks of moments when the lock is free; in between, the
files disagree. `AgreementInv` says what the files *will be* when the handler that
holds the lock is done: `NextGate`, `NextContract`, `NextLedger` take the staged
file where it is still to be written. Without a fault these agree at every step
(`WillAgree`), a write of the holder changes none of them, and with the lock free
they are the files. `WillRevoke` says that a hook that revokes will leave no
lease. The proof also shows what exactly a fault can do: a step that reports a
failed turn and leaves a lease is itself the failed write or the death of the
hook; earlier faults cannot cause it.

*Authority.* `LeaseRestsOnAcceptance` speaks of one file, but the file comes from
a staged value computed several steps earlier. `AuthorityInv` therefore says the
same of the staged gate state, that a staged lease was computed when there was
none on disk (`LeaseNotReplaced` follows from this conjunct and the lock), and that
every contract on disk, in the gate state, or staged satisfies the "user has
spoken" condition, including the facts about revisions, provenance and pending
decisions from which `SetAcceptance` derives it. Each action has a step of its own.

*Verification.* `VerifiedInv` adds three things to `AuthorityInv`. `LedgerSound`:
every receipt, on disk and staged, that names the ledger's lease names in-scope
bytes its command ran on. `PlanAgrees`: while the gate state
has a lease, a contract on disk that has an acceptance has the plan the lease was
issued under. `complete_task` checks the plan of the one file and the receipts
against the other without comparing the two, and after a kill they come from
different handlers; this is why that is still safe.
`Backed`: a staged completion has all its receipts, and they are still on disk
when the completion is written several steps later.

*Terms.* A receipt is judged by a time the call read before it waited, so the
clock says nothing about it when it is written. `TimedInv` adds `Timed` to
`BoundInv`: a receipt that is staged and not on disk bears a time in the term of
the lease on disk, and the gate state staged with it keeps that lease. Only
`record_verification_receipt` adds receipts to a ledger (`LedgerStarts`). The rest
of `LeaseUsedInTerm` follows from `CompletionBound` (below) and from the guards,
since a lease cannot change while the lock is held.

*Consent.* The approval reads the proposal without the lock. `StagedConsent` says
that a staged lease that is not yet on disk is eligible for automatic approval or
equals, field by field, what the hook read (`Approved`); it survives until the write because
a hook that holds the lock keeps what it read, and nothing else can stage.

*Refinement.* `BoundInv` adds two facts to `AuthorityInv`. `LeaseBound`: a staged
gate state with a lease has the acceptance the gate state on disk has, so the
write that issues the lease does not change the terms. `CompletionBound`: a staged
completion is one, of the lease and the acceptance on disk, with a time in the
lease's term, so the write that completes is one under the lease in force. The
clock may have passed the term by then, which is why the abstract `Complete`
bounds the time a completion bears and not the time when it happens. `Simulated`
says of a step that it keeps both and maps to a step of `WriteAuthority` or to a
stutter; every action has a lemma of that form, and actions that only stage or
only lose files share one each.

### Plan

`PlanInv` is `CriteriaProved` with the shape of the contract. The heart is
`PlanProvesCriteria`: when a plan built from a draft leaves nothing pending, every
criterion that asks was excused by a reason for *it*, at its place and for its
gaps, and every other one has a proof in each dimension it speaks of; the stale
`decision_id` of the loop enters the plan's record but never what is pending. The
plan has no fold over the criteria: what an iteration reads of the earlier ones is
said by `Asked`, so no induction is needed.

### Gate

`GateInv` says what a hook on its way knows. `ScopeHolds`: a strict edit that has
been decided on was allowed by the lease the hook keeps, path by path, with the
symlinks of that moment. `ReadSoFar`: what the hook has read of the tree and nobody
changed since is as the lease recorded it. `LateHolds`: the late edits and the
hooks that may still let one through are together no more than the slots; a hook
joins these only while a lease ends, and leaves them with at most one edit. To
end a lease changes many hooks' standing at once, so the count is about sets of
slots, not single hooks. `FormsAgree` needs of the state only that a hook's call is
one of `Payloads`: a call is judged by the set of its paths, and for every form that
set is what its objects name singly (`OnePath`), or empty.

### Evidence

`EvidenceInv` says what the broker knows at each of its steps. While registering
(`RegisteringSound`) the text is there before the metadata; while it handles a
request (`CaptureSound`, `ClaimSound`) a captured file that still has to be
checked is what is in the tree unless it was disturbed, and each part of the claim
validated so far holds of what was captured of its file, unless that file was
disturbed. `LeaseSound` is the same for what the lease took over; attestation,
which compares the tree with what was captured, does the rest. Documents of a
lease are exactly compared when the lease is issued, which is why the looser
comparison at registration does no harm (`OfficialBelongs`).

### Installer

`InstallerInv` distinguishes where the command is. In a transaction
(`Transactions`), `FilesSound` says of every path nobody else touched whether it is
as found or as planned, by whether its mutation is still to do, what was
copied for the rollback, and which recovery copies exist; `KeptByPlan` that the
user's content is in what was found and in what the plan leaves, with the copies
the plan makes; `FramingSound` that the line breaks around the managed block are
those the manifest knows; `AfterSetup` and `AfterUninstall` what is there if
everything succeeds. In a verification (`Verifications`) only the copied files
change. Between commands `UserContentKept` holds. Every plan function has a lemma
about what it keeps of the user's content, every file operation one about what it
keeps of `FilesSound`. A rollback that fails is excepted by `spoiled`, a lost
manifest by `lost`, as in the properties.

### Benchmark

`BenchmarkInv` has three parts. `ScreenSound`: a run of a log belongs to the matrix
and was prepared from the copy as it was frozen where somebody looks (`RunSound`: at
its hooks before the run, or, since a copy never changes back, at the copy when the
host verifies after it), and a report is what `compare` makes of a whole log that
passed the checks. `KeySound`: who may write a
sidecar has a usable key, and a sidecar attests the log of a screen that is done.
`ReplaySound`: what a replay has verified is such a log. `IsEvidence` needs the
whole matrix, but `compare` sees only that runs are distinct: `FullMatrix` is the
pigeonhole argument that as many different runs as the matrix has cells are all of
them, and `ThreeRepetitions` that a control seen three times was asked to.
`DecisionsAgree`: all variants have the same cells, so a replay with another
control decides alike. The checks a replay repeats are the same predicate
(`Judged`), so an attested matrix passes them again.

*Balance.* `OrderInv` adds that a log is the beginning of its rotation.
`RequestAt` and `EveryPlace` compute which run is at which place, for any numbers
of variants, scenarios and repetitions. The runs of a variant at one position of
one scenario then are the repetitions in which a residue is hit (`RunsAreHits`, by a
bijection), and of any two residues one is hit at most once more often
(`HitsAreBalanced`): whoever is hit, but for the last time, is followed within the
turn by a hit of the other.

### Only model-checked

Liveness (`TurnsEnd`, `RenewalsEnd`, `PromptsEnd`), which rests on fairness, and
the three runs that expect a violation. That the implementation of
`WriteAuthority` is fair is not claimed.

## 5. Plan

1. *(done)* `LeaseLifecycle`, its runs, types and authority proved.
2. *(done)* `VerificationPlan`; receipts, completion, terms and consent proved.
3. *(done)* `WriteAuthority`, implemented by `LeaseLifecycle`, proved.
4. *(done)* `GatePolicy`, `Installer`, `DependencyEvidence`, `Benchmark`, checked.
5. *(done)* Every safety property of a passing run proved, with agreement of the
   files up to a fault.
6. Abstract specifications for the installer (a command is one step that happens or
   does not) and for publication (an attestation is one step), with refinement
   mappings from the models above, and their proofs.
7. Properties of `WriteAuthority` itself, proved once and carried over to the
   lifecycle by `LifecycleImplements`.
8. The three hazards that no property covers yet (`PROJECT.json`): an acceptance
   that reopens a closed Task, the repair of a gate state with a wrong mode beside a
   turn, the second copy of a fixture.

## 6. Not modelled, and why

Operating-system sandboxing and process limits (Landlock, seccomp), parsing of
payloads, transcripts and command lines, rendering, HTTP and provider processes:
input and output without protocol state. The context broker is a read-only search
in one process. The lease request broker locates the runtime and calls operations
that are modelled. Of audit, the issues are modelled, the capability probe of the
verification sandbox is not. Of the benchmark, reading artifacts, rendering
reports, the scorers of single metrics and the generic `execute_matrix`, which the
live screen does not use, are left out. What audit calls incomplete without an
issue (an outdated provider receipt) stops nothing and is left out too. The
package entry points start Python and compare bundled copies. `PROJECT.json` says
for each component what is missing.
