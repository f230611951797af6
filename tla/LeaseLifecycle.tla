--------------------------- MODULE LeaseLifecycle ---------------------------
(***************************************************************************)
(* The strict-mode write lifecycle: runtime/application/lease_lifecycle.py *)
(* together with the parts of its three callers that change its state or   *)
(* act on it, the UserPromptSubmit hook, the verification broker and the   *)
(* PreToolUse gate.                                                        *)
(*                                                                         *)
(* The host keeps one JSON file per variable (gate, contract, proposal,    *)
(* ledger, completion).  A handler takes the state lock, reads, decides,   *)
(* and then replaces several files one after the other.  A handler is one  *)
(* action that checks every guard and STAGES the new files; each WriteFile *)
(* step then replaces one of them.  The lock is held while todo is not     *)
(* empty.  A write may fail and a process may be killed between any two    *)
(* writes; both release the lock.                                          *)
(*                                                                         *)
(* A digest is modelled by the value it digests: gate.acc, the acceptance  *)
(* hash, is the contract it was computed from, a tree observation is the   *)
(* function from the observed files to their contents, a proposal id is    *)
(* the proposal's material.  Lease ids digest the issue time in            *)
(* microseconds and are fresh numbers here.                                *)
(*                                                                         *)
(* A call that judges or issues a lease reads the clock BEFORE it waits    *)
(* for the lock.  That read is all it does before the lock, so the action  *)
(* that takes the lock also picks now, the time the call had read: any     *)
(* time since the call can have been made, however long it waited.         *)
(***************************************************************************)
EXTENDS Integers, FiniteSets

CONSTANTS
    Files,          \* files of the Project
    Ignored,        \* files git does not list; only Evidence observes them
    Contents,       \* contents a file can have
    Scopes,         \* scopes a request may name, each a set of files
    AutoScopes,     \* scopes with no wildcard and no manifest or lockfile
    EvidenceSets,   \* sets of Evidence files a request may cite
    VerificationIds,\* verification ids registered in the repository profile
    TestIds,        \* the registered ids whose kind is "test"
    Policies,       \* values of verification.required_commands
    Classes,        \* outcomes of classify_task_prompt
    AutoApprove,    \* write_gate.auto_approve_reversible_lite
    LeaseTerm,      \* write_gate.lease_minutes, in clock ticks
    MaxTime,        \* bound: clock ticks
    MaxTurns,       \* bound: user turns
    MaxLeases,      \* bound: leases after which the broker asks for no more
    MaxFaults,      \* bound: failed writes and killed processes
    None            \* an absent file or field

Risks == {"low", "material", "high"}
Class == [risk : Risks, dep : BOOLEAN]

ASSUME FilesAssumption ==
    /\ Ignored \subseteq Files
    /\ Scopes \subseteq SUBSET Files
    /\ AutoScopes \subseteq Scopes
    /\ EvidenceSets \subseteq SUBSET Files
ASSUME PolicyAssumption ==
    /\ TestIds \subseteq VerificationIds
    /\ Policies \subseteq SUBSET VerificationIds
    /\ Classes \subseteq Class
    /\ AutoApprove \in BOOLEAN
ASSUME BoundAssumption ==
    /\ LeaseTerm \in Nat \ {0}
    /\ MaxTime \in Nat /\ MaxTurns \in Nat /\ MaxLeases \in Nat /\ MaxFaults \in Nat

VARIABLES
    gate,       \* gate-state.json
    contract,   \* task-contract.json
    proposal,   \* lease-proposal.json
    ledger,     \* verification-receipts.json
    completion, \* completion-receipt.json
    todo,       \* files the holder of gate-state.lock has still to replace
    staged,     \* the values it will write
    hook,       \* the UserPromptSubmit hook, or approve at a terminal
    renewal,    \* a renew after its first read of the proposal
    run,        \* a passed verification run whose receipt is not recorded
    tool,       \* a native write the PreToolUse gate allowed, not yet done
    tree,       \* contents of the Project's files
    policy,     \* verification.required_commands as configured now
    clock, turns, leases, faults

files == <<gate, contract, proposal, ledger, completion>>
bounds == <<clock, turns, leases, faults>>
vars == <<files, todo, staged, hook, renewal, run, tool, tree, policy, bounds>>

-----------------------------------------------------------------------------
(* Values *)

Decisions == {"product", "unrun-criterion", "unrun-risk"}
Criteria == {"command", "semantic"}
Kinds == {"initial-request", "user-answer", "explicit-continuation"}
Phases == {"received", "decision-required", "discovery-locked", "research-required",
           "discovery", "implementing", "verifying", "complete", "blocked"}

(* What a prompt looks like to the patterns of process_user_prompt and     *)
(* record_prompt_task.  "newMultiline" starts with "new task:" and has     *)
(* further lines, which _EXPLICIT_NEW_TASK does not match.                 *)
Forms == {"new", "newMultiline", "continue", "continueBody", "answer", "plain"}

Observation == UNION {[S -> Contents] : S \in SUBSET Files}

Acceptance == [criterion : Criteria, resolved : SUBSET Decisions]
Plan == [required : SUBSET VerificationIds, policy : SUBSET VerificationIds,
         pending : SUBSET Decisions]

Contract == [task : Nat, rev : Nat, kind : Kinds, risk : Risks, dep : BOOLEAN,
             pending : SUBSET Decisions, status : {"draft", "accepted"},
             acceptance : Acceptance \cup {None}, accRev : Nat,
             plan : Plan \cup {None}, unrun : SUBSET Decisions]

Lease == [id : Nat, task : Nat, acc : Contract, scope : SUBSET Files,
          vids : SUBSET VerificationIds, base : Observation, evidence : Observation,
          issued : Nat]

Gate == [task : Nat, acc : Contract \cup {None}, base : Observation \cup {None},
         evidence : Observation, pending : SUBSET Decisions, phase : Phases,
         lease : Lease \cup {None}]

Material == [task : Nat, rev : Nat, acc : Contract, scope : SUBSET Files,
             vids : SUBSET VerificationIds, claim : BOOLEAN,
             evidence : Observation, pre : Observation]

ProposalStatus == {"absent", "task-revised", "decision-required", "approved",
                   "awaiting-user-approval", "lease-issued", "complete"}
Proposal == [material : Material \cup {None}, status : ProposalStatus, lease : Nat]

(* tested is a history field: the snapshot the recorded run was given.     *)
Receipt == [lease : Nat, content : Observation, at : Nat, tested : Observation]
Ledger == [task : Nat, lease : Nat,
           receipts : [VerificationIds -> Receipt \cup {None}]]

Completion == [task : Nat, lease : Nat, acc : Contract \cup {None},
               content : Observation, at : Nat]

Request == [acc : Contract, scope : SUBSET Files, vids : SUBSET VerificationIds,
            evidence : SUBSET Files, claim : BOOLEAN]
Renewal == [st : {"read", "requesting"}, lease : Nat, request : Request, since : Nat]

HookStates == {"idle", "recording", "approving", "issuing", "marking", "writing",
               "failed", "revoking", "reported"}
Hook == [st : HookStates, via : {"hook", "terminal"}, form : Forms \cup {None},
         seen : Material \cup {None}, since : Nat, copy : Proposal \cup {None}]
IdleHook == [st |-> "idle", via |-> "hook", form |-> None, seen |-> None, since |-> 0,
             copy |-> None]

FileNames == {"draft", "completion", "contract", "gate", "ledger", "proposal"}
Staged == [by : {"hook", "renew", "broker"}, gate : Gate, contract : Contract \cup {None},
           ledger : Ledger, proposal : Proposal, completion : Completion \cup {None}]

Run == [id : VerificationIds, scope : SUBSET Files, snapshot : Observation, since : Nat]
Tool == [file : Files, lease : Nat]

NoEvidence == [f \in {} |-> None]
NoReceipts == [v \in VerificationIds |-> None]
NoProposal == [material |-> None, status |-> "absent", lease |-> 0]

TypeOK ==
    /\ gate \in Gate
    /\ contract \in Contract \cup {None}
    /\ proposal \in Proposal
    /\ ledger \in Ledger
    /\ completion \in Completion \cup {None}
    /\ todo \in SUBSET FileNames
    /\ todo # {} => staged \in Staged
    /\ hook \in Hook
    /\ renewal \in Renewal \cup {None}
    /\ run \in Run \cup {None}
    /\ tool \in Tool \cup {None}
    /\ tree \in [Files -> Contents]
    /\ policy \in SUBSET VerificationIds
    /\ clock \in Nat /\ turns \in Nat /\ leases \in Nat /\ faults \in Nat

Init ==
    /\ gate = [task |-> 0, acc |-> None, base |-> None, evidence |-> NoEvidence,
               pending |-> {}, phase |-> "received", lease |-> None]
    /\ contract = None
    /\ proposal = NoProposal
    /\ ledger = [task |-> 0, lease |-> 0, receipts |-> NoReceipts]
    /\ completion = None
    /\ todo = {} /\ staged = None
    /\ hook = IdleHook
    /\ renewal = None /\ run = None /\ tool = None
    /\ tree \in [Files -> Contents]
    /\ policy \in Policies
    /\ clock = 0 /\ turns = 0 /\ leases = 0 /\ faults = 0

-----------------------------------------------------------------------------
(* Observations, contracts and plans *)

Tracked == Files \ Ignored
ObserveScope(S) == [f \in Tracked \cap S |-> tree[f]]
ObserveOutside(S) == [f \in Tracked \ S |-> tree[f]]
Capture(E) == [f \in E |-> tree[f]]

(* _validate_contract_identity: the contract on disk is the one the gate   *)
(* state was bound to.                                                     *)
ContractIsCurrent == contract # None /\ contract = gate.acc /\ contract.task = gate.task

(* Mutant: an accepted contract goes straight to the phase name of the     *)
(* write gate that the lifecycle never uses.                               *)
MutantContractPhase(c) ==
    IF c.pending # {} THEN "decision-required"
    ELSE IF c.status # "accepted" THEN "discovery-locked" ELSE "ready-to-write"

(* _contract_phase *)
ContractPhase(c) ==
    IF c.pending # {} THEN "decision-required"
    ELSE IF c.status # "accepted" THEN "discovery-locked"
    ELSE IF c.dep THEN "research-required"
    ELSE "discovery"

(* Mutant: the old lease stays in the state written for the new contract.  *)
MutantGateFor(c) ==
    [gate EXCEPT !.task = c.task, !.acc = c, !.pending = c.pending,
                 !.phase = ContractPhase(c)]

(* The gate state bound to a new or changed contract: no lease, no         *)
(* Evidence, and a base hash that is not a tree observation.               *)
GateFor(c) ==
    [gate EXCEPT !.task = c.task, !.acc = c, !.base = None, !.evidence = NoEvidence,
                 !.pending = c.pending, !.phase = ContractPhase(c), !.lease = None]

NewContract(class) ==
    [task |-> gate.task + 1, rev |-> 1, kind |-> "initial-request",
     risk |-> class.risk, dep |-> class.dep,
     pending |-> IF class.risk = "low" THEN {} ELSE {"product"},
     status |-> "draft", acceptance |-> None, accRev |-> 0, plan |-> None, unrun |-> {}]

(* A kept Task advances its revision.  A prompt with a body also drops the *)
(* acceptance; the pending decisions and the verification plan stay.       *)
Revise(kind, material, skips) ==
    LET next == [contract EXCEPT !.rev = @ + 1, !.kind = kind,
                                 !.unrun = @ \cup (skips \cap contract.pending)]
    IN  IF material
        THEN [next EXCEPT !.status = "draft", !.acceptance = None, !.accRev = 0]
        ELSE next

CommandIds(criterion) == IF criterion = "command" THEN TestIds ELSE {}
RiskIds(risk) == IF risk = "low" THEN {}
                 ELSE IF risk = "material" THEN TestIds ELSE VerificationIds

(* build_verification_plan: what must be run, and the decisions that stand *)
(* in for a criterion or a risk no registered command proves.              *)
BuildPlan(criterion, risk, unrun) ==
    LET unproven ==
            (IF CommandIds(criterion) = {} THEN {"unrun-criterion"} ELSE {})
            \cup (IF risk # "low" /\ RiskIds(risk) = {} THEN {"unrun-risk"} ELSE {})
    IN  [required |-> CommandIds(criterion) \cup RiskIds(risk) \cup policy,
         policy |-> policy, pending |-> unproven \ unrun]

(* Mutant: the plan in the contract is not computed again.                 *)
MutantPlanIsKept(selected) ==
    /\ contract # None
    /\ contract.acceptance # None
    /\ contract.plan.pending = {} /\ contract.plan.required \subseteq selected

(* validate_verification_plan *)
PlanIsCurrent(selected) ==
    /\ contract # None
    /\ contract.acceptance # None
    /\ LET plan == BuildPlan(contract.acceptance.criterion, contract.risk, contract.unrun)
       IN  plan.pending = {} /\ contract.plan = plan /\ plan.required \subseteq selected

(* Mutant: the instant of expiry still counts.                             *)
MutantLeaseInTime(lease, now) == lease.issued <= now /\ now <= lease.issued + LeaseTerm

LeaseInTime(lease, now) == lease.issued <= now /\ now < lease.issued + LeaseTerm

(* Mutant: the digests are enough, whatever the time.                      *)
MutantAttested(now) ==
    /\ ObserveOutside(gate.lease.scope) = gate.base
    /\ \A f \in DOMAIN gate.evidence \ gate.lease.scope : tree[f] = gate.evidence[f]

(* active_lease_attestation: the time window, the files outside the scope  *)
(* and the Evidence outside the scope.                                     *)
Attested(now) ==
    /\ LeaseInTime(gate.lease, now)
    /\ ObserveOutside(gate.lease.scope) = gate.base
    /\ \A f \in DOMAIN gate.evidence \ gate.lease.scope : tree[f] = gate.evidence[f]

-----------------------------------------------------------------------------
(* The lock and the files *)

LockFree == todo = {}

(* What is on disk now, as the starting point of a handler's new files.    *)
OnDisk(by) == [by |-> by, gate |-> gate, contract |-> contract, ledger |-> ledger,
               proposal |-> proposal, completion |-> completion]
Stage(names, value) == todo' = names /\ staged' = value

Rank == [draft |-> 1, completion |-> 2, contract |-> 3, gate |-> 4, ledger |-> 5,
         proposal |-> 6]

HookHoldsLock == todo # {} /\ staged.by = "hook"

(* Where the hook goes when the last file of its handler is written.       *)
HookAfterWrites ==
    CASE hook.st = "recording" -> IdleHook
      [] hook.st = "issuing" -> IF hook.via = "hook" THEN [IdleHook EXCEPT !.st = "marking"]
                                ELSE IdleHook
      [] hook.st = "revoking" -> [hook EXCEPT !.st = "reported"]
      [] OTHER -> hook

(* atomic_write_json of the next file of the handler that holds the lock;  *)
(* "draft" is the proposal as request_write_lease first saves it, before   *)
(* the lease exists.  A renewal goes on to its request when its first      *)
(* lock is released.                                                       *)
WriteFile(f) ==
    /\ f \in todo
    /\ \A g \in todo : Rank[f] <= Rank[g]
    /\ completion' = IF f = "completion" THEN staged.completion ELSE completion
    /\ contract' = IF f = "contract" THEN staged.contract ELSE contract
    /\ gate' = IF f = "gate" THEN staged.gate ELSE gate
    /\ ledger' = IF f = "ledger" THEN staged.ledger ELSE ledger
    /\ proposal' = CASE f = "draft" -> [staged.proposal EXCEPT !.status = "approved",
                                                               !.lease = 0]
                     [] f = "proposal" -> staged.proposal
                     [] OTHER -> proposal
    /\ todo' = todo \ {f}
    /\ staged' = IF todo' = {} THEN None ELSE staged
    /\ hook' = IF todo' = {} /\ staged.by = "hook" THEN HookAfterWrites ELSE hook
    /\ renewal' = IF todo' = {} /\ staged.by = "renew"
                  THEN [renewal EXCEPT !.since = clock] ELSE renewal
    /\ UNCHANGED <<run, tool, tree, policy, bounds>>

(* A write raises OSError: the lock is released and the handler fails.  In *)
(* the hook main catches the exception and goes on to revoke; while        *)
(* revoking, the second exception is swallowed and the hook reports.       *)
WriteFails ==
    /\ ~LockFree /\ faults < MaxFaults
    /\ faults' = faults + 1
    /\ Stage({}, None)
    /\ hook' = IF staged.by # "hook" THEN hook
               ELSE IF hook.st = "revoking" THEN [hook EXCEPT !.st = "reported"]
               ELSE IF hook.via = "hook" THEN [hook EXCEPT !.st = "failed"]
               ELSE IdleHook
    /\ renewal' = IF staged.by = "renew" THEN None ELSE renewal
    /\ UNCHANGED <<files, run, tool, tree, policy, clock, turns, leases>>

(* The process that holds the lock, or a hook between its steps, is killed. *)
Killed ==
    /\ faults < MaxFaults
    /\ faults' = faults + 1
    /\ \/ /\ ~LockFree
          /\ Stage({}, None)
          /\ hook' = IF staged.by = "hook" THEN IdleHook ELSE hook
          /\ renewal' = IF staged.by = "renew" THEN None ELSE renewal
       \/ /\ hook.st # "idle" /\ ~HookHoldsLock
          /\ hook' = IdleHook
          /\ UNCHANGED <<todo, staged, renewal>>
    /\ UNCHANGED <<files, run, tool, tree, policy, clock, turns, leases>>

-----------------------------------------------------------------------------
(* User turns *)

StartTurn == hook.st = "idle" /\ turns < MaxTurns /\ turns' = turns + 1

(* _reset_lifecycle_sidecars *)
ResetLedger(task) == [task |-> task, lease |-> 0, receipts |-> NoReceipts]
ResetProposal == [material |-> None, status |-> "task-revised", lease |-> 0]
SidecarNames == {"ledger"} \cup (IF proposal.status = "absent" THEN {} ELSE {"proposal"})

(* record_prompt_task *)
KeepsTask(form) ==
    /\ ContractIsCurrent
    /\ form # "new"
    /\ form \in {"continue", "continueBody", "answer"} \/ gate.pending # {}

PromptContract(form, class, skips) ==
    IF KeepsTask(form)
    THEN Revise(IF gate.pending # {} \/ form = "answer" THEN "user-answer"
                ELSE "explicit-continuation",
                form # "continue", skips)
    ELSE NewContract(class)

RecordPrompt(form, class, skips) ==
    /\ StartTurn /\ LockFree
    /\ form = "continue" => class = [risk |-> "material", dep |-> FALSE]
    /\ form \notin {"newMultiline", "plain"} => skips = {}
    /\ LET c == PromptContract(form, class, skips)
       IN  Stage({"contract", "gate"} \cup SidecarNames,
                 [OnDisk("hook") EXCEPT
                    !.contract = c,
                    !.gate = GateFor(c),
                    !.ledger = ResetLedger(c.task),
                    !.proposal = ResetProposal])
    /\ hook' = [IdleHook EXCEPT !.st = "recording", !.form = form]
    /\ UNCHANGED <<files, renewal, run, tool, tree, policy, clock, leases, faults>>

(* A turn that raises before any lifecycle write: a payload the hook       *)
(* rejects, or "approve <id>" with an id that is not the saved proposal's. *)
RejectPrompt ==
    /\ StartTurn
    /\ hook' = [IdleHook EXCEPT !.st = "failed"]
    /\ UNCHANGED <<files, todo, staged, renewal, run, tool, tree, policy, clock,
                   leases, faults>>

(* Mutant: the phase is blocked but the lease stays.                       *)
MutantBlockedGate == [gate EXCEPT !.phase = "blocked"]

BlockedGate == [gate EXCEPT !.phase = "blocked", !.lease = None]

(* revoke_write_lease_after_prompt_failure *)
RevokeAfterFailure ==
    /\ hook.st = "failed" /\ LockFree
    /\ IF gate.lease = None
       THEN /\ hook' = [hook EXCEPT !.st = "reported"]
            /\ UNCHANGED <<todo, staged>>
       ELSE /\ hook' = [hook EXCEPT !.st = "revoking"]
            /\ Stage({"gate", "ledger"},
                     [OnDisk("hook") EXCEPT
                        !.gate = BlockedGate,
                        !.ledger = ResetLedger(gate.task)])
    /\ UNCHANGED <<files, renewal, run, tool, tree, policy, bounds>>

(* The hook has printed "Write authority was revoked." and returns.        *)
ReportReturns ==
    /\ hook.st = "reported"
    /\ hook' = IdleHook
    /\ UNCHANGED <<files, todo, staged, renewal, run, tool, tree, policy, bounds>>

-----------------------------------------------------------------------------
(* Acceptance *)

PlanPending == IF contract.plan = None THEN {} ELSE contract.plan.pending

(* An agent may replace the acceptance it drafted for this very revision;  *)
(* the plan decisions that draft raised go with it.                        *)
Superseded(resolved) ==
    IF resolved = {} /\ contract.accRev = contract.rev THEN PlanPending ELSE {}

(* Mutant: the agent resolves decisions by itself.                         *)
MutantMayResolve(resolved) == TRUE

(* Decisions are resolved only from a recorded later answer of the user.   *)
MayResolve(resolved) == resolved # {} => contract.kind = "user-answer"

(* set_acceptance_contract.  The agent passes the current revision and     *)
(* prompt hash, or the call is refused.                                    *)
SetAcceptance(criterion, resolved, dep) ==
    /\ LockFree
    /\ gate.lease = None
    /\ ContractIsCurrent
    /\ PlanPending \subseteq gate.pending
    /\ LET open == gate.pending \ Superseded(resolved)
           plan == BuildPlan(criterion, contract.risk, contract.unrun)
           c == [contract EXCEPT
                    !.acceptance = [criterion |-> criterion, resolved |-> resolved],
                    !.accRev = contract.rev, !.plan = plan, !.dep = dep,
                    !.pending = (open \ resolved) \cup plan.pending,
                    !.status = IF (open \ resolved) \cup plan.pending = {}
                               THEN "accepted" ELSE "draft"]
       IN  /\ resolved \subseteq gate.pending
           /\ open # {} => resolved = open
           /\ MayResolve(resolved)
           /\ contract.dep => dep
           /\ Stage({"contract", "gate"},
                    [OnDisk("broker") EXCEPT !.contract = c, !.gate = GateFor(c)])
    /\ UNCHANGED <<files, hook, renewal, run, tool, tree, policy, bounds>>

-----------------------------------------------------------------------------
(* Requesting, approving and renewing a lease *)

(* Mutant: an active lease is no obstacle.                                 *)
MutantRequestIsValid(r) ==
    /\ ContractIsCurrent
    /\ r.acc = gate.acc
    /\ contract.status = "accepted"
    /\ contract.acceptance # None
    /\ PlanIsCurrent(r.vids)
    /\ r.claim = contract.dep

(* The checks of request_write_lease before the proposal is written.  A    *)
(* dependency claim is present exactly when the Task needs one; that the   *)
(* claim's Evidence supports it is left to the request's author.           *)
RequestIsValid(r) ==
    /\ gate.lease = None
    /\ ContractIsCurrent
    /\ r.acc = gate.acc
    /\ contract.status = "accepted"
    /\ contract.acceptance # None
    /\ PlanIsCurrent(r.vids)
    /\ r.claim = contract.dep

MaterialOf(r) ==
    [task |-> gate.task, rev |-> contract.rev, acc |-> r.acc, scope |-> r.scope,
     vids |-> r.vids, claim |-> r.claim, evidence |-> Capture(r.evidence),
     pre |-> ObserveScope(r.scope)]

RequestOf(m) ==
    [acc |-> m.acc, scope |-> m.scope, vids |-> m.vids, evidence |-> DOMAIN m.evidence,
     claim |-> m.claim]

DecisionBlocked == gate.pending # {} \/ gate.phase = "decision-required"

LowRisk(scope) ==
    /\ contract.risk = "low"
    /\ gate.phase \in {"discovery", "research-required", "implementing", "verifying"}
    /\ scope \in AutoScopes

ShouldIssue(r, force) == ~DecisionBlocked /\ (force \/ (AutoApprove /\ LowRisk(r.scope)))

LeaseOf(r, now) ==
    [id |-> leases + 1, task |-> gate.task, acc |-> r.acc, scope |-> r.scope,
     vids |-> r.vids, base |-> ObserveOutside(r.scope), evidence |-> Capture(r.evidence),
     issued |-> now]

(* Mutant: the receipts of the previous lease are not replaced.            *)
MutantIssueFiles == {"draft", "gate", "proposal"}

IssueFiles == {"draft", "gate", "ledger", "proposal"}

(* request_write_lease after its checks: save the proposal and, when it is *)
(* authorized, issue the lease.                                            *)
Propose(r, force, by, now) ==
    LET saved == [OnDisk(by) EXCEPT
                    !.proposal = [material |-> MaterialOf(r), lease |-> 0,
                                  status |-> IF DecisionBlocked THEN "decision-required"
                                             ELSE "awaiting-user-approval"]]
    IN  IF ShouldIssue(r, force)
        THEN /\ leases' = leases + 1
             /\ Stage(IssueFiles,
                      [saved EXCEPT
                        !.gate = [gate EXCEPT !.acc = r.acc, !.phase = "implementing",
                                              !.base = ObserveOutside(r.scope),
                                              !.evidence = Capture(r.evidence),
                                              !.lease = LeaseOf(r, now)],
                        !.ledger = [task |-> gate.task, lease |-> leases + 1,
                                    receipts |-> NoReceipts],
                        !.proposal = [@ EXCEPT !.status = "lease-issued",
                                               !.lease = leases + 1]])
        ELSE /\ Stage({"proposal"}, saved)
             /\ UNCHANGED leases

(* lifecycle_main "request".  Its arguments are constants of the call and  *)
(* are checked under the lock, so it may have waited since any time.       *)
RequestLease(r) ==
    /\ LockFree /\ leases < MaxLeases
    /\ RequestIsValid(r)
    /\ \E now \in 0 .. clock : Propose(r, FALSE, "broker", now)
    /\ UNCHANGED <<files, hook, renewal, run, tool, tree, policy, clock, turns, faults>>

(* approve_proposal reads the proposal without the lock ...                *)
ReadApproved(via) ==
    /\ StartTurn
    /\ proposal.material # None
    /\ hook' = [IdleHook EXCEPT !.st = "approving", !.via = via,
                                !.seen = proposal.material, !.since = clock]
    /\ UNCHANGED <<files, todo, staged, renewal, run, tool, tree, policy, clock,
                   leases, faults>>

(* Mutant: the proposal may have changed since the user read it.           *)
MutantApprovalIsValid == RequestIsValid(RequestOf(hook.seen))

(* ... and asks for the lease under it.  The proposal is computed afresh   *)
(* and must be the one the user approved.  A refusal in the hook revokes.  *)
ApprovalIsValid ==
    /\ RequestIsValid(RequestOf(hook.seen))
    /\ MaterialOf(RequestOf(hook.seen)) = hook.seen

IssueApproved ==
    /\ hook.st = "approving" /\ LockFree
    /\ ApprovalIsValid
    /\ \E now \in hook.since .. clock : Propose(RequestOf(hook.seen), TRUE, "hook", now)
    /\ hook' = [hook EXCEPT !.st = "issuing"]
    /\ UNCHANGED <<files, renewal, run, tool, tree, policy, clock, turns, faults>>

(* Mutant: a refused approval is tried again instead of failing the turn.  *)
MutantRefuseApproval ==
    /\ hook.st = "approving" /\ LockFree
    /\ ~ApprovalIsValid
    /\ UNCHANGED vars

RefuseApproval ==
    /\ hook.st = "approving" /\ LockFree
    /\ ~ApprovalIsValid
    /\ hook' = IF hook.via = "hook" THEN [hook EXCEPT !.st = "failed"] ELSE IdleHook
    /\ UNCHANGED <<files, todo, staged, renewal, run, tool, tree, policy, bounds>>

(* After the lock is released the hook reads the proposal again and writes *)
(* it back with approvedByUserPromptHash, both without the lock.           *)
MarkRead ==
    /\ hook.st = "marking"
    /\ hook' = [hook EXCEPT !.st = "writing", !.copy = proposal]
    /\ UNCHANGED <<files, todo, staged, renewal, run, tool, tree, policy, bounds>>

MarkWrite ==
    /\ hook.st = "writing"
    /\ proposal' = hook.copy
    /\ hook' = IdleHook
    /\ UNCHANGED <<gate, contract, ledger, completion, todo, staged, renewal, run, tool,
                   tree, policy, bounds>>

(* renew_write_lease reads the proposal without the lock (one that names   *)
(* no lease is refused later and left out) ...                             *)
ReadForRenewal ==
    /\ renewal = None /\ leases < MaxLeases
    /\ proposal.material # None /\ proposal.lease # 0
    /\ renewal' = [st |-> "read", lease |-> proposal.lease,
                   request |-> RequestOf(proposal.material), since |-> clock]
    /\ UNCHANGED <<files, todo, staged, hook, run, tool, tree, policy, bounds>>

(* ... and, under it, revokes the lease that proposal names and resets the *)
(* ledger and the proposal.  It does not look at the clock.                *)
RenewalIsValid ==
    /\ gate.lease # None
    /\ renewal.lease = gate.lease.id
    /\ renewal.request.acc.task = gate.task
    /\ ContractIsCurrent

RenewRevokes ==
    /\ renewal # None /\ renewal.st = "read" /\ LockFree
    /\ IF RenewalIsValid
       THEN /\ renewal' = [renewal EXCEPT !.st = "requesting"]
            /\ Stage({"gate"} \cup SidecarNames,
                     [OnDisk("renew") EXCEPT
                        !.gate = [gate EXCEPT !.base = None, !.evidence = NoEvidence,
                                              !.phase = ContractPhase(contract),
                                              !.lease = None],
                        !.ledger = ResetLedger(gate.task),
                        !.proposal = ResetProposal])
       ELSE /\ renewal' = None
            /\ UNCHANGED <<todo, staged>>
    /\ UNCHANGED <<files, hook, run, tool, tree, policy, bounds>>

(* Mutant: a renewal that is refused stays pending.                        *)
MutantRenewRequests ==
    /\ renewal # None /\ renewal.st = "requesting" /\ LockFree
    /\ RequestIsValid(renewal.request)
    /\ renewal' = None
    /\ \E now \in renewal.since .. clock : Propose(renewal.request, FALSE, "broker", now)
    /\ UNCHANGED <<files, hook, run, tool, tree, policy, clock, turns, faults>>

(* The second one requests the same scope again, like any other request;   *)
(* it reads the clock after the first lock is released.                    *)
RenewRequests ==
    /\ renewal # None /\ renewal.st = "requesting" /\ LockFree
    /\ renewal' = None
    /\ IF RequestIsValid(renewal.request)
       THEN \E now \in renewal.since .. clock :
                Propose(renewal.request, FALSE, "broker", now)
       ELSE UNCHANGED <<todo, staged, leases>>
    /\ UNCHANGED <<files, hook, run, tool, tree, policy, clock, turns, faults>>

-----------------------------------------------------------------------------
(* Verification and completion *)

(* The verification broker reads the scopes of the active lease, copies    *)
(* the Project into a disposable workspace and runs the command there; a   *)
(* run that fails changes nothing and is left out.  None of it takes the   *)
(* lock, and a user may start it outside the gate.                         *)
RunVerification(v) ==
    /\ run = None
    /\ gate.lease # None
    /\ run' = [id |-> v, scope |-> gate.lease.scope, snapshot |-> ObserveOutside({}),
               since |-> clock]
    /\ UNCHANGED <<files, todo, staged, hook, renewal, tool, tree, policy, bounds>>

RunContent == [f \in DOMAIN run.snapshot \cap run.scope |-> run.snapshot[f]]

LedgerIsCurrent == ledger.task = gate.task /\ ledger.lease = gate.lease.id

(* Mutant: the live bytes need not be the tested ones.                     *)
MutantReceiptIsValid(now) ==
    /\ gate.lease # None
    /\ Attested(now)
    /\ run.id \in gate.lease.vids
    /\ LedgerIsCurrent
    /\ proposal.material # None

(* The checks of record_verification_receipt.                              *)
ReceiptIsValid(now) ==
    /\ gate.lease # None
    /\ Attested(now)
    /\ run.id \in gate.lease.vids
    /\ ObserveScope(gate.lease.scope) = RunContent
    /\ LedgerIsCurrent
    /\ proposal.material # None

AllCurrent(receipts, required, content) ==
    /\ required # {}
    /\ \A v \in required : receipts[v] # None /\ receipts[v].content = content

(* record_verification_receipt of a call that read the time now; it is     *)
(* made when the command has passed.                                       *)
RecordReceipt(now) ==
    /\ run # None /\ LockFree
    /\ run.since <= now
    /\ run' = None
    /\ IF ReceiptIsValid(now)
       THEN LET content == ObserveScope(gate.lease.scope)
                receipts == [ledger.receipts EXCEPT
                                ![run.id] = [lease |-> gate.lease.id, content |-> content,
                                             at |-> now, tested |-> run.snapshot]]
            IN  Stage({"gate", "ledger"},
                      [OnDisk("broker") EXCEPT
                        !.gate = [gate EXCEPT !.phase =
                            IF AllCurrent(receipts, proposal.material.vids, content)
                            THEN "verifying" ELSE "implementing"],
                        !.ledger = [ledger EXCEPT !.receipts = receipts]])
       ELSE UNCHANGED <<todo, staged>>
    /\ UNCHANGED <<files, hook, renewal, tool, tree, policy, bounds>>

(* Mutant: a receipt for other bytes than the current ones will do.        *)
MutantReceiptsProve(required, content) ==
    \A v \in required : /\ ledger.receipts[v] # None
                        /\ ledger.receipts[v].lease = gate.lease.id

(* Mutant: the phase "verifying", written before the receipt, is trusted.   *)
MutantPhaseProves(required, content) == gate.phase = "verifying"

ReceiptsProve(required, content) ==
    \A v \in required : /\ ledger.receipts[v] # None
                        /\ ledger.receipts[v].content = content
                        /\ ledger.receipts[v].lease = gate.lease.id

(* complete_task of a call that read the time now; it names the lease, so  *)
(* it was not made before the lease.  The required ids come from the       *)
(* proposal on disk; they must cover the current verification plan of the  *)
(* contract on disk.                                                       *)
CompleteTask(now) ==
    /\ LockFree
    /\ gate.lease # None /\ gate.phase \in {"implementing", "verifying"}
    /\ Attested(now)
    /\ proposal.material # None
    /\ LET required == proposal.material.vids
           content == ObserveScope(gate.lease.scope)
       IN  /\ required # {} => gate.phase = "verifying"
           /\ PlanIsCurrent(required)
           /\ LedgerIsCurrent
           /\ ReceiptsProve(required, content)
           /\ required = {} => proposal.material.pre # content
           /\ Stage({"completion", "gate", "proposal"},
                    [OnDisk("broker") EXCEPT
                        !.completion = [task |-> gate.task, lease |-> gate.lease.id,
                                        acc |-> gate.acc, content |-> content, at |-> now],
                        !.gate = [gate EXCEPT !.phase = "complete", !.lease = None],
                        !.proposal = [proposal EXCEPT !.status = "complete"]])
    /\ UNCHANGED <<files, hook, renewal, run, tool, tree, policy, bounds>>

-----------------------------------------------------------------------------
(* Native writes and the world outside *)

(* evaluate_write_lease on the gate state as it is on disk.                *)
LeaseIsUsable ==
    /\ gate.lease # None
    /\ gate.phase \in {"implementing", "verifying"}
    /\ gate.pending = {}
    /\ DOMAIN gate.evidence # {}
    /\ gate.lease.task = gate.task
    /\ gate.lease.base = gate.base
    /\ gate.lease.acc = gate.acc
    /\ gate.lease.evidence = gate.evidence
    /\ LeaseInTime(gate.lease, clock)

(* CodexGateAdapter.evaluate_payload for one native write; it takes no     *)
(* lock, and the provider performs the write later.                        *)
AllowNativeWrite(f) ==
    /\ tool = None
    /\ LeaseIsUsable
    /\ gate.phase = "implementing"
    /\ f \in gate.lease.scope
    /\ Attested(clock)
    /\ tool' = [file |-> f, lease |-> gate.lease.id]
    /\ UNCHANGED <<files, todo, staged, hook, renewal, run, tree, policy, bounds>>

NativeWrite(c) ==
    /\ tool # None
    /\ tree' = [tree EXCEPT ![tool.file] = c]
    /\ tool' = None
    /\ UNCHANGED <<files, todo, staged, hook, renewal, run, policy, bounds>>

(* Anyone may edit a file at any time; the user may edit the configuration.*)
EditFile(f, c) ==
    /\ tree[f] # c
    /\ tree' = [tree EXCEPT ![f] = c]
    /\ UNCHANGED <<files, todo, staged, hook, renewal, run, tool, policy, bounds>>

ChangePolicy(p) ==
    /\ policy # p
    /\ policy' = p
    /\ UNCHANGED <<files, todo, staged, hook, renewal, run, tool, tree, bounds>>

Tick ==
    /\ clock < MaxTime
    /\ clock' = clock + 1
    /\ UNCHANGED <<files, todo, staged, hook, renewal, run, tool, tree, policy, turns,
                   leases, faults>>

-----------------------------------------------------------------------------
Turn ==
    \/ \E form \in Forms, class \in Classes,
          skips \in SUBSET {"unrun-criterion", "unrun-risk"} :
            RecordPrompt(form, class, skips)
    \/ RejectPrompt
    \/ \E via \in {"hook", "terminal"} : ReadApproved(via)

HookStep ==
    \/ RevokeAfterFailure \/ ReportReturns
    \/ IssueApproved \/ RefuseApproval
    \/ MarkRead \/ MarkWrite

Broker ==
    \/ \E criterion \in Criteria, resolved \in SUBSET gate.pending, dep \in BOOLEAN :
            SetAcceptance(criterion, resolved, dep)
    \/ \E scope \in Scopes, vids \in SUBSET VerificationIds, E \in EvidenceSets :
            gate.acc # None /\ RequestLease([acc |-> gate.acc, scope |-> scope,
                                             vids |-> vids, evidence |-> E,
                                             claim |-> gate.acc.dep])
    \/ ReadForRenewal \/ RenewRevokes \/ RenewRequests
    \/ \E v \in VerificationIds : RunVerification(v)
    \/ \E now \in 0 .. clock : RecordReceipt(now) \/ CompleteTask(now)

World ==
    \/ \E f \in Files : AllowNativeWrite(f)
    \/ \E c \in Contents : NativeWrite(c)
    \/ \E f \in Files, c \in Contents : EditFile(f, c)
    \/ \E p \in Policies : ChangePolicy(p)
    \/ Tick

Write == \E f \in FileNames : WriteFile(f)

Next == Turn \/ HookStep \/ Broker \/ World \/ Write \/ WriteFails \/ Killed

Spec == Init /\ [][Next]_vars
=============================================================================
