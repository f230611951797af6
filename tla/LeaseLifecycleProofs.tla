------------------------ MODULE LeaseLifecycleProofs ------------------------
(***************************************************************************)
(* Theorems about the strict write lifecycle, for every value of the       *)
(* constants: any number of files, scopes, turns, leases, failed writes    *)
(* and killed processes.                                                   *)
(***************************************************************************)
EXTENDS LeaseProperties, TLAPS

-----------------------------------------------------------------------------
(* Types of the helpers *)

(* Every observation of the tree is an observation.                        *)
LEMMA ObservationType ==
    ASSUME TypeOK
    PROVE  /\ NoEvidence \in Observation
           /\ \A S \in SUBSET Files :
                ObserveScope(S) \in Observation /\ ObserveOutside(S) \in Observation
           /\ \A E \in SUBSET Files : Capture(E) \in Observation
<1>1. \A D \in SUBSET Files : [f \in D |-> tree[f]] \in Observation
  BY DEF TypeOK, Observation
<1>2. NoEvidence \in [{} -> Contents]
  BY DEF NoEvidence
<1>3. NoEvidence \in Observation
  BY <1>2 DEF Observation
<1> QED
  BY <1>1, <1>3 DEF ObserveScope, ObserveOutside, Capture, Tracked

(* A contract puts the gate into one of the phases.                        *)
LEMMA PhaseType == \A c \in Contract : ContractPhase(c) \in Phases
  BY DEF ContractPhase, Phases

(* The gate state bound to a contract is a gate state without a lease.     *)
LEMMA GateForType ==
    ASSUME TypeOK, NEW c \in Contract
    PROVE  GateFor(c) \in Gate /\ GateFor(c).lease = None
<1>1. ContractPhase(c) \in Phases
  BY PhaseType
<1>2. NoEvidence \in Observation
  BY ObservationType
<1>3. c.task \in Nat /\ c.pending \in SUBSET Decisions
  BY DEF Contract
<1>4. gate \in Gate
  BY DEF TypeOK
<1> QED
  BY <1>1, <1>2, <1>3, <1>4 DEF GateFor, Gate

LEMMA OnDiskType ==
    ASSUME TypeOK, NEW by \in {"hook", "renew", "broker"}
    PROVE  OnDisk(by) \in Staged
  BY DEF TypeOK, OnDisk, Staged

(* The plan build_verification_plan returns.                               *)
LEMMA PlanType ==
    ASSUME TypeOK, NEW criterion \in Criteria, NEW risk \in Risks, NEW unrun
    PROVE  BuildPlan(criterion, risk, unrun) \in Plan
<1>1. TestIds \subseteq VerificationIds
  BY PolicyAssumption
<1>2. policy \in SUBSET VerificationIds
  BY DEF TypeOK
<1> QED
  BY <1>1, <1>2 DEF BuildPlan, Plan, CommandIds, RiskIds, Decisions

LEMMA NewContractType ==
    ASSUME TypeOK, NEW class \in Class
    PROVE  NewContract(class) \in Contract
<1>1. gate.task + 1 \in Nat
  BY DEF TypeOK, Gate
<1>2. class.risk \in Risks /\ class.dep \in BOOLEAN
  BY DEF Class
<1> QED
  BY <1>1, <1>2 DEF NewContract, Contract, Kinds, Decisions

LEMMA ReviseType ==
    ASSUME TypeOK, contract \in Contract, NEW kind \in Kinds, NEW material \in BOOLEAN,
           NEW skips
    PROVE  Revise(kind, material, skips) \in Contract
<1>1. contract.rev + 1 \in Nat
  BY DEF Contract
<1>2. contract.unrun \cup (skips \cap contract.pending) \in SUBSET Decisions
  BY DEF Contract
<1>3. CASE material
  BY <1>1, <1>2, <1>3 DEF Revise, Contract
<1>4. CASE ~material
  BY <1>1, <1>2, <1>4 DEF Revise, Contract
<1> QED
  BY <1>3, <1>4

LEMMA PromptContractType ==
    ASSUME TypeOK, NEW form \in Forms, NEW class \in Class, NEW skips
    PROVE  PromptContract(form, class, skips) \in Contract
<1>1. CASE KeepsTask(form)
  <2>1. contract \in Contract
    BY <1>1 DEF KeepsTask, ContractIsCurrent, TypeOK
  <2> QED
    BY <1>1, <2>1, ReviseType DEF PromptContract, Kinds
<1>2. CASE ~KeepsTask(form)
  BY <1>2, NewContractType DEF PromptContract
<1> QED
  BY <1>1, <1>2

-----------------------------------------------------------------------------
(* Type correctness *)

(* Beyond its type, the hook has what its next step reads: the proposal    *)
(* the user approved, or the copy of the proposal it is going to mark; and *)
(* a renewal is there as long as it holds the lock.                        *)
HookIsReady ==
    /\ hook.st = "approving" => hook.seen \in Material
    /\ hook.st = "writing" => hook.copy \in Proposal

RenewalIsReady == todo # {} /\ staged.by = "renew" => renewal \in Renewal

TypeInv == TypeOK /\ HookIsReady /\ RenewalIsReady

(* No call reads a time beyond the present.                                *)
LEMMA TimeType ==
    ASSUME TypeOK, NEW from \in Nat, NEW now \in from .. clock
    PROVE  now \in Nat /\ now <= clock
  BY DEF TypeOK

LEMMA RequestOfType == \A m \in Material : RequestOf(m) \in Request
<1> SUFFICES ASSUME NEW m \in Material PROVE RequestOf(m) \in Request
  OBVIOUS
<1>1. DOMAIN m.evidence \in SUBSET Files
  BY DEF Material, Observation
<1> QED
  BY <1>1 DEF RequestOf, Material, Request

LEMMA MaterialOfType ==
    ASSUME TypeOK, NEW r \in Request, contract \in Contract
    PROVE  MaterialOf(r) \in Material
<1>1. Capture(r.evidence) \in Observation /\ ObserveScope(r.scope) \in Observation
  BY ObservationType DEF Request
<1>2. gate.task \in Nat /\ contract.rev \in Nat
  BY DEF TypeOK, Gate, Contract
<1> QED
  BY <1>1, <1>2 DEF MaterialOf, Material, Request

LEMMA LeaseOfType ==
    ASSUME TypeOK, NEW r \in Request, NEW now \in Nat
    PROVE  LeaseOf(r, now) \in Lease
<1>1. Capture(r.evidence) \in Observation /\ ObserveOutside(r.scope) \in Observation
  BY ObservationType DEF Request
<1>2. gate.task \in Nat /\ leases + 1 \in Nat
  BY DEF TypeOK, Gate
<1> QED
  BY <1>1, <1>2 DEF LeaseOf, Lease, Request

LEMMA ResetType ==
    /\ NoReceipts \in [VerificationIds -> Receipt \cup {None}]
    /\ \A task \in Nat : ResetLedger(task) \in Ledger
    /\ ResetProposal \in Proposal
  BY DEF ResetLedger, ResetProposal, Ledger, Proposal, ProposalStatus, NoReceipts

(* Proposing keeps the types: the files staged are files of their types.   *)
LEMMA ProposeType ==
    ASSUME TypeOK, contract \in Contract, NEW r \in Request, NEW force,
           NEW by \in {"hook", "broker"}, NEW now \in Nat, Propose(r, force, by, now)
    PROVE  /\ todo' \in SUBSET FileNames /\ staged' \in Staged /\ leases' \in Nat
           /\ staged'.by = by
<1>1. OnDisk(by) \in Staged
  BY OnDiskType
<1>2. MaterialOf(r) \in Material
  BY MaterialOfType
<1> DEFINE draft == [material |-> MaterialOf(r), lease |-> 0,
                     status |-> IF DecisionBlocked THEN "decision-required"
                                ELSE "awaiting-user-approval"]
           saved == [OnDisk(by) EXCEPT !.proposal = draft]
<1>3. draft \in Proposal
  BY <1>2 DEF Proposal, ProposalStatus
<1>4. saved \in Staged
  BY <1>1, <1>3 DEF Staged
<1>5. CASE ShouldIssue(r, force)
  <2> DEFINE g == [gate EXCEPT !.acc = r.acc, !.phase = "implementing",
                               !.base = ObserveOutside(r.scope),
                               !.evidence = Capture(r.evidence), !.lease = LeaseOf(r, now)]
             l == [task |-> gate.task, lease |-> leases + 1, receipts |-> NoReceipts]
             p == [draft EXCEPT !.status = "lease-issued", !.lease = leases + 1]
  <2>1. gate \in Gate /\ leases + 1 \in Nat /\ gate.task \in Nat
    BY DEF TypeOK, Gate
  <2>2. Capture(r.evidence) \in Observation /\ ObserveOutside(r.scope) \in Observation
        /\ r.acc \in Contract
    BY ObservationType DEF Request
  <2>3. g \in Gate
    BY <2>1, <2>2, LeaseOfType DEF Gate, Phases
  <2>4. l \in Ledger
    BY <2>1, ResetType DEF Ledger
  <2>5. p \in Proposal
    BY <1>3, <2>1 DEF Proposal, ProposalStatus
  <2>6. /\ todo' = IssueFiles /\ leases' = leases + 1
        /\ staged' = [saved EXCEPT !.gate = g, !.ledger = l,
                                   !.proposal = [@ EXCEPT !.status = "lease-issued",
                                                          !.lease = leases + 1]]
    BY <1>5 DEF Propose, Stage
  <2>7. staged' = [saved EXCEPT !.gate = g, !.ledger = l, !.proposal = p]
    BY <2>6, <1>1 DEF Staged
  <2>8. saved.by = by
    BY DEF OnDisk
  <2> HIDE DEF g, l, p, saved
  <2> QED
    BY <1>4, <2>8, <2>1, <2>3, <2>4, <2>5, <2>6, <2>7 DEF Staged, IssueFiles, FileNames
<1>6. CASE ~ShouldIssue(r, force)
  BY <1>4, <1>6 DEF Propose, Stage, FileNames, TypeOK, OnDisk
<1> QED
  BY <1>5, <1>6

LEMMA InitTypes == Init => TypeInv
<1> SUFFICES ASSUME Init PROVE TypeInv
  OBVIOUS
<1>1. NoEvidence \in [{} -> Contents]
  BY DEF NoEvidence
<1>2. gate \in Gate
  BY <1>1 DEF Init, Gate, Phases, Observation, Decisions
<1>3. ledger \in Ledger
  BY ResetType DEF Init, Ledger
<1>4. proposal \in Proposal /\ hook \in Hook
  BY DEF Init, NoProposal, Proposal, ProposalStatus, IdleHook, Hook, HookStates
<1>5. policy \in SUBSET VerificationIds
  BY PolicyAssumption DEF Init
<1> QED
  BY <1>2, <1>3, <1>4, <1>5 DEF Init, TypeInv, TypeOK, HookIsReady, RenewalIsReady,
                                      IdleHook

LEMMA WriteTypes ==
    ASSUME TypeInv, NEW f \in FileNames, WriteFile(f)
    PROVE  TypeOK' /\ HookIsReady'
<1>1. staged \in Staged
  BY DEF TypeInv, TypeOK, WriteFile
<1>2. /\ gate' \in Gate /\ contract' \in Contract \cup {None} /\ ledger' \in Ledger
      /\ completion' \in Completion \cup {None}
  BY <1>1 DEF TypeInv, TypeOK, WriteFile, Staged
<1>3. [staged.proposal EXCEPT !.status = "approved", !.lease = 0] \in Proposal
  BY <1>1 DEF Staged, Proposal, ProposalStatus
<1>4. proposal' \in Proposal
  BY <1>1, <1>3 DEF TypeInv, TypeOK, WriteFile, Staged
<1>5. todo' \in SUBSET FileNames /\ (todo' # {} => staged' \in Staged)
  BY <1>1 DEF TypeInv, TypeOK, WriteFile
<1>6. HookAfterWrites \in Hook
      /\ (HookAfterWrites.st = "approving" => HookAfterWrites.seen \in Material)
      /\ (HookAfterWrites.st = "writing" => HookAfterWrites.copy \in Proposal)
  BY DEF TypeInv, TypeOK, HookIsReady, HookAfterWrites, Hook, HookStates, IdleHook
<1>7. hook' \in Hook /\ HookIsReady'
  BY <1>6 DEF TypeInv, TypeOK, HookIsReady, WriteFile
<1>8. renewal' \in Renewal \cup {None}
  <2>1. todo # {} /\ clock \in Nat
    BY DEF WriteFile, TypeInv, TypeOK
  <2>2. CASE todo' = {} /\ staged.by = "renew"
    <3>1. renewal \in Renewal
      BY <2>1, <2>2 DEF TypeInv, TypeOK, RenewalIsReady
    <3>2. renewal' = [renewal EXCEPT !.since = clock]
      BY <2>2 DEF WriteFile
    <3> QED
      BY <2>1, <3>1, <3>2 DEF Renewal
  <2>3. CASE ~(todo' = {} /\ staged.by = "renew")
    BY <2>3 DEF WriteFile, TypeInv, TypeOK
  <2> QED
    BY <2>2, <2>3
<1> QED
  BY <1>2, <1>4, <1>5, <1>7, <1>8 DEF TypeInv, TypeOK, WriteFile, bounds

LEMMA FaultTypes ==
    ASSUME TypeInv, WriteFails \/ Killed
    PROVE  TypeOK' /\ HookIsReady'
<1>1. faults' \in Nat /\ todo' \in SUBSET FileNames /\ (todo' # {} => staged' \in Staged)
  BY DEF TypeInv, TypeOK, WriteFails, Killed, Stage
<1>2. hook' \in Hook /\ HookIsReady'
  BY DEF TypeInv, TypeOK, WriteFails, Killed, HookIsReady, IdleHook, Hook, HookStates
<1>3. renewal' \in Renewal \cup {None}
  BY DEF TypeInv, TypeOK, WriteFails, Killed
<1> QED
  BY <1>1, <1>2, <1>3 DEF TypeInv, TypeOK, WriteFails, Killed, files

LEMMA TurnTypes ==
    ASSUME TypeInv, Turn
    PROVE  TypeOK' /\ HookIsReady'
<1>a. TypeOK /\ turns \in Nat
  BY DEF TypeInv, TypeOK
<1>b. turns' = turns + 1
  BY DEF Turn, RecordPrompt, RejectPrompt, ReadApproved, StartTurn
<1>1. turns' \in Nat /\ TypeOK
  BY <1>a, <1>b
<1>2. ASSUME NEW form \in Forms, NEW class \in Classes, NEW skips,
             RecordPrompt(form, class, skips)
      PROVE  TypeOK' /\ HookIsReady'
  <2> DEFINE c == PromptContract(form, class, skips)
             s == [OnDisk("hook") EXCEPT !.contract = c, !.gate = GateFor(c),
                                         !.ledger = ResetLedger(c.task),
                                         !.proposal = ResetProposal]
  <2>1. c \in Contract /\ c.task \in Nat
    BY <1>1, PolicyAssumption, PromptContractType DEF Contract
  <2>2. GateFor(c) \in Gate
    BY <1>1, <2>1, GateForType
  <2>3. s \in Staged
    BY <1>1, <2>1, <2>2, OnDiskType, ResetType DEF Staged
  <2>4. todo' \in SUBSET FileNames /\ staged' \in Staged
    BY <1>2, <2>3 DEF RecordPrompt, Stage, SidecarNames, FileNames
  <2>5. hook' \in Hook /\ HookIsReady'
    BY <1>2 DEF RecordPrompt, Hook, IdleHook, HookStates, HookIsReady
  <2> QED
    BY <1>1, <1>2, <2>4, <2>5 DEF RecordPrompt, TypeInv, TypeOK, files
<1>3. CASE RejectPrompt
  <2>1. hook' \in Hook /\ HookIsReady'
    BY <1>3 DEF RejectPrompt, Hook, IdleHook, HookStates, HookIsReady
  <2> QED
    BY <1>1, <1>3, <2>1 DEF RejectPrompt, TypeInv, TypeOK, files
<1>4. ASSUME NEW via \in {"hook", "terminal"}, ReadApproved(via)
      PROVE  TypeOK' /\ HookIsReady'
  <2>1. proposal.material \in Material /\ proposal.material # None /\ clock \in Nat
    BY <1>1, <1>4 DEF ReadApproved, TypeOK, Proposal
  <2>2. hook' \in Hook /\ HookIsReady'
    BY <1>4, <2>1 DEF ReadApproved, Hook, IdleHook, HookStates, HookIsReady
  <2> QED
    BY <1>1, <1>4, <2>2 DEF ReadApproved, TypeInv, TypeOK, files
<1> QED
  BY <1>2, <1>3, <1>4 DEF Turn

LEMMA HookStepTypes ==
    ASSUME TypeInv, HookStep
    PROVE  TypeOK' /\ HookIsReady'
<1>1. TypeOK
  BY DEF TypeInv
<1>2. CASE RevokeAfterFailure
  <2>1. hook' \in Hook /\ HookIsReady'
    BY <1>1, <1>2 DEF RevokeAfterFailure, TypeOK, Hook, HookStates, HookIsReady
  <2>2. BlockedGate \in Gate /\ gate.task \in Nat
    BY <1>1 DEF BlockedGate, TypeOK, Gate, Phases
  <2> DEFINE s == [OnDisk("hook") EXCEPT !.gate = BlockedGate,
                                         !.ledger = ResetLedger(gate.task)]
  <2>3. s \in Staged
    BY <1>1, <2>2, OnDiskType, ResetType DEF Staged
  <2>4. todo' \in SUBSET FileNames /\ (todo' # {} => staged' \in Staged)
    BY <1>1, <1>2, <2>3 DEF RevokeAfterFailure, Stage, FileNames, TypeOK
  <2> QED
    BY <1>1, <1>2, <2>1, <2>4 DEF RevokeAfterFailure, TypeInv, TypeOK, files, bounds
<1>3. CASE IssueApproved
  <2> DEFINE r == RequestOf(hook.seen)
  <2>1. hook.seen \in Material
    BY <1>3 DEF IssueApproved, TypeInv, TypeOK, HookIsReady, Hook
  <2>2. r \in Request
    BY <2>1, RequestOfType
  <2>3. contract \in Contract
    BY <1>1, <1>3 DEF IssueApproved, ApprovalIsValid, RequestIsValid, ContractIsCurrent,
                      TypeOK
  <2>4. PICK now \in hook.since .. clock : Propose(r, TRUE, "hook", now)
    BY <1>3 DEF IssueApproved
  <2>a. hook.since \in Nat
    BY <1>1 DEF TypeOK, Hook
  <2>b. now \in Nat
    BY <1>1, <2>a, TimeType
  <2> HIDE DEF r
  <2>5. todo' \in SUBSET FileNames /\ staged' \in Staged /\ leases' \in Nat
    BY <1>1, <2>2, <2>3, <2>4, <2>b, ProposeType
  <2>6. hook' \in Hook /\ HookIsReady'
    BY <1>1, <1>3 DEF IssueApproved, TypeOK, Hook, HookStates, HookIsReady
  <2> QED
    BY <1>1, <1>3, <2>5, <2>6 DEF IssueApproved, TypeInv, TypeOK, files
<1>4. CASE ReportReturns \/ RefuseApproval \/ MarkRead
  <2>1. proposal \in Proposal /\ hook \in Hook
    BY <1>1 DEF TypeOK
  <2>2. ASSUME ReportReturns \/ RefuseApproval PROVE hook' \in Hook /\ HookIsReady'
    BY <2>1, <2>2 DEF ReportReturns, RefuseApproval, Hook, HookStates, IdleHook, HookIsReady
  <2>3. ASSUME MarkRead PROVE hook' \in Hook /\ HookIsReady'
    BY <2>1, <2>3 DEF MarkRead, Hook, HookStates, HookIsReady
  <2> QED
    BY <1>1, <1>4, <2>2, <2>3 DEF ReportReturns, RefuseApproval, MarkRead, TypeInv, TypeOK,
                            files, bounds
<1>5. CASE MarkWrite
  <2>1. hook.copy \in Proposal /\ IdleHook \in Hook /\ IdleHook.st = "idle"
    BY <1>5 DEF MarkWrite, TypeInv, TypeOK, HookIsReady, Hook, HookStates, IdleHook
  <2> QED
    BY <1>1, <1>5, <2>1 DEF MarkWrite, TypeInv, TypeOK, HookIsReady, bounds
<1> QED
  BY <1>2, <1>3, <1>4, <1>5 DEF HookStep

(* The contract set_acceptance_contract writes.                            *)
LEMMA AcceptanceTypes ==
    ASSUME TypeInv, NEW criterion \in Criteria, NEW resolved \in SUBSET gate.pending,
           NEW dep \in BOOLEAN, SetAcceptance(criterion, resolved, dep)
    PROVE  TypeOK' /\ HookIsReady' /\ staged'.contract \in Contract
<1>1. TypeOK
  BY DEF TypeInv
<1>2. contract \in Contract
  BY <1>1 DEF SetAcceptance, ContractIsCurrent, TypeOK
<1> DEFINE open == gate.pending \ Superseded(resolved)
           plan == BuildPlan(criterion, contract.risk, contract.unrun)
           c == [contract EXCEPT
                    !.acceptance = [criterion |-> criterion, resolved |-> resolved],
                    !.accRev = contract.rev, !.plan = plan, !.dep = dep,
                    !.pending = (open \ resolved) \cup plan.pending,
                    !.status = IF (open \ resolved) \cup plan.pending = {}
                               THEN "accepted" ELSE "draft"]
           s == [OnDisk("broker") EXCEPT !.contract = c, !.gate = GateFor(c)]
<1>3. plan \in Plan
  BY <1>1, <1>2, PlanType DEF Contract
<1>4. gate.pending \in SUBSET Decisions
  BY <1>1 DEF TypeOK, Gate
<1>5. [criterion |-> criterion, resolved |-> resolved] \in Acceptance
  BY <1>4 DEF Acceptance
<1>6. (open \ resolved) \cup plan.pending \in SUBSET Decisions
  BY <1>3, <1>4 DEF Plan
<1>7. Stage({"contract", "gate"}, s)
  BY DEF SetAcceptance
<1> HIDE DEF open, plan
<1>8. c \in Contract
  BY <1>2, <1>3, <1>5, <1>6 DEF Contract
<1> HIDE DEF c
<1>9. s \in Staged
  BY <1>1, <1>8, GateForType, OnDiskType DEF Staged
<1>10. todo' \in SUBSET FileNames /\ staged' \in Staged
  BY <1>7, <1>9 DEF Stage, FileNames
<1>11. staged'.contract = c
  BY <1>7 DEF Stage, OnDisk
<1> QED
  BY <1>1, <1>8, <1>10, <1>11 DEF SetAcceptance, TypeInv, TypeOK, HookIsReady, files, bounds

LEMMA ReadTypes ==
    ASSUME TypeOK, ReadForRenewal
    PROVE  renewal' \in Renewal
<1>1. proposal.material \in Material /\ proposal.lease \in Nat /\ clock \in Nat
  BY DEF ReadForRenewal, TypeOK, Proposal
<1> QED
  BY <1>1, RequestOfType DEF ReadForRenewal, Renewal

LEMMA LeaseRequestTypes ==
    ASSUME TypeInv,
           \/ \E r \in Request : RequestLease(r)
           \/ ReadForRenewal \/ RenewRevokes \/ RenewRequests
    PROVE  TypeOK' /\ HookIsReady'
<1>1. TypeOK
  BY DEF TypeInv
<1>2. ASSUME NEW r \in Request, RequestLease(r)
      PROVE  TypeOK' /\ HookIsReady'
  <2>1. contract \in Contract
    BY <1>1, <1>2 DEF RequestLease, RequestIsValid, ContractIsCurrent, TypeOK
  <2>a. PICK now \in 0 .. clock : Propose(r, FALSE, "broker", now)
    BY <1>2 DEF RequestLease
  <2>b. now \in Nat
    OBVIOUS
  <2>2. todo' \in SUBSET FileNames /\ staged' \in Staged /\ leases' \in Nat
    BY <1>1, <2>1, <2>a, <2>b, ProposeType
  <2> QED
    BY <1>1, <1>2, <2>2 DEF RequestLease, TypeInv, TypeOK, HookIsReady, files
<1>3. CASE ReadForRenewal
  BY <1>1, <1>3, ReadTypes DEF ReadForRenewal, TypeInv, TypeOK, HookIsReady, files, bounds
<1>4. CASE RenewRevokes
  <2>1. renewal \in Renewal /\ gate \in Gate /\ gate.task \in Nat
    BY <1>1, <1>4 DEF RenewRevokes, TypeOK, Gate
  <2>2. renewal' \in Renewal \cup {None}
    BY <1>4, <2>1 DEF RenewRevokes, Renewal
  <2>3. CASE RenewalIsValid
    <3> DEFINE g == [gate EXCEPT !.base = None, !.evidence = NoEvidence,
                                 !.phase = ContractPhase(contract), !.lease = None]
               s == [OnDisk("renew") EXCEPT !.gate = g, !.ledger = ResetLedger(gate.task),
                                            !.proposal = ResetProposal]
    <3>1. contract \in Contract
      BY <1>1, <2>3 DEF RenewalIsValid, ContractIsCurrent, TypeOK
    <3>2. g \in Gate
      BY <1>1, <2>1, <3>1, PhaseType, ObservationType DEF Gate
    <3>3. s \in Staged
      BY <1>1, <2>1, <3>2, OnDiskType, ResetType DEF Staged
    <3> HIDE DEF g
    <3>4. todo' = {"gate"} \cup SidecarNames /\ staged' = s
      BY <1>4, <2>3 DEF RenewRevokes, Stage, g
    <3>5. todo' \in SUBSET FileNames /\ staged' \in Staged
      BY <3>3, <3>4 DEF SidecarNames, FileNames
    <3> QED
      BY <1>1, <1>4, <2>2, <3>5 DEF RenewRevokes, TypeInv, TypeOK, HookIsReady, files,
                                    bounds
  <2>4. CASE ~RenewalIsValid
    BY <1>1, <1>4, <2>2, <2>4 DEF RenewRevokes, TypeInv, TypeOK, HookIsReady, files, bounds
  <2> QED
    BY <2>3, <2>4
<1>5. CASE RenewRequests
  <2>1. renewal.request \in Request
    BY <1>1, <1>5 DEF RenewRequests, TypeOK, Renewal
  <2>2. /\ todo' \in SUBSET FileNames /\ (todo' # {} => staged' \in Staged)
        /\ leases' \in Nat
    <3>1. CASE RequestIsValid(renewal.request)
      <4>1. contract \in Contract
        BY <1>1, <1>5, <3>1 DEF RenewRequests, RequestIsValid, ContractIsCurrent, TypeOK
      <4>2. PICK now \in renewal.since .. clock :
                    Propose(renewal.request, FALSE, "broker", now)
        BY <1>5, <3>1 DEF RenewRequests
      <4>3. now \in Nat
        BY <1>1, <1>5, TimeType DEF RenewRequests, TypeOK, Renewal
      <4> QED
        BY <1>1, <2>1, <4>1, <4>2, <4>3, ProposeType
    <3>2. CASE ~RequestIsValid(renewal.request)
      BY <1>1, <1>5, <3>2 DEF RenewRequests, LockFree, TypeOK
    <3> QED
      BY <3>1, <3>2
  <2> QED
    BY <1>1, <1>5, <2>2 DEF RenewRequests, TypeInv, TypeOK, HookIsReady, files
<1> QED
  BY <1>2, <1>3, <1>4, <1>5

LEMMA VerificationTypes ==
    ASSUME TypeInv,
           \/ \E v \in VerificationIds : RunVerification(v)
           \/ \E now \in 0 .. clock : RecordReceipt(now) \/ CompleteTask(now)
    PROVE  TypeOK' /\ HookIsReady'
<1>1. TypeOK
  BY DEF TypeInv
<1>2. ASSUME NEW v \in VerificationIds, RunVerification(v)
      PROVE  TypeOK' /\ HookIsReady'
  <2>1. gate.lease.scope \in SUBSET Files
    BY <1>1, <1>2 DEF RunVerification, TypeOK, Gate, Lease
  <2>2. run' \in Run
    <3>1. clock \in Nat
      BY <1>1 DEF TypeOK
    <3> QED
    BY <1>1, <1>2, <2>1, <3>1, ObservationType DEF RunVerification, Run
  <2> QED
    BY <1>1, <1>2, <2>2 DEF RunVerification, TypeInv, TypeOK, HookIsReady, files, bounds
<1>3. ASSUME NEW now \in 0 .. clock, RecordReceipt(now)
      PROVE  TypeOK' /\ HookIsReady'
  <2>1. run \in Run /\ gate \in Gate
    BY <1>1, <1>3 DEF RecordReceipt, TypeOK
  <2>2. CASE ReceiptIsValid(now)
    <3> DEFINE content == ObserveScope(gate.lease.scope)
               receipt == [lease |-> gate.lease.id, content |-> content, at |-> now,
                           tested |-> run.snapshot]
               receipts == [ledger.receipts EXCEPT ![run.id] = receipt]
               g == [gate EXCEPT !.phase =
                        IF AllCurrent(receipts, proposal.material.vids, content)
                        THEN "verifying" ELSE "implementing"]
               l == [ledger EXCEPT !.receipts = receipts]
               s == [OnDisk("broker") EXCEPT !.gate = g, !.ledger = l]
    <3>1. gate.lease \in Lease
      BY <2>1, <2>2 DEF ReceiptIsValid, Gate
    <3>2. receipt \in Receipt
      BY <1>1, <2>1, <3>1, ObservationType DEF Receipt, Run, Lease
    <3> HIDE DEF receipt
    <3>3. l \in Ledger
      BY <1>1, <3>2 DEF TypeOK, Ledger
    <3> HIDE DEF receipts
    <3>4. g \in Gate
      BY <2>1 DEF Gate, Phases
    <3>5. todo' = {"gate", "ledger"} /\ staged' = s
      BY <1>3, <2>2 DEF RecordReceipt, Stage, receipts, receipt
    <3> HIDE DEF g, l
    <3>6. todo' \in SUBSET FileNames /\ staged' \in Staged
      BY <1>1, <3>3, <3>4, <3>5, OnDiskType DEF Staged, FileNames
    <3> QED
      BY <1>1, <1>3, <3>6 DEF RecordReceipt, TypeInv, TypeOK, HookIsReady, files, bounds
  <2>3. CASE ~ReceiptIsValid(now)
    BY <1>1, <1>3, <2>3 DEF RecordReceipt, TypeInv, TypeOK, HookIsReady, files, bounds
  <2> QED
    BY <2>2, <2>3
<1>4. ASSUME NEW now \in 0 .. clock, CompleteTask(now)
      PROVE  TypeOK' /\ HookIsReady'
  <2> DEFINE done == [task |-> gate.task, lease |-> gate.lease.id, acc |-> gate.acc,
                      content |-> ObserveScope(gate.lease.scope), at |-> now]
             g == [gate EXCEPT !.phase = "complete", !.lease = None]
             p == [proposal EXCEPT !.status = "complete"]
             s == [OnDisk("broker") EXCEPT !.completion = done, !.gate = g, !.proposal = p]
  <2>1. gate \in Gate /\ gate.lease \in Lease /\ proposal \in Proposal
    BY <1>1, <1>4 DEF CompleteTask, TypeOK, Gate
  <2>2. gate.acc \in Contract \cup {None}
    BY <1>1, <1>4 DEF CompleteTask, TypeOK, Gate
  <2>3. done \in Completion
    BY <1>1, <2>1, <2>2, ObservationType DEF Completion, Lease, Gate
  <2>4. g \in Gate /\ p \in Proposal
    BY <2>1 DEF Gate, Phases, Proposal, ProposalStatus
  <2>5. todo' = {"completion", "gate", "proposal"} /\ staged' = s
    BY <1>4 DEF CompleteTask, Stage
  <2> HIDE DEF done, g, p
  <2>6. todo' \in SUBSET FileNames /\ staged' \in Staged
    BY <1>1, <2>3, <2>4, <2>5, OnDiskType DEF Staged, FileNames
  <2> QED
    BY <1>1, <1>4, <2>6 DEF CompleteTask, TypeInv, TypeOK, HookIsReady, files, bounds
<1> QED
  BY <1>2, <1>3, <1>4

LEMMA WorldTypes ==
    ASSUME TypeInv, World
    PROVE  TypeOK' /\ HookIsReady'
<1>1. TypeOK
  BY DEF TypeInv
<1>2. tool' \in Tool \cup {None}
  <2>1. ASSUME NEW f \in Files, AllowNativeWrite(f)
        PROVE  tool' \in Tool
    BY <1>1, <2>1 DEF AllowNativeWrite, LeaseIsUsable, TypeOK, Gate, Lease, Tool
  <2> QED
    BY <1>1, <2>1 DEF World, NativeWrite, EditFile, ChangePolicy, Tick, TypeOK
<1>3. tree' \in [Files -> Contents]
  BY <1>1 DEF World, AllowNativeWrite, NativeWrite, EditFile, ChangePolicy, Tick, TypeOK
<1>4. policy' \in SUBSET VerificationIds
  BY <1>1, PolicyAssumption
  DEF World, AllowNativeWrite, NativeWrite, EditFile, ChangePolicy, Tick, TypeOK
<1>5. clock' \in Nat
  <2>1. CASE Tick
    BY <1>1, <2>1 DEF Tick, TypeOK
  <2>2. CASE ~Tick
    BY <1>1, <2>2 DEF World, AllowNativeWrite, NativeWrite, EditFile, ChangePolicy, bounds,
                      TypeOK
  <2> QED
    BY <2>1, <2>2
<1>6. UNCHANGED <<files, todo, staged, hook, renewal, run, turns, leases, faults>>
  BY DEF World, AllowNativeWrite, NativeWrite, EditFile, ChangePolicy, Tick, bounds
<1> QED
  BY <1>1, <1>2, <1>3, <1>4, <1>5, <1>6 DEF TypeInv, TypeOK, HookIsReady, files

LEMMA StutterTypes == TypeInv /\ UNCHANGED vars => TypeOK' /\ HookIsReady'
  BY DEF TypeInv, TypeOK, HookIsReady, vars, files, bounds

(* The requests of Broker are requests.                                    *)
LEMMA RequestType ==
    ASSUME TypeInv, NEW scope \in Scopes, NEW vids \in SUBSET VerificationIds,
           NEW E \in EvidenceSets, gate.acc # None
    PROVE  [acc |-> gate.acc, scope |-> scope, vids |-> vids, evidence |-> E,
            claim |-> gate.acc.dep] \in Request
<1>1. gate.acc \in Contract /\ gate.acc.dep \in BOOLEAN
  BY DEF TypeInv, TypeOK, Gate, Contract
<1> QED
  BY <1>1, FilesAssumption DEF Request

(* A renewal stages its first files itself and is not dropped while it     *)
(* holds the lock; nobody else stages in its name.                         *)
LEMMA RenewalReadiness == TypeInv /\ [Next]_vars => RenewalIsReady'
<1>1. ASSUME TypeInv, NEW f \in FileNames, WriteFile(f)
      PROVE  RenewalIsReady'
  <2>1. todo # {} /\ (todo' # {} => staged' = staged /\ renewal' = renewal)
    BY <1>1 DEF WriteFile
  <2> QED
    BY <1>1, <2>1 DEF TypeInv, RenewalIsReady
<1>2. ASSUME TypeInv, UNCHANGED <<todo, staged, renewal>> PROVE RenewalIsReady'
  BY <1>2 DEF TypeInv, RenewalIsReady
<1>3. ASSUME NEW r, NEW force, NEW by \in {"hook", "broker"}, NEW now,
             Propose(r, force, by, now)
      PROVE  staged'.by = by
  BY <1>3 DEF Propose, Stage, OnDisk
<1>4. ASSUME TypeInv, Turn \/ HookStep PROVE RenewalIsReady'
  <2>1. CASE UNCHANGED <<todo, staged>>
    BY <1>2, <1>4, <2>1
    DEF Turn, RecordPrompt, RejectPrompt, ReadApproved, HookStep, RevokeAfterFailure,
        ReportReturns, IssueApproved, RefuseApproval, MarkRead, MarkWrite, files
  <2>2. CASE ~UNCHANGED <<todo, staged>>
    <3>1. staged'.by = "hook"
      BY <1>3, <1>4, <2>2
      DEF Turn, RecordPrompt, RejectPrompt, ReadApproved, HookStep, RevokeAfterFailure,
          ReportReturns, IssueApproved, RefuseApproval, MarkRead, MarkWrite, Stage, OnDisk
    <3> QED
      BY <3>1 DEF RenewalIsReady
  <2> QED
    BY <2>1, <2>2
<1>5. ASSUME TypeInv, Broker PROVE RenewalIsReady'
  <2>1. ASSUME NEW criterion, NEW resolved, NEW dep, SetAcceptance(criterion, resolved, dep)
        PROVE  staged'.by = "broker"
    BY <2>1 DEF SetAcceptance, Stage, OnDisk
  <2>2. ASSUME NEW r, RequestLease(r) PROVE staged'.by = "broker"
    BY <1>3, <2>2 DEF RequestLease
  <2>3. ASSUME RenewRequests PROVE todo' = {} \/ staged'.by = "broker"
    BY <1>3, <2>3 DEF RenewRequests, LockFree
  <2>4. ASSUME RenewRevokes PROVE todo' = {} \/ renewal' \in Renewal
    <3>1. renewal \in Renewal
      BY <1>5, <2>4 DEF TypeInv, TypeOK, RenewRevokes
    <3>2. CASE RenewalIsValid
      <4>1. renewal' = [renewal EXCEPT !.st = "requesting"]
        BY <2>4, <3>2 DEF RenewRevokes
      <4> QED
        BY <3>1, <4>1 DEF Renewal
    <3> QED
      BY <2>4, <3>2 DEF RenewRevokes, LockFree
  <2>5. ASSUME NEW now, RecordReceipt(now) \/ CompleteTask(now)
        PROVE  todo' = {} \/ staged'.by = "broker"
    BY <2>5 DEF RecordReceipt, CompleteTask, LockFree, Stage, OnDisk
  <2>6. ASSUME \E v \in VerificationIds : RunVerification(v)
        PROVE  UNCHANGED <<todo, staged, renewal>>
    BY <2>6 DEF RunVerification
  <2>7. ASSUME ReadForRenewal PROVE renewal' \in Renewal
    BY <1>5, <2>7, ReadTypes DEF TypeInv
  <2> QED
    BY <1>5, <2>7, <2>1, <2>2, <2>3, <2>4, <2>5, <2>6 DEF Broker, RenewalIsReady, TypeInv
<1>6. ASSUME TypeInv, World \/ UNCHANGED vars PROVE RenewalIsReady'
  BY <1>2, <1>6
  DEF World, AllowNativeWrite, NativeWrite, EditFile, ChangePolicy, Tick, vars
<1>7. ASSUME TypeInv, WriteFails \/ Killed PROVE RenewalIsReady'
  BY <1>7 DEF WriteFails, Killed, Stage, TypeInv, RenewalIsReady
<1> QED
  BY <1>1, <1>4, <1>5, <1>6, <1>7 DEF Next, Write

LEMMA NextTypes == TypeInv /\ [Next]_vars => TypeInv'
<1>1. ASSUME TypeInv, Broker
      PROVE  TypeOK' /\ HookIsReady'
  BY <1>1, AcceptanceTypes, LeaseRequestTypes, VerificationTypes, RequestType DEF Broker
<1>2. ASSUME TypeInv, Next
      PROVE  TypeOK' /\ HookIsReady'
  BY <1>1, <1>2, WriteTypes, FaultTypes, TurnTypes, HookStepTypes, WorldTypes
  DEF Next, Write
<1> QED
  BY <1>2, StutterTypes, RenewalReadiness DEF TypeInv

(* The files keep the shape the lifecycle reads them back with, and no     *)
(* handler stages a file of another shape, in whatever order the steps of  *)
(* the hook, the brokers, the provider and the user interleave.            *)
THEOREM TypesHold == Spec => []TypeOK
<1>1. TypeInv => TypeOK
  BY DEF TypeInv
<1> QED
  BY <1>1, InitTypes, NextTypes, PTL DEF Spec

-----------------------------------------------------------------------------
(* What the files will be when the handler that holds the lock is done.    *)

NextGate == IF "gate" \in todo THEN staged.gate ELSE gate
NextContract == IF "contract" \in todo THEN staged.contract ELSE contract
NextLedger == IF "ledger" \in todo THEN staged.ledger ELSE ledger

(* Until a first write fails or a first process is killed, every handler   *)
(* leaves files that agree; and a hook that revokes leaves no lease, with  *)
(* whatever it has still to write.                                         *)
WillAgree ==
    faults = 0 /\ NextGate.lease # None =>
        /\ NextContract = NextGate.acc
        /\ NextLedger.lease = NextGate.lease.id /\ NextLedger.task = NextGate.task
WillRevoke ==
    todo # {} /\ staged.by = "hook" /\ hook.st = "revoking" => NextGate.lease = None
AgreementInv == TypeInv /\ WillAgree /\ WillRevoke

(* A write of the holder changes nothing of that.                          *)
LEMMA WriteAgrees ==
    ASSUME AgreementInv, NEW f \in FileNames, WriteFile(f)
    PROVE  WillAgree' /\ WillRevoke'
<1>1. /\ NextGate' = NextGate /\ NextContract' = NextContract /\ NextLedger' = NextLedger
      /\ faults' = faults
  BY DEF WriteFile, NextGate, NextContract, NextLedger, bounds
<1>2. ASSUME todo' # {}
      PROVE  staged' = staged /\ hook' = hook /\ todo # {}
  BY <1>2 DEF WriteFile
<1>3. WillAgree'
  BY <1>1 DEF AgreementInv, WillAgree
<1>4. WillRevoke'
  BY <1>1, <1>2 DEF AgreementInv, WillRevoke
<1> QED
  BY <1>3, <1>4

(* Neither does a step that stages nothing and starts no revocation.       *)
LEMMA OtherStepAgrees ==
    ASSUME AgreementInv, UNCHANGED <<gate, contract, ledger, todo, staged, faults>>,
           hook'.st = "revoking" => hook.st = "revoking" \/ LockFree
    PROVE  WillAgree' /\ WillRevoke'
<1>1. /\ NextGate' = NextGate /\ NextContract' = NextContract /\ NextLedger' = NextLedger
  BY DEF NextGate, NextContract, NextLedger
<1> QED
  BY <1>1 DEF AgreementInv, WillAgree, WillRevoke, LockFree

(* A handler that ends a lease leaves none to agree with.                  *)
LEMMA EndingAgrees ==
    ASSUME "gate" \in todo', staged'.gate.lease = None
    PROVE  WillAgree' /\ WillRevoke'
  BY DEF WillAgree, WillRevoke, NextGate

(* A valid request, from whomever, is for the contract on disk; the lease  *)
(* it is given and the ledger that is reset for it carry one id.           *)
LEMMA ProposeAgrees ==
    ASSUME AgreementInv, NEW r \in Request, NEW force, NEW by, RequestIsValid(r),
           NEW now, Propose(r, force, by, now), UNCHANGED files,
           by = "hook" => hook'.st # "revoking"
    PROVE  WillAgree' /\ WillRevoke'
<1>1. /\ gate \in Gate /\ gate.lease = None
      /\ contract = gate.acc /\ r.acc = gate.acc
  BY DEF AgreementInv, TypeInv, TypeOK, RequestIsValid, ContractIsCurrent
<1> DEFINE g == [gate EXCEPT !.acc = r.acc, !.phase = "implementing",
                             !.base = ObserveOutside(r.scope),
                             !.evidence = Capture(r.evidence),
                             !.lease = LeaseOf(r, now)]
           l == [task |-> gate.task, lease |-> leases + 1, receipts |-> NoReceipts]
<1>2. CASE ShouldIssue(r, force)
  <2>1. /\ todo' = {"draft", "gate", "ledger", "proposal"}
        /\ staged'.gate = g /\ staged'.ledger = l /\ staged'.by = by
    BY <1>2 DEF Propose, Stage, IssueFiles, OnDisk
  <2>2. g.acc = r.acc /\ g.task = gate.task /\ g.lease = LeaseOf(r, now)
    BY <1>1 DEF Gate
  <2> HIDE DEF g
  <2>3. g.lease.id = leases + 1
    BY <2>2 DEF LeaseOf
  <2>4. NextGate' = g /\ NextLedger' = l /\ NextContract' = contract
    BY <2>1 DEF NextGate, NextLedger, NextContract, files
  <2>5. WillAgree'
    BY <1>1, <2>2, <2>3, <2>4 DEF WillAgree
  <2> QED
    BY <2>1, <2>5 DEF WillRevoke
<1>3. CASE ~ShouldIssue(r, force)
  <2>1. todo' = {"proposal"} /\ gate'.lease = None
    BY <1>1, <1>3 DEF Propose, Stage, files
  <2>2. NextGate'.lease = None
    BY <2>1 DEF NextGate
  <2> QED
    BY <2>2 DEF WillAgree, WillRevoke
<1> QED
  BY <1>2, <1>3

LEMMA TurnAgrees ==
    ASSUME AgreementInv, Turn
    PROVE  WillAgree' /\ WillRevoke'
<1>1. ASSUME NEW form \in Forms, NEW class \in Classes,
             NEW skips \in SUBSET {"unrun-criterion", "unrun-risk"},
             RecordPrompt(form, class, skips)
      PROVE  WillAgree' /\ WillRevoke'
  <2> DEFINE c == PromptContract(form, class, skips)
  <2>1. c \in Contract
    BY PolicyAssumption, PromptContractType DEF AgreementInv, TypeInv
  <2>2. GateFor(c).lease = None
    BY <2>1, GateForType DEF AgreementInv, TypeInv
  <2>3. "gate" \in todo' /\ staged'.gate = GateFor(c)
    BY <1>1 DEF RecordPrompt, Stage, OnDisk
  <2> QED
    BY <2>2, <2>3, EndingAgrees
<1>2. ASSUME RejectPrompt \/ \E via \in {"hook", "terminal"} : ReadApproved(via)
      PROVE  WillAgree' /\ WillRevoke'
  <2>1. UNCHANGED <<gate, contract, ledger, todo, staged, faults>> /\ hook'.st # "revoking"
    BY <1>2 DEF RejectPrompt, ReadApproved, StartTurn, IdleHook, files
  <2> QED
    BY <2>1, OtherStepAgrees
<1> QED
  BY <1>1, <1>2 DEF Turn

LEMMA HookStepAgrees ==
    ASSUME AgreementInv, HookStep
    PROVE  WillAgree' /\ WillRevoke'
<1>1. gate \in Gate /\ hook \in Hook
  BY DEF AgreementInv, TypeInv, TypeOK
<1>2. CASE RevokeAfterFailure /\ gate.lease # None
  <2>1. "gate" \in todo' /\ staged'.gate = BlockedGate
    BY <1>2 DEF RevokeAfterFailure, Stage, OnDisk
  <2>2. BlockedGate.lease = None
    BY <1>1 DEF BlockedGate, Gate
  <2> QED
    BY <2>1, <2>2, EndingAgrees
<1>3. CASE IssueApproved
  <2>1. hook.seen \in Material
    BY <1>3 DEF AgreementInv, TypeInv, HookIsReady, IssueApproved
  <2>2. RequestOf(hook.seen) \in Request
    BY <2>1, RequestOfType
  <2>3. /\ RequestIsValid(RequestOf(hook.seen)) /\ UNCHANGED files
        /\ \E now : Propose(RequestOf(hook.seen), TRUE, "hook", now)
    BY <1>3 DEF IssueApproved, ApprovalIsValid
  <2>4. hook'.st = "issuing"
    BY <1>1, <1>3 DEF IssueApproved, Hook
  <2> QED
    BY <2>2, <2>3, <2>4, ProposeAgrees
<1>4. ASSUME \/ RevokeAfterFailure /\ gate.lease = None
             \/ ReportReturns \/ RefuseApproval \/ MarkRead \/ MarkWrite
      PROVE  WillAgree' /\ WillRevoke'
  <2>1. UNCHANGED <<gate, contract, ledger, todo, staged, faults>>
    BY <1>4 DEF RevokeAfterFailure, ReportReturns, RefuseApproval, MarkRead, MarkWrite,
                files, bounds
  <2>2. CASE hook' = IdleHook
    BY <2>1, <2>2, OtherStepAgrees DEF IdleHook
  <2>3. CASE \E st \in {"reported", "failed"} : hook' = [hook EXCEPT !.st = st]
    <3>1. hook'.st # "revoking"
      BY <1>1, <2>3 DEF Hook
    <3> QED
      BY <2>1, <3>1, OtherStepAgrees
  <2>4. CASE hook' = [hook EXCEPT !.st = "writing", !.copy = proposal]
    <3>1. hook'.st # "revoking"
      BY <1>1, <2>4 DEF Hook
    <3> QED
      BY <2>1, <3>1, OtherStepAgrees
  <2> QED
    BY <1>4, <2>2, <2>3, <2>4
    DEF RevokeAfterFailure, ReportReturns, RefuseApproval, MarkRead, MarkWrite
<1> QED
  BY <1>2, <1>3, <1>4 DEF HookStep

LEMMA BrokerAgrees ==
    ASSUME AgreementInv, Broker
    PROVE  WillAgree' /\ WillRevoke'
<1>1. gate \in Gate /\ ledger \in Ledger
  BY DEF AgreementInv, TypeInv, TypeOK
<1>2. ASSUME NEW criterion \in Criteria, NEW resolved \in SUBSET gate.pending,
             NEW dep \in BOOLEAN, SetAcceptance(criterion, resolved, dep)
      PROVE  WillAgree' /\ WillRevoke'
  <2>1. PICK c : "gate" \in todo' /\ staged'.gate = GateFor(c)
    BY <1>2 DEF SetAcceptance, Stage, OnDisk
  <2>2. GateFor(c).lease = None
    BY <1>1 DEF GateFor, Gate
  <2> QED
    BY <2>1, <2>2, EndingAgrees
<1>3. ASSUME NEW scope \in Scopes, NEW vids \in SUBSET VerificationIds,
             NEW E \in EvidenceSets, gate.acc # None,
             RequestLease([acc |-> gate.acc, scope |-> scope, vids |-> vids,
                           evidence |-> E, claim |-> gate.acc.dep])
      PROVE  WillAgree' /\ WillRevoke'
  <2> DEFINE r == [acc |-> gate.acc, scope |-> scope, vids |-> vids, evidence |-> E,
                   claim |-> gate.acc.dep]
  <2>1. r \in Request
    BY <1>3, RequestType DEF AgreementInv
  <2>2. RequestIsValid(r) /\ (\E now : Propose(r, FALSE, "broker", now)) /\ UNCHANGED files
    BY <1>3 DEF RequestLease
  <2> HIDE DEF r
  <2> QED
    BY <2>1, <2>2, ProposeAgrees
<1>4. CASE RenewRevokes /\ RenewalIsValid
  <2> DEFINE g == [gate EXCEPT !.base = None, !.evidence = NoEvidence,
                               !.phase = ContractPhase(contract), !.lease = None]
  <2>1. g.lease = None
    BY <1>1 DEF Gate
  <2>2. "gate" \in todo' /\ staged'.gate = g
    BY <1>4 DEF RenewRevokes, Stage, OnDisk
  <2> QED
    BY <2>1, <2>2, EndingAgrees
<1>5. CASE RenewRequests /\ RequestIsValid(renewal.request)
  <2>1. renewal.request \in Request
    BY <1>5 DEF RenewRequests, AgreementInv, TypeInv, TypeOK, Renewal
  <2>2. (\E now : Propose(renewal.request, FALSE, "broker", now)) /\ UNCHANGED files
    BY <1>5 DEF RenewRequests
  <2> QED
    BY <1>5, <2>1, <2>2, ProposeAgrees
<1>6. ASSUME NEW now \in 0 .. clock, RecordReceipt(now), ReceiptIsValid(now)
      PROVE  WillAgree' /\ WillRevoke'
  <2> DEFINE content == ObserveScope(gate.lease.scope)
             receipts == [ledger.receipts EXCEPT
                             ![run.id] = [lease |-> gate.lease.id, content |-> content,
                                          at |-> now, tested |-> run.snapshot]]
             phase == IF AllCurrent(receipts, proposal.material.vids, content)
                      THEN "verifying" ELSE "implementing"
  <2>1. /\ todo' = {"gate", "ledger"} /\ staged'.by = "broker"
        /\ staged'.gate = [gate EXCEPT !.phase = phase]
        /\ staged'.ledger = [ledger EXCEPT !.receipts = receipts]
    BY <1>6 DEF RecordReceipt, Stage, OnDisk
  <2> HIDE DEF receipts, phase
  <2>2. /\ NextGate' = [gate EXCEPT !.phase = phase] /\ NextContract' = contract
        /\ NextLedger' = [ledger EXCEPT !.receipts = receipts] /\ faults' = faults
    BY <1>6, <2>1 DEF NextGate, NextContract, NextLedger, RecordReceipt, files, bounds
  <2>3. /\ NextGate'.lease = gate.lease /\ NextGate'.acc = gate.acc
        /\ NextGate'.task = gate.task
        /\ NextLedger'.lease = ledger.lease /\ NextLedger'.task = ledger.task
    BY <1>1, <2>2 DEF Gate, Ledger
  <2>4. NextGate = gate /\ NextContract = contract /\ NextLedger = ledger
    BY <1>6 DEF RecordReceipt, LockFree, NextGate, NextContract, NextLedger
  <2>5. WillAgree'
    BY <2>2, <2>3, <2>4 DEF AgreementInv, WillAgree
  <2> QED
    BY <2>1, <2>5 DEF WillRevoke
<1>7. ASSUME NEW now \in 0 .. clock, CompleteTask(now)
      PROVE  WillAgree' /\ WillRevoke'
  <2>1. "gate" \in todo' /\ staged'.gate.lease = None
    BY <1>1, <1>7 DEF CompleteTask, Stage, OnDisk, Gate
  <2> QED
    BY <2>1, EndingAgrees
<1>8. ASSUME \/ ReadForRenewal \/ \E v \in VerificationIds : RunVerification(v)
             \/ RenewRevokes /\ ~RenewalIsValid
             \/ RenewRequests /\ ~RequestIsValid(renewal.request)
             \/ \E now \in 0 .. clock : RecordReceipt(now) /\ ~ReceiptIsValid(now)
      PROVE  WillAgree' /\ WillRevoke'
  <2>1. UNCHANGED <<gate, contract, ledger, todo, staged, faults, hook>>
    BY <1>8 DEF ReadForRenewal, RunVerification, RenewRevokes, RenewRequests, RecordReceipt,
                files, bounds
  <2> QED
    BY <2>1, OtherStepAgrees
<1> QED
  BY <1>2, <1>3, <1>4, <1>5, <1>6, <1>7, <1>8 DEF Broker

(* After a fault nothing is left of the first claim, and the lock is free  *)
(* or the hook idle for the second.                                        *)
LEMMA FaultAgrees ==
    ASSUME AgreementInv, WriteFails \/ Killed
    PROVE  WillAgree' /\ WillRevoke'
<1>1. faults' # 0
  BY DEF WriteFails, Killed, AgreementInv, TypeInv, TypeOK
<1>2. todo' = {} \/ hook'.st = "idle"
  BY DEF WriteFails, Killed, Stage, IdleHook
<1> QED
  BY <1>1, <1>2 DEF WillAgree, WillRevoke

LEMMA AgreementInductive ==
    /\ Init => AgreementInv
    /\ AgreementInv /\ [Next]_vars => AgreementInv'
<1>1. Init => AgreementInv
  BY InitTypes DEF Init, AgreementInv, WillAgree, WillRevoke, NextGate
<1>2. ASSUME AgreementInv, World \/ UNCHANGED vars
      PROVE  WillAgree' /\ WillRevoke'
  <2>1. UNCHANGED <<gate, contract, ledger, todo, staged, faults, hook>>
    BY <1>2 DEF World, AllowNativeWrite, NativeWrite, EditFile, ChangePolicy, Tick, vars,
                files, bounds
  <2> QED
    BY <1>2, <2>1, OtherStepAgrees
<1>3. AgreementInv /\ [Next]_vars => WillAgree' /\ WillRevoke'
  BY <1>2, WriteAgrees, TurnAgrees, HookStepAgrees, BrokerAgrees, FaultAgrees
  DEF Next, Write
<1> QED
  BY <1>1, <1>3, NextTypes DEF AgreementInv

LEMMA AgreementInvariant == Spec => []AgreementInv
  BY AgreementInductive, PTL DEF Spec

(* Until the first write fails or the first process is killed, a lease     *)
(* found with the lock free belongs to the contract beside it and has its  *)
(* own ledger: no handler leaves files of two Tasks or of two leases.      *)
THEOREM FilesAgreeUntilAFault == Spec => [](faults = 0 => FilesAgree)
<1>1. AgreementInv => (faults = 0 => FilesAgree)
  BY DEF AgreementInv, WillAgree, FilesAgree, LockFree, NextGate, NextContract, NextLedger
<1> QED
  BY <1>1, AgreementInvariant, PTL

(* A turn that failed reports only when the lease it met is gone, whatever *)
(* brokers and renewals do before the hook gets the lock again, and        *)
(* whatever failed before: unless this very step is a failed write or the  *)
(* death of the hook (block_after_prompt_failure).                         *)
THEOREM FailedTurnsRevokeOrFault ==
    Spec => [][hook.st \in {"failed", "revoking"} /\ hook'.st = "reported"
                 /\ faults' = faults => gate.lease' = None]_vars
<1>1. ASSUME AgreementInv, Next, hook.st \in {"failed", "revoking"}, hook'.st = "reported",
             faults' = faults
      PROVE  gate'.lease = None
  <2>1. hook \in Hook /\ hook.st # "reported" /\ faults \in Nat
    BY <1>1 DEF AgreementInv, TypeInv, TypeOK
  <2>2. ~WriteFails /\ ~Killed
    BY <1>1, <2>1 DEF WriteFails, Killed
  <2>3. CASE \E f \in FileNames : WriteFile(f)
    <3>1. PICK f \in FileNames : WriteFile(f)
      BY <2>3
    <3>2. todo' = {} /\ todo # {} /\ staged.by = "hook" /\ hook' = HookAfterWrites
      BY <1>1, <2>1, <3>1 DEF WriteFile
    <3>3. hook.st = "revoking"
      BY <1>1, <3>2 DEF HookAfterWrites
    <3>4. NextGate.lease = None
      BY <1>1, <3>2, <3>3 DEF AgreementInv, WillRevoke
    <3>5. gate' = NextGate
      BY <3>1, <3>2 DEF WriteFile, NextGate
    <3> QED
      BY <3>4, <3>5
  <2>4. CASE RevokeAfterFailure
    <3>1. gate.lease = None
      BY <1>1, <2>1, <2>4 DEF RevokeAfterFailure, Hook
    <3> QED
      BY <2>4, <3>1 DEF RevokeAfterFailure, files
  <2>5. ASSUME Turn \/ HookStep \/ Broker \/ World, ~RevokeAfterFailure
        PROVE  hook'.st # "reported"
    <3>1. CASE Turn
      BY <1>1, <3>1 DEF Turn, RecordPrompt, RejectPrompt, ReadApproved, StartTurn
    <3>2. CASE HookStep
      BY <1>1, <2>5, <3>2 DEF HookStep, ReportReturns, IssueApproved, RefuseApproval,
                              MarkRead, MarkWrite
    <3>3. CASE Broker
      BY <2>1, <3>3, ZenonT(40) DEF Broker, SetAcceptance, RequestLease, ReadForRenewal,
                        RenewRevokes, RenewRequests, RunVerification, RecordReceipt, CompleteTask
    <3>4. CASE World
      BY <2>1, <3>4 DEF World, AllowNativeWrite, NativeWrite, EditFile, ChangePolicy, Tick
    <3> QED
      BY <2>5, <3>1, <3>2, <3>3, <3>4
  <2> QED
    BY <1>1, <2>2, <2>3, <2>4, <2>5 DEF Next, Write
<1>2. AgreementInv /\ [Next]_vars =>
        [hook.st \in {"failed", "revoking"} /\ hook'.st = "reported"
            /\ faults' = faults => gate.lease' = None]_vars
  BY <1>1
<1> QED
  BY <1>2, AgreementInvariant, PTL DEF Spec

(* Where no write fails, every turn that failed leaves no lease.           *)
THEOREM FailedTurnsRevoke ==
    ASSUME MaxFaults = 0
    PROVE  Spec => FailedTurnRevokes
<1>1. ASSUME TypeInv, [Next]_vars PROVE faults' = faults
  <2>1. ~WriteFails /\ ~Killed
    BY <1>1, MaxFaults = 0 DEF TypeInv, TypeOK, WriteFails, Killed
  <2>2. CASE Turn \/ HookStep
    BY <2>2 DEF Turn, HookStep, StartTurn, RecordPrompt, RejectPrompt, ReadApproved,
                IssueApproved, RefuseApproval, MarkRead, MarkWrite, RevokeAfterFailure,
                ReportReturns, bounds
  <2>3. CASE Broker
    BY <2>3, ZenonT(40) DEF Broker, SetAcceptance, RequestLease, ReadForRenewal, RenewRevokes,
                RenewRequests, RunVerification, RecordReceipt, CompleteTask, bounds
  <2>4. CASE World
    BY <2>4 DEF World, AllowNativeWrite, NativeWrite, EditFile, ChangePolicy, Tick, bounds
  <2>5. CASE (\E f \in FileNames : WriteFile(f)) \/ UNCHANGED vars
    BY <2>5 DEF WriteFile, vars, bounds
  <2> QED
    BY <1>1, <2>1, <2>2, <2>3, <2>4, <2>5 DEF Next, Write
<1>2. TypeInv /\ [Next]_vars
        /\ [hook.st \in {"failed", "revoking"} /\ hook'.st = "reported"
               /\ faults' = faults => gate.lease' = None]_vars
      => [hook.st \in {"failed", "revoking"} /\ hook'.st = "reported"
            => gate.lease' = None]_vars
  BY <1>1
<1>3. Spec => []TypeInv
  BY InitTypes, NextTypes, PTL DEF Spec
<1> QED
  BY <1>2, <1>3, FailedTurnsRevokeOrFault, PTL DEF Spec, FailedTurnRevokes
=============================================================================
