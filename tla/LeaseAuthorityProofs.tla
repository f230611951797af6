------------------------ MODULE LeaseAuthorityProofs ------------------------
(***************************************************************************)
(* No sequence of turns, requests, failed writes and kills leaves a lease  *)
(* behind that does not rest on what the user accepted, or that the user   *)
(* has not consented to; and the lifecycle, its faults included,           *)
(* implements the abstract authority.                                      *)
(***************************************************************************)
EXTENDS LeaseLifecycleProofs

(* What LeaseRestsOnAcceptance says, of any gate state.                    *)
Rests(g) ==
    g.lease # None =>
        /\ g.acc.status = "accepted" /\ g.acc.pending = {} /\ g.pending = {}
        /\ g.phase \in {"implementing", "verifying"}
        /\ g.lease.acc = g.acc /\ g.lease.task = g.task
        /\ g.lease.base = g.base /\ g.lease.evidence = g.evidence

(* Why an accepted contract has the user behind it: on the first prompt of *)
(* a risky Task the product decision is open, no draft's plan ever takes   *)
(* it out, and only a later prompt is an answer or skips a check.          *)
Answered(c) ==
    /\ c.rev >= 1
    /\ c.kind # "initial-request" \/ c.unrun # {} => c.rev > 1
    /\ c.plan # None => "product" \notin c.plan.pending
    /\ c.risk # "low" /\ c.rev = 1 => "product" \in c.pending
    /\ c.status = "accepted" =>
           /\ c.pending = {}
           /\ c.acceptance.criterion = "semantic" => "unrun-criterion" \in c.unrun

ContractSound(c) == c # None => Answered(c)
GateSound(g) ==
    /\ Rests(g)
    /\ g.acc # None => Answered(g.acc) /\ g.pending = g.acc.pending

(* The inductive invariant: the files on disk and the ones staged to       *)
(* replace them are sound, and the staged gate state hands over no lease.  *)
FilesSound == GateSound(gate) /\ ContractSound(contract)
StagedSound ==
    todo # {} =>
        /\ GateSound(staged.gate) /\ ContractSound(staged.contract)
        /\ gate.lease = None \/ staged.gate.lease \in {None, gate.lease}
AuthorityInv == TypeInv /\ FilesSound /\ StagedSound

-----------------------------------------------------------------------------
(* The contracts the handlers make *)

LEMMA NewContractAnswered ==
    ASSUME NEW class PROVE Answered(NewContract(class))
  BY DEF NewContract, Answered

LEMMA ReviseAnswered ==
    ASSUME contract \in Contract, Answered(contract), NEW kind \in Kinds,
           NEW material \in BOOLEAN, NEW skips
    PROVE  Answered(Revise(kind, material, skips))
<1> DEFINE c == Revise(kind, material, skips)
<1>1. /\ c.rev = contract.rev + 1 /\ c.plan = contract.plan
      /\ c.pending = contract.pending
      /\ contract.unrun \subseteq c.unrun
      /\ c.status = "accepted" => /\ contract.status = "accepted"
                                  /\ c.acceptance = contract.acceptance
  BY DEF Revise, Contract
<1>2. contract.rev \in Nat
  BY DEF Contract
<1> HIDE DEF c
<1> QED
  BY <1>1, <1>2 DEF Answered, c

LEMMA PromptContractAnswered ==
    ASSUME TypeInv, FilesSound, NEW form \in Forms, NEW class \in Class, NEW skips
    PROVE  Answered(PromptContract(form, class, skips))
<1>1. CASE KeepsTask(form)
  <2>1. contract \in Contract /\ Answered(contract)
    BY <1>1 DEF KeepsTask, ContractIsCurrent, TypeInv, TypeOK, FilesSound, ContractSound
  <2> QED
    BY <1>1, <2>1, ReviseAnswered DEF PromptContract, Kinds
<1>2. CASE ~KeepsTask(form)
  BY <1>2, NewContractAnswered DEF PromptContract
<1> QED
  BY <1>1, <1>2

(* The gate state bound to an answered contract is sound: it has no lease. *)
LEMMA GateForSound ==
    ASSUME TypeInv, NEW c \in Contract, Answered(c)
    PROVE  GateSound(GateFor(c)) /\ GateFor(c).lease = None
<1>1. gate \in Gate
  BY DEF TypeInv, TypeOK
<1>2. /\ GateFor(c).lease = None /\ GateFor(c).acc = c
      /\ GateFor(c).pending = c.pending
  BY <1>1 DEF GateFor, Gate
<1> QED
  BY <1>2 DEF GateSound, Rests

(* What an agent's draft can and cannot decide.                            *)
LEMMA AcceptanceAnswered ==
    ASSUME TypeInv, FilesSound, NEW criterion \in Criteria,
           NEW resolved \in SUBSET gate.pending, NEW dep \in BOOLEAN,
           SetAcceptance(criterion, resolved, dep)
    PROVE  /\ staged'.contract \in Contract /\ Answered(staged'.contract)
           /\ staged'.gate = GateFor(staged'.contract)
<1>1. contract \in Contract /\ Answered(contract) /\ gate.pending = contract.pending
  BY DEF SetAcceptance, ContractIsCurrent, TypeInv, TypeOK, FilesSound, ContractSound,
         GateSound
<1> DEFINE open == gate.pending \ Superseded(resolved)
           plan == BuildPlan(criterion, contract.risk, contract.unrun)
           pending == (open \ resolved) \cup plan.pending
           c == [contract EXCEPT
                    !.acceptance = [criterion |-> criterion, resolved |-> resolved],
                    !.accRev = contract.rev, !.plan = plan, !.dep = dep,
                    !.pending = (open \ resolved) \cup plan.pending,
                    !.status = IF (open \ resolved) \cup plan.pending = {}
                               THEN "accepted" ELSE "draft"]
<1>2. "product" \notin Superseded(resolved)
  BY <1>1 DEF Superseded, PlanPending, Answered
<1>3. contract.rev = 1 => contract.risk = "low"
  <2>1. SUFFICES ASSUME contract.rev = 1, contract.risk # "low" PROVE FALSE
    OBVIOUS
  <2>2. "product" \in open
    BY <1>1, <1>2, <2>1 DEF Answered
  <2>3. resolved = open
    BY <2>2 DEF SetAcceptance
  <2>4. contract.kind = "user-answer"
    BY <2>2, <2>3 DEF SetAcceptance, MayResolve
  <2> QED
    BY <1>1, <2>1, <2>4 DEF Answered
<1>4. "product" \notin plan.pending
  BY DEF BuildPlan
<1>5. plan.pending = {} /\ criterion = "semantic" => "unrun-criterion" \in contract.unrun
  BY DEF BuildPlan, CommandIds
<1>6. staged' = [OnDisk("broker") EXCEPT !.contract = c, !.gate = GateFor(c)]
  BY DEF SetAcceptance, Stage
<1>7. staged'.contract \in Contract
  BY AcceptanceTypes
<1> HIDE DEF open, plan
<1>8. /\ c.rev = contract.rev /\ c.kind = contract.kind /\ c.unrun = contract.unrun
       /\ c.risk = contract.risk /\ c.plan = plan
       /\ c.pending = pending /\ c.acceptance.criterion = criterion
       /\ c.status = IF pending = {} THEN "accepted" ELSE "draft"
  BY <1>1 DEF Contract
<1> HIDE DEF c
<1>9. staged'.contract = c /\ staged'.gate = GateFor(c)
  BY <1>6 DEF OnDisk
<1>10. Answered(c)
  BY <1>1, <1>3, <1>4, <1>5, <1>8 DEF Answered
<1> QED
  BY <1>7, <1>9, <1>10

(* What proposing stages: the contract on disk, and the gate state on disk *)
(* or the same one with a lease that rests on its acceptance.              *)
LEMMA ProposeSound ==
    ASSUME TypeInv, FilesSound, NEW r \in Request, NEW force, NEW now,
           NEW by \in {"hook", "renew", "broker"},
           RequestIsValid(r), Propose(r, force, by, now)
    PROVE  /\ GateSound(staged'.gate) /\ ContractSound(staged'.contract)
           /\ gate.lease = None
<1>1. gate \in Gate /\ contract = gate.acc /\ contract # None /\ r.acc = gate.acc
      /\ contract.status = "accepted" /\ gate.lease = None
  BY DEF TypeInv, TypeOK, RequestIsValid, ContractIsCurrent
<1>2. Answered(gate.acc) /\ gate.pending = gate.acc.pending /\ gate.acc.pending = {}
  BY <1>1 DEF FilesSound, GateSound, Answered
<1>3. CASE ShouldIssue(r, force)
  <2> DEFINE g == [gate EXCEPT !.acc = r.acc, !.phase = "implementing",
                               !.base = ObserveOutside(r.scope),
                               !.evidence = Capture(r.evidence), !.lease = LeaseOf(r, now)]
  <2>1. staged'.gate = g /\ staged'.contract = contract
    BY <1>3 DEF Propose, Stage, OnDisk
  <2>2. /\ g.acc = gate.acc /\ g.pending = gate.pending /\ g.phase = "implementing"
        /\ g.base = ObserveOutside(r.scope) /\ g.evidence = Capture(r.evidence)
        /\ g.lease = LeaseOf(r, now) /\ g.task = gate.task
    BY <1>1 DEF Gate
  <2>3. /\ LeaseOf(r, now).acc = gate.acc /\ LeaseOf(r, now).task = gate.task
        /\ LeaseOf(r, now).base = ObserveOutside(r.scope)
        /\ LeaseOf(r, now).evidence = Capture(r.evidence)
    BY <1>1 DEF LeaseOf
  <2> HIDE DEF g
  <2>4. GateSound(g)
    BY <1>1, <1>2, <2>2, <2>3 DEF GateSound, Rests
  <2> QED
    BY <1>1, <2>1, <2>4 DEF FilesSound
<1>4. CASE ~ShouldIssue(r, force)
  BY <1>1, <1>4 DEF Propose, Stage, OnDisk, FilesSound
<1> QED
  BY <1>3, <1>4

(* One file replaced: the gate state is the old one or the staged one.     *)
LEMMA WriteSound ==
    ASSUME AuthorityInv, NEW f \in FileNames, WriteFile(f)
    PROVE  FilesSound' /\ StagedSound'
<1>1. StagedSound /\ FilesSound /\ todo # {}
  BY DEF AuthorityInv, WriteFile
<1>2. /\ gate' \in {gate, staged.gate} /\ contract' \in {contract, staged.contract}
      /\ todo' # {} => staged' = staged
  BY DEF WriteFile
<1> QED
  BY <1>1, <1>2 DEF FilesSound, StagedSound

(* A step that writes no file and stages none leaves everything sound.     *)
LEMMA QuietSound ==
    ASSUME AuthorityInv, UNCHANGED <<gate, contract>>,
           todo' = {} \/ UNCHANGED <<todo, staged>>
    PROVE  FilesSound' /\ StagedSound'
  BY DEF AuthorityInv, FilesSound, StagedSound

(* A handler that stages sound files, without writing any yet.             *)
LEMMA StageSound ==
    ASSUME AuthorityInv, UNCHANGED <<gate, contract>>,
           GateSound(staged'.gate), ContractSound(staged'.contract),
           gate.lease = None \/ staged'.gate.lease \in {None, gate.lease}
    PROVE  FilesSound' /\ StagedSound'
  BY DEF AuthorityInv, FilesSound, StagedSound

LEMMA TurnSound ==
    ASSUME AuthorityInv, Turn
    PROVE  FilesSound' /\ StagedSound'
<1>1. ASSUME NEW form \in Forms, NEW class \in Classes, NEW skips,
             RecordPrompt(form, class, skips)
      PROVE  FilesSound' /\ StagedSound'
  <2> DEFINE c == PromptContract(form, class, skips)
  <2>1. c \in Contract /\ Answered(c)
    BY PolicyAssumption, PromptContractType, PromptContractAnswered DEF AuthorityInv, TypeInv
  <2>2. UNCHANGED <<gate, contract>>
    BY <1>1 DEF RecordPrompt, files
  <2>3. staged'.gate = GateFor(c) /\ staged'.contract = c
    BY <1>1 DEF RecordPrompt, Stage, OnDisk
  <2> HIDE DEF c
  <2>4. /\ GateSound(staged'.gate) /\ ContractSound(staged'.contract)
        /\ staged'.gate.lease = None
    BY <2>1, <2>3, GateForSound DEF AuthorityInv, ContractSound
  <2> QED
    BY <2>2, <2>4, StageSound
<1>2. ASSUME RejectPrompt \/ \E via \in {"hook", "terminal"} : ReadApproved(via)
      PROVE  FilesSound' /\ StagedSound'
  BY <1>2, QuietSound DEF RejectPrompt, ReadApproved, files
<1> QED
  BY <1>1, <1>2 DEF Turn

LEMMA HookStepSound ==
    ASSUME AuthorityInv, HookStep
    PROVE  FilesSound' /\ StagedSound'
<1>1. CASE RevokeAfterFailure
  <2>1. CASE gate.lease = None
    BY <1>1, <2>1, QuietSound DEF RevokeAfterFailure, files
  <2>2. CASE gate.lease # None
    <3>1. staged'.gate = BlockedGate /\ staged'.contract = contract
      BY <1>1, <2>2 DEF RevokeAfterFailure, Stage, OnDisk
    <3>2. /\ BlockedGate.lease = None /\ BlockedGate.acc = gate.acc
          /\ BlockedGate.pending = gate.pending
      BY DEF BlockedGate, AuthorityInv, TypeInv, TypeOK, Gate
    <3>3. GateSound(staged'.gate) /\ ContractSound(staged'.contract)
      BY <3>1, <3>2 DEF AuthorityInv, FilesSound, GateSound, Rests
    <3> QED
      BY <1>1, <3>1, <3>2, <3>3, StageSound DEF RevokeAfterFailure, files
  <2> QED
    BY <2>1, <2>2
<1>2. CASE IssueApproved
  <2>1. RequestOf(hook.seen) \in Request
    BY <1>2, RequestOfType DEF IssueApproved, AuthorityInv, TypeInv, HookIsReady
  <2>2. /\ RequestIsValid(RequestOf(hook.seen)) /\ UNCHANGED <<gate, contract>>
        /\ \E now : Propose(RequestOf(hook.seen), TRUE, "hook", now)
    BY <1>2 DEF IssueApproved, ApprovalIsValid, files
  <2>3. /\ GateSound(staged'.gate) /\ ContractSound(staged'.contract)
        /\ gate.lease = None
    BY <2>1, <2>2, ProposeSound DEF AuthorityInv
  <2> QED
    BY <2>2, <2>3, StageSound
<1>3. CASE RefuseApproval \/ ReportReturns \/ MarkRead \/ MarkWrite
  BY <1>3, QuietSound DEF RefuseApproval, ReportReturns, MarkRead, MarkWrite, files
<1> QED
  BY <1>1, <1>2, <1>3 DEF HookStep

LEMMA RequestSound ==
    ASSUME AuthorityInv,
           \/ \E r \in Request : RequestLease(r)
           \/ RenewRequests
    PROVE  FilesSound' /\ StagedSound'
<1>1. ASSUME NEW r \in Request, NEW by \in {"hook", "renew", "broker"}, NEW now,
             RequestIsValid(r), Propose(r, FALSE, by, now), UNCHANGED files
      PROVE  FilesSound' /\ StagedSound'
  <2>1. /\ GateSound(staged'.gate) /\ ContractSound(staged'.contract)
        /\ gate.lease = None
    BY <1>1, ProposeSound DEF AuthorityInv
  <2> QED
    BY <1>1, <2>1, StageSound DEF files
<1>2. ASSUME NEW r \in Request, RequestLease(r)
      PROVE  FilesSound' /\ StagedSound'
  BY <1>1, <1>2 DEF RequestLease
<1>3. CASE RenewRequests
  <2>1. renewal.request \in Request
    BY <1>3 DEF RenewRequests, AuthorityInv, TypeInv, TypeOK, Renewal
  <2>2. CASE RequestIsValid(renewal.request)
    BY <1>1, <1>3, <2>1, <2>2 DEF RenewRequests
  <2>3. CASE ~RequestIsValid(renewal.request)
    BY <1>3, <2>3, QuietSound DEF RenewRequests, files
  <2> QED
    BY <2>2, <2>3
<1> QED
  BY <1>2, <1>3

LEMMA RenewRevokesSound ==
    ASSUME AuthorityInv, RenewRevokes
    PROVE  FilesSound' /\ StagedSound'
<1>1. CASE RenewalIsValid
  <2> DEFINE g == [gate EXCEPT !.base = None, !.evidence = NoEvidence,
                               !.phase = ContractPhase(contract), !.lease = None]
  <2>1. staged'.gate = g /\ staged'.contract = contract
    BY <1>1 DEF RenewRevokes, Stage, OnDisk
  <2>2. g.lease = None /\ g.acc = gate.acc /\ g.pending = gate.pending
    BY DEF AuthorityInv, TypeInv, TypeOK, Gate
  <2> HIDE DEF g
  <2>3. GateSound(staged'.gate) /\ ContractSound(staged'.contract)
    BY <2>1, <2>2 DEF AuthorityInv, FilesSound, GateSound, Rests
  <2> QED
    BY <2>1, <2>2, <2>3, StageSound DEF RenewRevokes, files
<1>2. CASE ~RenewalIsValid
  BY <1>2, QuietSound DEF RenewRevokes, files
<1> QED
  BY <1>1, <1>2

LEMMA VerificationSound ==
    ASSUME AuthorityInv, NEW now \in 0 .. clock, RecordReceipt(now) \/ CompleteTask(now)
    PROVE  FilesSound' /\ StagedSound'
<1>1. gate \in Gate /\ GateSound(gate) /\ ContractSound(contract)
  BY DEF AuthorityInv, TypeInv, TypeOK, FilesSound
<1>2. CASE RecordReceipt(now)
  <2>1. CASE ReceiptIsValid(now)
    <3>1. PICK phase \in {"verifying", "implementing"} :
                 staged'.gate = [gate EXCEPT !.phase = phase]
      BY <1>2, <2>1 DEF RecordReceipt, Stage, OnDisk
    <3>2. staged'.contract = contract
      BY <1>2, <2>1 DEF RecordReceipt, Stage, OnDisk
    <3>3. /\ staged'.gate.phase \in {"verifying", "implementing"}
          /\ staged'.gate.lease = gate.lease /\ staged'.gate.acc = gate.acc
          /\ staged'.gate.task = gate.task /\ staged'.gate.pending = gate.pending
          /\ staged'.gate.base = gate.base /\ staged'.gate.evidence = gate.evidence
      BY <1>1, <3>1 DEF Gate
    <3>4. GateSound(staged'.gate)
      BY <1>1, <3>3 DEF GateSound, Rests
    <3> QED
      BY <1>1, <1>2, <3>2, <3>3, <3>4, StageSound DEF RecordReceipt, files
  <2>2. CASE ~ReceiptIsValid(now)
    BY <1>2, <2>2, QuietSound DEF RecordReceipt, files
  <2> QED
    BY <2>1, <2>2
<1>3. CASE CompleteTask(now)
  <2>1. /\ staged'.gate = [gate EXCEPT !.phase = "complete", !.lease = None]
        /\ staged'.contract = contract
    BY <1>3 DEF CompleteTask, Stage, OnDisk
  <2>2. /\ staged'.gate.lease = None /\ staged'.gate.acc = gate.acc
        /\ staged'.gate.pending = gate.pending
    BY <1>1, <2>1 DEF Gate
  <2> QED
    BY <1>1, <1>3, <2>1, <2>2, StageSound DEF CompleteTask, GateSound, Rests, files
<1> QED
  BY <1>2, <1>3

LEMMA BrokerSound ==
    ASSUME AuthorityInv, Broker
    PROVE  FilesSound' /\ StagedSound'
<1>1. ASSUME NEW criterion \in Criteria, NEW resolved \in SUBSET gate.pending,
             NEW dep \in BOOLEAN, SetAcceptance(criterion, resolved, dep)
      PROVE  FilesSound' /\ StagedSound'
  <2>1. /\ staged'.contract \in Contract /\ Answered(staged'.contract)
        /\ staged'.gate = GateFor(staged'.contract)
    BY <1>1, AcceptanceAnswered DEF AuthorityInv
  <2>2. GateSound(staged'.gate) /\ staged'.gate.lease = None
    BY <2>1, GateForSound DEF AuthorityInv
  <2> QED
    BY <1>1, <2>1, <2>2, StageSound DEF SetAcceptance, ContractSound, files
<1>2. ASSUME NEW scope \in Scopes, NEW vids \in SUBSET VerificationIds,
             NEW E \in EvidenceSets, gate.acc # None
      PROVE  [acc |-> gate.acc, scope |-> scope, vids |-> vids, evidence |-> E,
              claim |-> gate.acc.dep] \in Request
  BY <1>2, RequestType DEF AuthorityInv
<1>3. ASSUME ReadForRenewal \/ \E v \in VerificationIds : RunVerification(v)
      PROVE  FilesSound' /\ StagedSound'
  BY <1>3, QuietSound DEF ReadForRenewal, RunVerification, files
<1> QED
  BY <1>1, <1>2, <1>3, RequestSound, RenewRevokesSound, VerificationSound DEF Broker

-----------------------------------------------------------------------------
(* The theorems *)

LEMMA AuthorityInductive ==
    /\ Init => AuthorityInv
    /\ AuthorityInv /\ [Next]_vars => AuthorityInv'
<1>1. Init => AuthorityInv
  BY InitTypes DEF Init, AuthorityInv, FilesSound, StagedSound, GateSound, ContractSound,
                   Rests
<1>2. AuthorityInv /\ [Next]_vars => TypeInv'
  BY NextTypes DEF AuthorityInv
<1>3. ASSUME AuthorityInv, WriteFails \/ Killed \/ World \/ UNCHANGED vars
      PROVE  FilesSound' /\ StagedSound'
  <2>1. /\ UNCHANGED <<gate, contract>>
        /\ todo' = {} \/ UNCHANGED <<todo, staged>>
    BY <1>3 DEF WriteFails, Killed, Stage, World, AllowNativeWrite, NativeWrite, EditFile,
                ChangePolicy, Tick, vars, files
  <2> QED
    BY <1>3, <2>1, QuietSound
<1>4. AuthorityInv /\ [Next]_vars => FilesSound' /\ StagedSound'
  BY <1>3, WriteSound, TurnSound, HookStepSound, BrokerSound DEF Next, Write
<1> QED
  BY <1>1, <1>2, <1>4 DEF AuthorityInv

LEMMA AuthorityInvariant == Spec => []AuthorityInv
  BY AuthorityInductive, PTL DEF Spec

(* No interleaving, failed write or kill leaves a lease in gate-state.json *)
(* that does not rest on an accepted contract with nothing left to decide. *)
THEOREM LeasesRest == Spec => []LeaseRestsOnAcceptance
<1>1. AuthorityInv => LeaseRestsOnAcceptance
  BY DEF AuthorityInv, FilesSound, GateSound, Rests, LeaseRestsOnAcceptance
<1> QED
  BY <1>1, AuthorityInvariant, PTL

(* A risky Task or an unproven criterion is accepted only after the user   *)
(* has spoken again, however often an agent redrafts the acceptance.       *)
THEOREM UsersAccept == Spec => []AcceptanceNeedsUser
<1>1. ASSUME NEW c \in Contract, Answered(c), c.status = "accepted"
      PROVE  /\ c.risk # "low" => c.rev > 1
             /\ c.acceptance.criterion = "semantic" =>
                    c.rev > 1 /\ "unrun-criterion" \in c.unrun
  <2>1. c.rev \in Nat
    BY DEF Contract
  <2> QED
    BY <1>1, <2>1 DEF Answered
<1>2. ASSUME AuthorityInv, NEW c \in {contract, gate.acc} \ {None}
      PROVE  c \in Contract /\ Answered(c)
  BY <1>2 DEF AuthorityInv, TypeInv, TypeOK, Gate, FilesSound, GateSound, ContractSound
<1>3. AuthorityInv => AcceptanceNeedsUser
  BY <1>1, <1>2 DEF AcceptanceNeedsUser
<1> QED
  BY <1>3, AuthorityInvariant, PTL

(* gate-state.json never goes from one lease to another in one write.      *)
THEOREM LeasesEndFirst == Spec => LeaseNotReplaced
<1>1. ASSUME AuthorityInv, [Next]_vars, gate.lease # None, gate'.lease # gate.lease
      PROVE  gate'.lease = None
  <2>1. PICK f \in FileNames : WriteFile(f)
    BY <1>1, ZenonT(40) DEF Next, Turn, RecordPrompt, RejectPrompt, ReadApproved, HookStep,
       RevokeAfterFailure, ReportReturns, IssueApproved, RefuseApproval, MarkRead,
       MarkWrite, Broker, SetAcceptance, RequestLease, ReadForRenewal, RenewRevokes,
       RenewRequests, RunVerification, RecordReceipt, CompleteTask, World,
       AllowNativeWrite, NativeWrite, EditFile, ChangePolicy, Tick, Write, WriteFails,
       Killed, vars, files
  <2>2. staged.gate.lease \in {None, gate.lease} /\ gate' \in {gate, staged.gate}
    BY <1>1, <2>1 DEF AuthorityInv, StagedSound, WriteFile
  <2> QED
    BY <1>1, <2>2
<1>2. AuthorityInv /\ [Next]_vars =>
        [gate.lease # None /\ gate'.lease # gate.lease => gate'.lease = None]_vars
  BY <1>1
<1> QED
  BY <1>2, AuthorityInvariant, PTL DEF Spec, LeaseNotReplaced

-----------------------------------------------------------------------------
(* Every lease was eligible for automatic approval or is the proposal the  *)
(* user approved, although that proposal is read outside the lock.         *)

Eligible(g) == AutoApprove /\ g.acc.risk = "low" /\ g.lease.scope \in AutoScopes

Approved(lease) ==
    /\ hook.st = "issuing"
    /\ hook.seen.acc = lease.acc /\ hook.seen.scope = lease.scope
    /\ hook.seen.vids = lease.vids /\ hook.seen.evidence = lease.evidence

(* A staged lease that is not the one on disk is eligible, or it is what   *)
(* the hook, which then holds the lock, read before it took the lock.      *)
StagedConsent ==
    "gate" \in todo /\ staged.gate.lease # None /\ staged.gate.lease # gate.lease =>
        \/ Eligible(staged.gate)
        \/ staged.by = "hook" /\ Approved(staged.gate.lease)
ConsentInv == AuthorityInv /\ StagedConsent

-----------------------------------------------------------------------------
(* What a valid request stages.                                            *)
LEMMA ProposeConsent ==
    ASSUME ConsentInv, NEW r \in Request, NEW force \in BOOLEAN, NEW now,
           NEW by \in {"hook", "renew", "broker"},
           RequestIsValid(r), Propose(r, force, by, now), UNCHANGED gate,
           "gate" \in todo', staged'.gate.lease # None
    PROVE  /\ staged'.by = by /\ staged'.gate.lease = LeaseOf(r, now)
           /\ force \/ Eligible(staged'.gate)
<1>1. gate \in Gate /\ contract = gate.acc /\ r.acc = gate.acc
  BY DEF ConsentInv, AuthorityInv, TypeInv, TypeOK, RequestIsValid, ContractIsCurrent
<1>2. ShouldIssue(r, force)
  BY DEF Propose, Stage
<1> DEFINE g == [gate EXCEPT !.acc = r.acc, !.phase = "implementing",
                             !.base = ObserveOutside(r.scope),
                             !.evidence = Capture(r.evidence), !.lease = LeaseOf(r, now)]
<1>3. staged'.gate = g /\ staged'.by = by
  BY <1>2 DEF Propose, Stage, OnDisk
<1>4. g.acc = contract /\ g.lease = LeaseOf(r, now)
  BY <1>1 DEF Gate
<1> HIDE DEF g
<1>5. LeaseOf(r, now).scope = r.scope
  BY DEF LeaseOf
<1>6. force \/ (AutoApprove /\ contract.risk = "low" /\ r.scope \in AutoScopes)
  BY <1>2 DEF ShouldIssue, LowRisk
<1> QED
  BY <1>3, <1>4, <1>5, <1>6 DEF Eligible

(* An approval stages the very material the user's turn has read.          *)
LEMMA ApprovalConsent ==
    ASSUME ConsentInv, IssueApproved
    PROVE  StagedConsent'
<1> DEFINE r == RequestOf(hook.seen)
<1>1. r \in Request /\ hook.seen \in Material /\ hook \in Hook
  BY RequestOfType DEF IssueApproved, ConsentInv, AuthorityInv, TypeInv, TypeOK, HookIsReady
<1>2. /\ RequestIsValid(r) /\ MaterialOf(r) = hook.seen
      /\ UNCHANGED gate /\ hook' = [hook EXCEPT !.st = "issuing"]
  BY DEF IssueApproved, ApprovalIsValid, files
<1> PICK now : Propose(r, TRUE, "hook", now)
  BY DEF IssueApproved
<1>3. hook'.st = "issuing" /\ hook'.seen = hook.seen
  BY <1>1, <1>2 DEF Hook
<1>4. /\ LeaseOf(r, now).acc = r.acc /\ LeaseOf(r, now).scope = r.scope
      /\ LeaseOf(r, now).vids = r.vids /\ LeaseOf(r, now).evidence = Capture(r.evidence)
  BY DEF LeaseOf
<1>5. /\ MaterialOf(r).acc = r.acc /\ MaterialOf(r).scope = r.scope
      /\ MaterialOf(r).vids = r.vids /\ MaterialOf(r).evidence = Capture(r.evidence)
  BY DEF MaterialOf
<1> HIDE DEF r
<1>6. ASSUME "gate" \in todo', staged'.gate.lease # None
      PROVE  staged'.by = "hook" /\ staged'.gate.lease = LeaseOf(r, now)
  BY <1>1, <1>2, <1>6, ProposeConsent
<1>7. ASSUME "gate" \in todo', staged'.gate.lease # None
      PROVE  /\ hook'.seen.acc = staged'.gate.lease.acc
             /\ hook'.seen.scope = staged'.gate.lease.scope
             /\ hook'.seen.vids = staged'.gate.lease.vids
             /\ hook'.seen.evidence = staged'.gate.lease.evidence
  BY <1>2, <1>3, <1>4, <1>5, <1>6, <1>7
<1> QED
  BY <1>3, <1>6, <1>7 DEF StagedConsent, Approved

LEMMA RequestConsent ==
    ASSUME ConsentInv,
           \/ \E r \in Request : RequestLease(r)
           \/ RenewRequests
    PROVE  StagedConsent'
<1>1. ASSUME NEW r \in Request, NEW by \in {"hook", "renew", "broker"}, NEW now,
             RequestIsValid(r), Propose(r, FALSE, by, now), UNCHANGED gate
      PROVE  StagedConsent'
  <2>1. ASSUME "gate" \in todo', staged'.gate.lease # None PROVE Eligible(staged'.gate)
    BY <1>1, <2>1, ProposeConsent
  <2> QED
    BY <2>1 DEF StagedConsent, Eligible
<1>2. ASSUME NEW r \in Request, RequestLease(r) PROVE StagedConsent'
  BY <1>1, <1>2 DEF RequestLease, files
<1>3. CASE RenewRequests
  <2>1. renewal.request \in Request
    BY <1>3 DEF RenewRequests, ConsentInv, AuthorityInv, TypeInv, TypeOK, Renewal
  <2>2. CASE RequestIsValid(renewal.request)
    BY <1>1, <1>3, <2>1, <2>2 DEF RenewRequests, files
  <2>3. CASE ~RequestIsValid(renewal.request)
    BY <1>3, <2>3 DEF RenewRequests, LockFree, StagedConsent
  <2> QED
    BY <2>2, <2>3
<1> QED
  BY <1>2, <1>3

(* Every other handler stages no lease or the one on disk.                 *)
LEMMA OtherConsent ==
    ASSUME UNCHANGED gate, "gate" \in todo' => staged'.gate.lease \in {None, gate.lease}
    PROVE  StagedConsent'
  BY DEF StagedConsent

(* While the hook holds the lock no other step moves it.                   *)
LEMMA KeptConsent ==
    ASSUME ConsentInv, UNCHANGED <<gate, todo, staged>>,
           HookHoldsLock => UNCHANGED hook
    PROVE  StagedConsent'
  BY DEF ConsentInv, StagedConsent, HookHoldsLock, Eligible, Approved

LEMMA TurnConsent ==
    ASSUME ConsentInv, Turn
    PROVE  StagedConsent'
<1>1. ASSUME NEW form, NEW class, NEW skips, RecordPrompt(form, class, skips)
      PROVE  StagedConsent'
  <2>1. staged'.gate = GateFor(PromptContract(form, class, skips)) /\ UNCHANGED gate
    BY <1>1 DEF RecordPrompt, Stage, OnDisk, files
  <2>2. staged'.gate.lease = None
    BY <2>1 DEF GateFor, ConsentInv, AuthorityInv, TypeInv, TypeOK, Gate
  <2> QED
    BY <2>1, <2>2, OtherConsent
<1>2. ASSUME RejectPrompt \/ \E via \in {"hook", "terminal"} : ReadApproved(via)
      PROVE  StagedConsent'
  <2>1. hook.st = "idle" /\ UNCHANGED <<gate, todo, staged>>
    BY <1>2 DEF RejectPrompt, ReadApproved, StartTurn, files
  <2> QED
    BY <2>1 DEF ConsentInv, StagedConsent, Eligible, Approved
<1> QED
  BY <1>1, <1>2 DEF Turn

LEMMA HookStepConsent ==
    ASSUME ConsentInv, HookStep
    PROVE  StagedConsent'
<1>1. CASE RevokeAfterFailure
  <2>1. BlockedGate.lease = None
    BY DEF BlockedGate, ConsentInv, AuthorityInv, TypeInv, TypeOK, Gate
  <2>2. UNCHANGED gate /\ (todo' = {} \/ staged'.gate = BlockedGate)
    BY <1>1 DEF RevokeAfterFailure, Stage, OnDisk, LockFree, files
  <2> QED
    BY <2>1, <2>2, OtherConsent
<1>2. CASE RefuseApproval \/ ReportReturns \/ MarkRead \/ MarkWrite
  <2>1. hook.st # "issuing" /\ UNCHANGED <<gate, todo, staged>>
    BY <1>2 DEF RefuseApproval, ReportReturns, MarkRead, MarkWrite, files
  <2> QED
    BY <2>1 DEF ConsentInv, StagedConsent, Eligible, Approved
<1> QED
  BY <1>1, <1>2, ApprovalConsent DEF HookStep

LEMMA BrokerConsent ==
    ASSUME ConsentInv, Broker
    PROVE  StagedConsent'
<1>1. gate \in Gate
  BY DEF ConsentInv, AuthorityInv, TypeInv, TypeOK
<1>2. ASSUME NEW criterion \in Criteria, NEW resolved \in SUBSET gate.pending,
             NEW dep \in BOOLEAN, SetAcceptance(criterion, resolved, dep)
      PROVE  StagedConsent'
  <2>1. /\ staged'.gate = GateFor(staged'.contract) /\ UNCHANGED gate
    BY <1>2, AcceptanceAnswered DEF ConsentInv, AuthorityInv, SetAcceptance, files
  <2>2. staged'.gate.lease = None
    BY <1>1, <2>1 DEF GateFor, Gate
  <2> QED
    BY <2>1, <2>2, OtherConsent
<1>3. ASSUME NEW scope \in Scopes, NEW vids \in SUBSET VerificationIds,
             NEW E \in EvidenceSets, gate.acc # None,
             RequestLease([acc |-> gate.acc, scope |-> scope, vids |-> vids,
                           evidence |-> E, claim |-> gate.acc.dep])
      PROVE  StagedConsent'
  <2> DEFINE r == [acc |-> gate.acc, scope |-> scope, vids |-> vids, evidence |-> E,
                   claim |-> gate.acc.dep]
  <2>1. r \in Request
    BY <1>3, RequestType DEF ConsentInv, AuthorityInv
  <2>2. RequestLease(r)
    BY <1>3
  <2> HIDE DEF r
  <2> QED
    BY <2>1, <2>2, RequestConsent
<1>4. CASE RenewRevokes
  <2>1. UNCHANGED gate /\ (todo' = {} \/ staged'.gate.lease = None)
    BY <1>1, <1>4, ZenonT(40) DEF RenewRevokes, Stage, OnDisk, LockFree, files, Gate
  <2> QED
    BY <2>1, OtherConsent
<1>5. ASSUME NEW now, RecordReceipt(now) PROVE StagedConsent'
  <2>1. UNCHANGED gate
    BY <1>5 DEF RecordReceipt, files
  <2>2. CASE ReceiptIsValid(now)
    <3>1. PICK phase : staged'.gate = [gate EXCEPT !.phase = phase]
      BY <1>5, <2>2 DEF RecordReceipt, Stage, OnDisk
    <3>2. staged'.gate.lease = gate.lease
      BY <1>1, <3>1 DEF Gate
    <3> QED
      BY <2>1, <3>2, OtherConsent
  <2>3. CASE ~ReceiptIsValid(now)
    BY <1>5, <2>1, <2>3, OtherConsent DEF RecordReceipt, LockFree
  <2> QED
    BY <2>2, <2>3
<1>6. ASSUME NEW now, CompleteTask(now) PROVE StagedConsent'
  <2>1. UNCHANGED gate /\ staged'.gate.lease = None
    BY <1>1, <1>6 DEF CompleteTask, Stage, OnDisk, files, Gate
  <2> QED
    BY <2>1, OtherConsent
<1>7. ASSUME ReadForRenewal \/ \E v \in VerificationIds : RunVerification(v)
      PROVE  StagedConsent'
  BY <1>7, KeptConsent DEF ReadForRenewal, RunVerification, files
<1> QED
  BY <1>2, <1>3, <1>4, <1>5, <1>6, <1>7, RequestConsent DEF Broker

LEMMA ConsentInductive ==
    /\ Init => ConsentInv
    /\ ConsentInv /\ [Next]_vars => ConsentInv'
<1>1. Init => ConsentInv
  BY AuthorityInductive DEF Init, ConsentInv, StagedConsent
<1>2. ConsentInv /\ [Next]_vars => AuthorityInv'
  BY AuthorityInductive DEF ConsentInv
<1>3. ASSUME ConsentInv, NEW f \in FileNames, WriteFile(f) PROVE StagedConsent'
  <2>1. /\ todo' = todo \ {f} /\ (todo' # {} => UNCHANGED <<staged, hook>>)
        /\ f # "gate" => UNCHANGED gate
    BY <1>3 DEF WriteFile
  <2> QED
    BY <1>3, <2>1 DEF ConsentInv, StagedConsent, Eligible, Approved
<1>4. ASSUME ConsentInv, WriteFails \/ Killed PROVE StagedConsent'
  <2>1. todo' = {} \/ (~HookHoldsLock /\ UNCHANGED <<gate, todo, staged>>)
    BY <1>4 DEF WriteFails, Killed, Stage, files
  <2> QED
    BY <1>4, <2>1, KeptConsent DEF StagedConsent
<1>5. ASSUME ConsentInv, World \/ UNCHANGED vars PROVE StagedConsent'
  <2>1. UNCHANGED <<gate, todo, staged, hook>>
    BY <1>5 DEF World, AllowNativeWrite, NativeWrite, EditFile, ChangePolicy, Tick, vars, files
  <2> QED
    BY <1>5, <2>1, KeptConsent
<1>6. ConsentInv /\ [Next]_vars => StagedConsent'
  BY <1>3, <1>4, <1>5, TurnConsent, HookStepConsent, BrokerConsent DEF Next, Write
<1> QED
  BY <1>1, <1>2, <1>6 DEF ConsentInv

(* A lease that appears in gate-state.json was eligible for automatic      *)
(* approval or is, field by field, the proposal the user's turn has read.  *)
THEOREM LeasesHaveConsent == Spec => LeaseNeedsConsent
<1>1. ASSUME ConsentInv, [Next]_vars, gate.lease' # None, gate.lease' # gate.lease
      PROVE  \/ /\ AutoApprove /\ gate'.acc.risk = "low" /\ gate'.lease.scope \in AutoScopes
             \/ /\ hook.st = "issuing"
                /\ hook.seen.acc = gate'.lease.acc
                /\ hook.seen.scope = gate'.lease.scope
                /\ hook.seen.vids = gate'.lease.vids
                /\ hook.seen.evidence = gate'.lease.evidence
  <2>1. PICK f \in FileNames : WriteFile(f)
    BY <1>1, ZenonT(40) DEF Next, Turn, RecordPrompt, RejectPrompt, ReadApproved, HookStep,
       RevokeAfterFailure, ReportReturns, IssueApproved, RefuseApproval, MarkRead,
       MarkWrite, Broker, SetAcceptance, RequestLease, ReadForRenewal, RenewRevokes,
       RenewRequests, RunVerification, RecordReceipt, CompleteTask, World,
       AllowNativeWrite, NativeWrite, EditFile, ChangePolicy, Tick, Write, WriteFails,
       Killed, vars, files
  <2>2. f = "gate" /\ "gate" \in todo /\ gate' = staged.gate
    BY <1>1, <2>1 DEF WriteFile
  <2> QED
    BY <1>1, <2>2 DEF ConsentInv, StagedConsent, Eligible, Approved
<1>2. ConsentInv /\ [Next]_vars =>
        [gate.lease' # None /\ gate.lease' # gate.lease =>
            \/ /\ AutoApprove /\ gate'.acc.risk = "low" /\ gate'.lease.scope \in AutoScopes
            \/ /\ hook.st = "issuing"
               /\ hook.seen.acc = gate'.lease.acc
               /\ hook.seen.scope = gate'.lease.scope
               /\ hook.seen.vids = gate'.lease.vids
               /\ hook.seen.evidence = gate'.lease.evidence]_vars
  BY <1>1
<1>3. Spec => []ConsentInv
  BY ConsentInductive, PTL DEF Spec
<1> QED
  BY <1>2, <1>3, PTL DEF Spec, LeaseNeedsConsent

-----------------------------------------------------------------------------
(* The write lifecycle implements WriteAuthority: the lock, the files      *)
(* replaced one after the other, failed writes and kills included.         *)

(* A lease that is about to be written rests on the acceptance the gate    *)
(* state has now; a completion is about its lease and acceptance, and of a *)
(* time in the lease's term.                                               *)
LeaseBound ==
    todo # {} /\ staged.gate.lease # None => staged.gate.acc = gate.acc
CompletionBound ==
    "completion" \in todo =>
        /\ gate.lease # None
        /\ staged.completion \in Completion
        /\ staged.completion.lease = gate.lease.id
        /\ staged.completion.acc = gate.acc
        /\ gate.lease.issued <= staged.completion.at
        /\ staged.completion.at < gate.lease.issued + LeaseTerm
        /\ staged.completion.at <= clock
BoundInv == AuthorityInv /\ LeaseBound /\ CompletionBound

(* What each step must do: keep the two, and be a step or a stutter of the *)
(* abstract authority.                                                     *)
Simulated ==
    LeaseBound' /\ CompletionBound' /\ (Authority!Next \/ UNCHANGED Authority!vars)

(* A lease in force is one of the terms that bind.                         *)
LEMMA LeaseHasTerms ==
    ASSUME AuthorityInv, gate.lease # None
    PROVE  gate.lease.acc = TermsOf /\ TermsOf = gate.acc
  BY DEF AuthorityInv, FilesSound, GateSound, Rests, TermsOf

-----------------------------------------------------------------------------
(* The lifecycle's steps, as the abstract authority sees them.             *)

(* Nothing the authority is about changes.                                 *)
LEMMA QuietSimulated ==
    ASSUME BoundInv, UNCHANGED <<gate, completion, todo, staged, tool, clock, leases>>
    PROVE  Simulated
<1>1. UNCHANGED Authority!vars
  BY DEF Authority!vars, TermsOf, OfferOf
<1> QED
  BY <1>1 DEF Simulated, BoundInv, LeaseBound, CompletionBound

(* The lock is released and what was staged is lost.                       *)
LEMMA LostSimulated ==
    ASSUME UNCHANGED <<gate, completion, tool, clock, leases>>, todo' = {}
    PROVE  Simulated
<1>1. OfferOf' = None
  BY DEF OfferOf
<1>2. Authority!Withdraw
  BY <1>1 DEF Authority!Withdraw, TermsOf
<1> QED
  BY <1>2 DEF Simulated, LeaseBound, CompletionBound, Authority!Next

(* A handler stages its files: none of them is written yet, and none of    *)
(* them gives a lease where there is none.                                 *)
LEMMA StageSimulated ==
    ASSUME UNCHANGED <<gate, completion, tool, clock, leases>>, LockFree,
           staged'.gate.lease # None => gate.lease # None /\ staged'.gate.acc = gate.acc,
           CompletionBound'
    PROVE  Simulated
<1>1. OfferOf = None /\ OfferOf' = None
  BY DEF OfferOf, LockFree
<1>2. UNCHANGED Authority!vars
  BY <1>1 DEF Authority!vars, TermsOf
<1> QED
  BY <1>2 DEF Simulated, LeaseBound

(* A request that is granted offers its lease.                             *)
LEMMA ProposeSimulated ==
    ASSUME BoundInv, LockFree, NEW r \in Request, NEW force,
           NEW now \in 0 .. clock, NEW by \in {"hook", "renew", "broker"},
           RequestIsValid(r), Propose(r, force, by, now),
           UNCHANGED <<gate, contract, completion, tool, clock>>
    PROVE  Simulated
<1>0. now \in Nat /\ now <= clock
  BY DEF BoundInv, AuthorityInv, TypeInv, TypeOK
<1>1. /\ gate \in Gate /\ gate.lease = None /\ contract = gate.acc /\ r.acc = gate.acc
      /\ gate.acc # None /\ gate.acc.status = "accepted" /\ r.scope \in SUBSET Files
  BY DEF BoundInv, AuthorityInv, TypeInv, TypeOK, RequestIsValid, ContractIsCurrent, Request
<1>2. "completion" \notin todo'
  BY DEF Propose, Stage, IssueFiles
<1>3. CASE ShouldIssue(r, force)
  <2> DEFINE g == [gate EXCEPT !.acc = r.acc, !.phase = "implementing",
                               !.base = ObserveOutside(r.scope),
                               !.evidence = Capture(r.evidence), !.lease = LeaseOf(r, now)]
  <2>0. "gate" \in todo' /\ leases' = leases + 1 /\ staged'.gate = g
    BY <1>3 DEF Propose, Stage, OnDisk, IssueFiles
  <2>1. /\ "gate" \in todo' /\ leases' = leases + 1
        /\ staged'.gate.lease = LeaseOf(r, now) /\ staged'.gate.acc = gate.acc
    BY <1>1, <2>0 DEF Gate
  <2>3. /\ OfferOf' = LeaseOf(r, now) /\ LeaseOf(r, now) \in Lease
        /\ LeaseOf(r, now).id = leases' /\ LeaseOf(r, now).acc = TermsOf
        /\ LeaseOf(r, now).scope = r.scope /\ LeaseOf(r, now).issued <= clock
    BY <1>0, <1>1, <2>1, LeaseOfType DEF OfferOf, LeaseOf, TermsOf, BoundInv, AuthorityInv, TypeInv
  <2>4. OfferOf = None /\ TermsOf # None /\ gate.lease = None
    BY <1>1 DEF OfferOf, LockFree, TermsOf
  <2>5. UNCHANGED <<TermsOf, gate.lease>>
    BY DEF TermsOf
  <2>6. Authority!Offer
    BY <1>1, <2>1, <2>3, <2>4, <2>5 DEF Authority!Offer
  <2> QED
    BY <1>2, <2>1, <2>6 DEF Simulated, LeaseBound, CompletionBound, Authority!Next
<1>4. CASE ~ShouldIssue(r, force)
  <2>1. leases' = leases /\ staged'.gate = gate
    BY <1>4 DEF Propose, Stage, OnDisk
  <2> QED
    BY <1>1, <1>2, <2>1, StageSimulated DEF CompletionBound
<1> QED
  BY <1>3, <1>4

(* One file replaced.  Only gate-state.json and the completion receipt     *)
(* matter: the first ends, keeps or issues a lease, the second completes.  *)
LEMMA WriteSimulated ==
    ASSUME BoundInv, NEW f \in FileNames, WriteFile(f)
    PROVE  Simulated
<1>1. /\ f \in todo /\ todo' = todo \ {f} /\ (todo' # {} => staged' = staged)
      /\ gate' = IF f = "gate" THEN staged.gate ELSE gate
      /\ completion' = IF f = "completion" THEN staged.completion ELSE completion
      /\ \A g \in todo : Rank[f] <= Rank[g]
      /\ UNCHANGED <<tool, clock, leases>>
  BY DEF WriteFile, bounds
<1>2. /\ todo # {} /\ gate \in Gate /\ GateSound(gate) /\ GateSound(staged.gate)
      /\ gate.lease = None \/ staged.gate.lease \in {None, gate.lease}
      /\ staged.gate \in Gate
  BY <1>1 DEF BoundInv, AuthorityInv, TypeInv, TypeOK, Staged, FilesSound, StagedSound
<1>3. f = "gate" => "completion" \notin todo
  BY <1>1 DEF Rank
<1>4. /\ staged.gate.lease # None => staged.gate.acc = gate.acc
      /\ "completion" \in todo => /\ gate.lease # None /\ staged.completion \in Completion
                                  /\ staged.completion.lease = gate.lease.id
                                  /\ staged.completion.acc = gate.acc
                                  /\ gate.lease.issued <= staged.completion.at
                                  /\ staged.completion.at < gate.lease.issued + LeaseTerm
                                  /\ staged.completion.at <= clock
  BY <1>1 DEF BoundInv, LeaseBound, CompletionBound
<1>5. LeaseBound' /\ CompletionBound'
  BY <1>1, <1>3, <1>4 DEF LeaseBound, CompletionBound
<1>6. CASE f = "completion"
  <2>1. gate' = gate /\ TermsOf' = TermsOf /\ OfferOf' = OfferOf
    BY <1>1, <1>4, <1>6 DEF TermsOf, OfferOf
  <2>2. gate.lease # None /\ gate.lease.acc = TermsOf /\ TermsOf = gate.acc
    BY LeaseHasTerms, <1>1, <1>4, <1>6 DEF BoundInv
  <2>3. Authority!Complete
    BY <1>1, <1>4, <1>6, <2>1, <2>2 DEF Authority!Complete
  <2> QED
    BY <1>5, <2>3 DEF Simulated, Authority!Next
<1>7. CASE f = "gate"
  <2>1. gate' = staged.gate /\ OfferOf' = None /\ completion' = completion
    BY <1>1, <1>7 DEF OfferOf
  <2>2. gate'.lease = staged.gate.lease
    BY <2>1
  <2>3. CASE gate.lease = None /\ staged.gate.lease # None
    <3>1. OfferOf = staged.gate.lease /\ gate.lease = None
      BY <1>1, <1>7, <2>3 DEF OfferOf
    <3>2. OfferOf # None
      BY <2>3, <3>1
    <3>3. TermsOf' = TermsOf
      BY <1>4, <2>1, <2>3 DEF TermsOf
    <3>4. Authority!Issue
      BY <1>1, <2>1, <2>2, <3>1, <3>2, <3>3 DEF Authority!Issue
    <3> QED
      BY <1>5, <3>4 DEF Simulated, Authority!Next
  <2>4. CASE staged.gate.lease = None
    <3>1. OfferOf = None /\ gate'.lease = None
      BY <2>2, <2>4 DEF OfferOf
    <3>2. TermsOf' \in Contract \cup {None}
      BY <1>2, <2>1 DEF TermsOf, Gate
    <3>3. Authority!Bind
      BY <1>1, <2>1, <3>1, <3>2 DEF Authority!Bind
    <3> QED
      BY <1>5, <3>3 DEF Simulated, Authority!Next
  <2>5. CASE gate.lease # None /\ staged.gate.lease = gate.lease
    <3>1. OfferOf = None /\ gate'.lease = gate.lease
      BY <2>2, <2>5 DEF OfferOf
    <3>2. TermsOf' = TermsOf
      BY <1>4, <2>1, <2>5 DEF TermsOf
    <3>3. UNCHANGED Authority!vars
      BY <1>1, <2>1, <3>1, <3>2 DEF Authority!vars
    <3> QED
      BY <1>5, <3>3 DEF Simulated
  <2> QED
    BY <1>2, <2>3, <2>4, <2>5
<1>8. CASE f \notin {"completion", "gate"}
  <2>1. UNCHANGED <<TermsOf, gate.lease, completion, OfferOf>>
    BY <1>1, <1>8 DEF TermsOf, OfferOf
  <2> QED
    BY <1>1, <1>5, <2>1 DEF Simulated, Authority!vars
<1> QED
  BY <1>6, <1>7, <1>8

LEMMA TurnSimulated ==
    ASSUME BoundInv, Turn
    PROVE  Simulated
<1>1. ASSUME NEW form \in Forms, NEW class \in Classes, NEW skips,
             RecordPrompt(form, class, skips)
      PROVE  Simulated
  <2>1. /\ LockFree /\ UNCHANGED <<gate, completion, tool, clock, leases>>
        /\ staged'.gate = GateFor(PromptContract(form, class, skips))
        /\ "completion" \notin todo'
    BY <1>1 DEF RecordPrompt, Stage, OnDisk, SidecarNames, files
  <2>2. staged'.gate.lease = None
    BY <2>1 DEF GateFor, BoundInv, AuthorityInv, TypeInv, TypeOK, Gate
  <2> QED
    BY <2>1, <2>2, StageSimulated DEF CompletionBound
<1>2. ASSUME RejectPrompt \/ \E via \in {"hook", "terminal"} : ReadApproved(via)
      PROVE  Simulated
  BY <1>2, QuietSimulated DEF RejectPrompt, ReadApproved, files
<1> QED
  BY <1>1, <1>2 DEF Turn

LEMMA HookStepSimulated ==
    ASSUME BoundInv, HookStep
    PROVE  Simulated
<1>1. CASE RevokeAfterFailure
  <2>1. CASE gate.lease = None
    BY <1>1, <2>1, QuietSimulated DEF RevokeAfterFailure, files, bounds
  <2>2. CASE gate.lease # None
    <3>1. /\ LockFree /\ UNCHANGED <<gate, completion, tool, clock, leases>>
          /\ staged'.gate = BlockedGate /\ "completion" \notin todo'
      BY <1>1, <2>2 DEF RevokeAfterFailure, Stage, OnDisk, files, bounds
    <3>2. BlockedGate.lease = None
      BY DEF BlockedGate, BoundInv, AuthorityInv, TypeInv, TypeOK, Gate
    <3> QED
      BY <3>1, <3>2, StageSimulated DEF CompletionBound
  <2> QED
    BY <2>1, <2>2
<1>2. CASE IssueApproved
  <2>1. RequestOf(hook.seen) \in Request
    BY <1>2, RequestOfType DEF IssueApproved, BoundInv, AuthorityInv, TypeInv, HookIsReady
  <2>2. /\ RequestIsValid(RequestOf(hook.seen)) /\ LockFree
        /\ UNCHANGED <<gate, contract, completion, tool, clock>>
    BY <1>2 DEF IssueApproved, ApprovalIsValid, files
  <2>3. hook.since \in Nat /\ clock \in Nat
    BY DEF BoundInv, AuthorityInv, TypeInv, TypeOK, Hook
  <2>4. PICK now \in hook.since .. clock : Propose(RequestOf(hook.seen), TRUE, "hook", now)
    BY <1>2 DEF IssueApproved
  <2>5. now \in 0 .. clock
    BY <2>3
  <2> QED
    BY <2>1, <2>2, <2>4, <2>5, ProposeSimulated
<1>3. CASE RefuseApproval \/ ReportReturns \/ MarkRead \/ MarkWrite
  BY <1>3, QuietSimulated DEF RefuseApproval, ReportReturns, MarkRead, MarkWrite, files, bounds
<1> QED
  BY <1>1, <1>2, <1>3 DEF HookStep

LEMMA RenewSimulated ==
    ASSUME BoundInv, RenewRevokes \/ RenewRequests
    PROVE  Simulated
<1>1. CASE RenewRevokes /\ RenewalIsValid
  <2> DEFINE g == [gate EXCEPT !.base = None, !.evidence = NoEvidence,
                               !.phase = ContractPhase(contract), !.lease = None]
  <2>1. /\ LockFree /\ UNCHANGED <<gate, completion, tool, clock, leases>>
        /\ staged'.gate = g /\ "completion" \notin todo'
    BY <1>1 DEF RenewRevokes, Stage, OnDisk, SidecarNames, files, bounds
  <2>2. g.lease = None
    BY DEF BoundInv, AuthorityInv, TypeInv, TypeOK, Gate
  <2> HIDE DEF g
  <2> QED
    BY <2>1, <2>2, StageSimulated DEF CompletionBound
<1>2. CASE RenewRevokes /\ ~RenewalIsValid
  BY <1>2, QuietSimulated DEF RenewRevokes, files, bounds
<1>3. CASE RenewRequests
  <2>1. /\ renewal.request \in Request /\ LockFree
        /\ renewal.since \in Nat /\ clock \in Nat
    BY <1>3 DEF RenewRequests, BoundInv, AuthorityInv, TypeInv, TypeOK, Renewal
  <2>2. CASE RequestIsValid(renewal.request)
    <3>1. PICK now \in renewal.since .. clock :
              Propose(renewal.request, FALSE, "broker", now)
      BY <1>3, <2>2 DEF RenewRequests
    <3>2. now \in 0 .. clock
      BY <2>1
    <3> QED
      BY <1>3, <2>1, <2>2, <3>1, <3>2, ProposeSimulated DEF RenewRequests, files
  <2>3. CASE ~RequestIsValid(renewal.request)
    BY <1>3, <2>3, QuietSimulated DEF RenewRequests, files
  <2> QED
    BY <2>2, <2>3
<1> QED
  BY <1>1, <1>2, <1>3

LEMMA VerificationSimulated ==
    ASSUME BoundInv, NEW now \in 0 .. clock, RecordReceipt(now) \/ CompleteTask(now)
    PROVE  Simulated
<1>1. gate \in Gate
  BY DEF BoundInv, AuthorityInv, TypeInv, TypeOK
<1>2. CASE RecordReceipt(now) /\ ReceiptIsValid(now)
  <2>1. PICK phase : staged'.gate = [gate EXCEPT !.phase = phase]
    BY <1>2 DEF RecordReceipt, Stage, OnDisk
  <2>2. staged'.gate.lease = gate.lease /\ staged'.gate.acc = gate.acc
    BY <1>1, <2>1 DEF Gate
  <2>3. /\ LockFree /\ UNCHANGED <<gate, completion, tool, clock, leases>>
        /\ "completion" \notin todo'
    BY <1>2 DEF RecordReceipt, Stage, files, bounds
  <2> QED
    BY <2>2, <2>3, StageSimulated DEF CompletionBound
<1>3. CASE RecordReceipt(now) /\ ~ReceiptIsValid(now)
  BY <1>3, QuietSimulated DEF RecordReceipt, files, bounds
<1>4. CASE CompleteTask(now)
  <2>1. /\ LockFree /\ gate.lease # None
        /\ UNCHANGED <<gate, completion, tool, clock, leases>>
        /\ staged'.gate = [gate EXCEPT !.phase = "complete", !.lease = None]
        /\ staged'.completion = [task |-> gate.task, lease |-> gate.lease.id, acc |-> gate.acc,
                                 content |-> ObserveScope(gate.lease.scope), at |-> now]
    BY <1>4 DEF CompleteTask, Stage, OnDisk, files, bounds
  <2>2. staged'.gate.lease = None
    BY <1>1, <2>1 DEF Gate
  <2>3. now \in Nat /\ now <= clock
    BY DEF BoundInv, AuthorityInv, TypeInv, TypeOK
  <2>4. staged'.completion \in Completion
    BY <1>1, <2>1, <2>3, ObservationType DEF BoundInv, AuthorityInv, TypeInv, TypeOK,
       Completion, Lease, Gate
  <2>5. gate.lease.issued <= now /\ now < gate.lease.issued + LeaseTerm
    BY <1>4 DEF CompleteTask, Attested, LeaseInTime
  <2> QED
    BY <2>1, <2>2, <2>3, <2>4, <2>5, StageSimulated DEF CompletionBound
<1> QED
  BY <1>2, <1>3, <1>4

LEMMA BrokerSimulated ==
    ASSUME BoundInv, Broker
    PROVE  Simulated
<1>1. ASSUME NEW criterion \in Criteria, NEW resolved \in SUBSET gate.pending,
             NEW dep \in BOOLEAN, SetAcceptance(criterion, resolved, dep)
      PROVE  Simulated
  <2>1. /\ staged'.contract \in Contract /\ Answered(staged'.contract)
        /\ staged'.gate = GateFor(staged'.contract)
    BY <1>1, AcceptanceAnswered DEF BoundInv, AuthorityInv
  <2>2. staged'.gate.lease = None
    BY <2>1, GateForSound DEF BoundInv, AuthorityInv
  <2>3. /\ LockFree /\ UNCHANGED <<gate, completion, tool, clock, leases>>
        /\ "completion" \notin todo'
    BY <1>1 DEF SetAcceptance, Stage, files, bounds
  <2> QED
    BY <2>2, <2>3, StageSimulated DEF CompletionBound
<1>2. ASSUME NEW scope \in Scopes, NEW vids \in SUBSET VerificationIds,
             NEW E \in EvidenceSets, gate.acc # None,
             RequestLease([acc |-> gate.acc, scope |-> scope, vids |-> vids,
                           evidence |-> E, claim |-> gate.acc.dep])
      PROVE  Simulated
  <2> DEFINE r == [acc |-> gate.acc, scope |-> scope, vids |-> vids, evidence |-> E,
                   claim |-> gate.acc.dep]
  <2>1. r \in Request
    BY <1>2, RequestType DEF BoundInv, AuthorityInv
  <2>2. /\ RequestIsValid(r) /\ \E now \in 0 .. clock : Propose(r, FALSE, "broker", now)
        /\ LockFree /\ UNCHANGED <<gate, contract, completion, tool, clock>>
    BY <1>2 DEF RequestLease, files
  <2> HIDE DEF r
  <2> QED
    BY <2>1, <2>2, ProposeSimulated
<1>3. ASSUME ReadForRenewal \/ \E v \in VerificationIds : RunVerification(v)
      PROVE  Simulated
  BY <1>3, QuietSimulated DEF ReadForRenewal, RunVerification, files, bounds
<1> QED
  BY <1>1, <1>2, <1>3, RenewSimulated, VerificationSimulated DEF Broker

(* A native write begins under the lease in force, or is done; time passes.*)
LEMMA WorldSimulated ==
    ASSUME BoundInv, World
    PROVE  Simulated
<1>0. /\ clock \in Nat
      /\ "completion" \in todo => staged.completion.at \in Nat
  BY DEF BoundInv, AuthorityInv, TypeInv, TypeOK, CompletionBound, Completion
<1>1. ASSUME UNCHANGED <<gate, completion, todo, staged, leases>>,
             clock' \in {clock, clock + 1}
      PROVE  /\ LeaseBound' /\ CompletionBound'
             /\ UNCHANGED <<TermsOf, OfferOf, gate.lease, completion, leases>>
  BY <1>0, <1>1 DEF BoundInv, LeaseBound, CompletionBound, TermsOf, OfferOf
<1>2. ASSUME NEW f \in Files, AllowNativeWrite(f)
      PROVE  Simulated
  <2>1. UNCHANGED <<gate, completion, todo, staged, leases, clock>>
    BY <1>2 DEF AllowNativeWrite, files, bounds
  <2>2. /\ tool = None /\ gate.lease # None /\ f \in gate.lease.scope
        /\ gate.lease.issued <= clock /\ clock < gate.lease.issued + LeaseTerm
        /\ tool' = [file |-> f, lease |-> gate.lease.id]
    BY <1>2 DEF AllowNativeWrite, LeaseIsUsable, LeaseInTime
  <2>3. gate.lease.acc = TermsOf
    BY <2>2, LeaseHasTerms DEF BoundInv
  <2>4. Authority!Begin
    BY <1>1, <2>1, <2>2, <2>3 DEF Authority!Begin
  <2> QED
    BY <1>1, <2>1, <2>4 DEF Simulated, Authority!Next
<1>3. ASSUME NEW c \in Contents, NativeWrite(c)
      PROVE  Simulated
  <2>1. UNCHANGED <<gate, completion, todo, staged, leases, clock>> /\ tool' = None
    BY <1>3 DEF NativeWrite, files, bounds
  <2>2. Authority!Finish
    BY <1>1, <2>1 DEF Authority!Finish
  <2> QED
    BY <1>1, <2>1, <2>2 DEF Simulated, Authority!Next
<1>4. CASE Tick
  <2>1. UNCHANGED <<gate, completion, todo, staged, leases, tool>> /\ clock' = clock + 1
    BY <1>4 DEF Tick, files
  <2>2. Authority!Tick
    BY <1>1, <2>1 DEF Authority!Tick
  <2> QED
    BY <1>1, <2>1, <2>2 DEF Simulated, Authority!Next
<1>5. ASSUME \/ \E f \in Files, c \in Contents : EditFile(f, c)
             \/ \E p \in Policies : ChangePolicy(p)
      PROVE  Simulated
  BY <1>5, QuietSimulated DEF EditFile, ChangePolicy, files, bounds
<1> QED
  BY <1>2, <1>3, <1>4, <1>5 DEF World

LEMMA FaultSimulated ==
    ASSUME BoundInv, WriteFails \/ Killed
    PROVE  Simulated
<1>1. /\ UNCHANGED <<gate, completion, tool, clock, leases>>
      /\ todo' = {} \/ UNCHANGED <<todo, staged>>
  BY DEF WriteFails, Killed, Stage, files
<1> QED
  BY <1>1, LostSimulated, QuietSimulated

-----------------------------------------------------------------------------
LEMMA BoundInductive ==
    /\ Init => BoundInv /\ Authority!Init
    /\ BoundInv /\ [Next]_vars =>
           BoundInv' /\ (Authority!Next \/ UNCHANGED Authority!vars)
<1>1. ASSUME Init PROVE BoundInv /\ Authority!Init
  <2>1. LeaseBound /\ CompletionBound
    BY <1>1 DEF Init, LeaseBound, CompletionBound
  <2>2. TermsOf = None /\ OfferOf = None
    BY <1>1 DEF Init, TermsOf, OfferOf
  <2>3. Authority!Init
    BY <1>1, <2>2 DEF Init, IdleHook, Authority!Init
  <2> QED
    BY <1>1, <2>1, <2>3, AuthorityInductive DEF BoundInv
<1>2. ASSUME BoundInv, [Next]_vars PROVE Simulated
  <2>1. CASE UNCHANGED vars
    BY <1>2, <2>1, QuietSimulated DEF vars, files, bounds
  <2>2. CASE Next
    BY <1>2, <2>2, TurnSimulated, HookStepSimulated, BrokerSimulated, WorldSimulated,
       WriteSimulated, FaultSimulated DEF Next, Write
  <2> QED
    BY <1>2, <2>1, <2>2
<1>3. BoundInv /\ [Next]_vars => AuthorityInv'
  BY AuthorityInductive DEF BoundInv
<1> QED
  BY <1>1, <1>2, <1>3 DEF BoundInv, Simulated

(* Every behaviour of the lifecycle, with any number of turns, brokers,    *)
(* failed writes and kills, is one of the abstract authority.              *)
THEOREM LifecycleImplements == Spec => ImplementsAuthority
<1>1. Spec => Authority!Spec
  BY BoundInductive, PTL DEF Spec, Authority!Spec
<1> QED
  BY <1>1 DEF ImplementsAuthority
=============================================================================
