----------------------- MODULE LeaseVerificationProofs -----------------------
(***************************************************************************)
(* What a receipt and a completion are worth, for any number of files,     *)
(* commands, leases and faults; and that a lease is used within its term.   *)
(***************************************************************************)
EXTENDS LeaseAuthorityProofs

(* What ReceiptsWereTested says, of any ledger.                            *)
LedgerSound(l) ==
    \A v \in VerificationIds :
        l.receipts[v] # None =>
            LET r == l.receipts[v]
            IN  /\ r.lease = l.lease
                /\ \A f \in DOMAIN r.content :
                       f \in DOMAIN r.tested /\ r.content[f] = r.tested[f]

(* A crash may leave a contract the gate state was not bound to.  While    *)
(* the gate state has a lease, such a contract has no acceptance or still  *)
(* has the plan the lease was issued under; complete_task, which does not  *)
(* compare the two, rests on this.                                         *)
PlanAgrees(g, c) ==
    g.lease # None /\ c # None /\ c.acceptance # None => c.plan = g.acc.plan

(* A completion about to be written is backed by the receipts on disk.     *)
Backed ==
    "completion" \in todo =>
        /\ "draft" \notin todo
        /\ gate.lease # None /\ staged.completion.lease = gate.lease.id
        /\ \A v \in gate.acc.plan.required :
               /\ ledger.receipts[v] # None
               /\ ledger.receipts[v].lease = gate.lease.id
               /\ ledger.receipts[v].content = staged.completion.content

ReceiptFiles == LedgerSound(ledger) /\ PlanAgrees(gate, contract)
ReceiptStaged ==
    todo # {} =>
        /\ LedgerSound(staged.ledger)
        /\ "contract" \in todo => PlanAgrees(gate, staged.contract)
        /\ "gate" \in todo => IF "contract" \in todo THEN staged.gate.lease = None
                              ELSE PlanAgrees(staged.gate, contract)
        /\ Backed
VerifiedInv == AuthorityInv /\ ReceiptFiles /\ ReceiptStaged

-----------------------------------------------------------------------------
LEMMA NoReceiptsSound == ASSUME NEW l, l.receipts = NoReceipts PROVE LedgerSound(l)
  BY DEF LedgerSound, NoReceipts

(* A handler that stages its files, without writing any yet.               *)
LEMMA ReceiptStage ==
    ASSUME VerifiedInv, UNCHANGED <<gate, contract, ledger>>,
           LedgerSound(staged'.ledger), "completion" \notin todo',
           "contract" \in todo' => /\ PlanAgrees(gate, staged'.contract)
                                   /\ staged'.gate.lease = None,
           "gate" \in todo' /\ "contract" \notin todo' => PlanAgrees(staged'.gate, contract)
    PROVE  ReceiptFiles' /\ ReceiptStaged'
  BY DEF VerifiedInv, ReceiptFiles, ReceiptStaged, LedgerSound, PlanAgrees, Backed

LEMMA ReceiptQuiet ==
    ASSUME VerifiedInv, UNCHANGED <<gate, contract, ledger>>,
           todo' = {} \/ UNCHANGED <<todo, staged>>
    PROVE  ReceiptFiles' /\ ReceiptStaged'
  BY DEF VerifiedInv, ReceiptFiles, ReceiptStaged, LedgerSound, PlanAgrees, Backed

(* One file replaced.  The completion is the first file of its handler, so *)
(* what backs it has not changed when it is written.                       *)
LEMMA ReceiptWrite ==
    ASSUME VerifiedInv, NEW f \in FileNames, WriteFile(f)
    PROVE  ReceiptFiles' /\ ReceiptStaged'
<1>1. /\ f \in todo /\ todo' = todo \ {f} /\ (todo' # {} => staged' = staged)
      /\ gate' = IF f = "gate" THEN staged.gate ELSE gate
      /\ contract' = IF f = "contract" THEN staged.contract ELSE contract
      /\ ledger' = IF f = "ledger" THEN staged.ledger ELSE ledger
      /\ \A g \in todo : Rank[f] <= Rank[g]
  BY DEF WriteFile
<1>2. ReceiptFiles /\ ReceiptStaged /\ todo # {}
  BY <1>1 DEF VerifiedInv
<1>3. f = "gate" => "contract" \notin todo
  BY <1>1 DEF Rank
<1>4. "completion" \in todo => f = "completion"
  <2>1. "completion" \in todo => Rank[f] <= 2 /\ f # "draft"
    BY <1>1, <1>2 DEF Rank, ReceiptStaged, Backed
  <2> QED
    BY <2>1 DEF Rank, FileNames
<1>5. LedgerSound(ledger') /\ (todo' # {} => LedgerSound(staged'.ledger))
  BY <1>1, <1>2 DEF ReceiptFiles, ReceiptStaged
<1>6. PlanAgrees(gate', contract')
  BY <1>1, <1>2, <1>3 DEF ReceiptFiles, ReceiptStaged
<1>7. todo' # {} => /\ "contract" \in todo' => PlanAgrees(gate', staged'.contract)
                    /\ "gate" \in todo' => IF "contract" \in todo'
                                           THEN staged'.gate.lease = None
                                           ELSE PlanAgrees(staged'.gate, contract')
  BY <1>1, <1>2, <1>3 DEF ReceiptStaged, PlanAgrees
<1>8. "completion" \notin todo'
  BY <1>1, <1>4
<1> QED
  BY <1>5, <1>6, <1>7, <1>8 DEF ReceiptFiles, ReceiptStaged, LedgerSound, PlanAgrees, Backed

(* A prompt's contract keeps the plan of the one it revises.               *)
LEMMA PromptPlan ==
    ASSUME TypeInv, NEW form \in Forms, NEW class, NEW skips
    PROVE  PlanAgrees(gate, PromptContract(form, class, skips))
<1> DEFINE c == PromptContract(form, class, skips)
<1>1. CASE KeepsTask(form)
  <2>1. contract \in Contract /\ contract = gate.acc
    BY <1>1 DEF KeepsTask, ContractIsCurrent, TypeInv, TypeOK
  <2>2. PICK kind, material : c = Revise(kind, material, skips)
    BY <1>1 DEF PromptContract
  <2>3. c.plan = contract.plan
    BY <2>1, <2>2 DEF Revise, Contract
  <2> QED
    BY <2>1, <2>3 DEF PlanAgrees
<1>2. CASE ~KeepsTask(form)
  BY <1>2 DEF PromptContract, NewContract, PlanAgrees
<1> QED
  BY <1>1, <1>2

LEMMA ReceiptTurn ==
    ASSUME VerifiedInv, Turn
    PROVE  ReceiptFiles' /\ ReceiptStaged'
<1>1. ASSUME NEW form \in Forms, NEW class \in Classes, NEW skips,
             RecordPrompt(form, class, skips)
      PROVE  ReceiptFiles' /\ ReceiptStaged'
  <2> DEFINE c == PromptContract(form, class, skips)
  <2>1. PlanAgrees(gate, c)
    BY PromptPlan DEF VerifiedInv, AuthorityInv
  <2>2. /\ staged'.gate = GateFor(c) /\ staged'.contract = c
        /\ staged'.ledger = ResetLedger(c.task)
        /\ "completion" \notin todo' /\ "contract" \in todo'
        /\ UNCHANGED <<gate, contract, ledger>>
    BY <1>1 DEF RecordPrompt, Stage, OnDisk, SidecarNames, files
  <2> HIDE DEF c
  <2>3. GateFor(c).lease = None
    BY DEF GateFor, VerifiedInv, AuthorityInv, TypeInv, TypeOK, Gate
  <2>4. LedgerSound(staged'.ledger)
    BY <2>2, NoReceiptsSound DEF ResetLedger
  <2> QED
    BY <2>1, <2>2, <2>3, <2>4, ReceiptStage
<1>2. ASSUME RejectPrompt \/ \E via \in {"hook", "terminal"} : ReadApproved(via)
      PROVE  ReceiptFiles' /\ ReceiptStaged'
  BY <1>2, ReceiptQuiet DEF RejectPrompt, ReadApproved, files
<1> QED
  BY <1>1, <1>2 DEF Turn

(* What proposing stages agrees with the contract the request was checked  *)
(* against, and its ledger is the old one or empty.                        *)
LEMMA ReceiptPropose ==
    ASSUME VerifiedInv, NEW r \in Request, NEW force, NEW by, NEW now,
           RequestIsValid(r), Propose(r, force, by, now), UNCHANGED files
    PROVE  ReceiptFiles' /\ ReceiptStaged'
<1>1. gate \in Gate /\ contract = gate.acc /\ r.acc = gate.acc
  BY DEF VerifiedInv, AuthorityInv, TypeInv, TypeOK, RequestIsValid, ContractIsCurrent
<1>2. CASE ShouldIssue(r, force)
  <2> DEFINE g == [gate EXCEPT !.acc = r.acc, !.phase = "implementing",
                               !.base = ObserveOutside(r.scope),
                               !.evidence = Capture(r.evidence), !.lease = LeaseOf(r, now)]
             l == [task |-> gate.task, lease |-> leases + 1, receipts |-> NoReceipts]
  <2>1. todo' = IssueFiles /\ staged'.gate = g /\ staged'.ledger = l
    BY <1>2 DEF Propose, Stage, OnDisk
  <2>2. g.acc = contract /\ l.receipts = NoReceipts
    BY <1>1 DEF Gate
  <2> HIDE DEF g, l
  <2>3. "completion" \notin todo' /\ "contract" \notin todo'
    BY <2>1 DEF IssueFiles
  <2>4. LedgerSound(staged'.ledger)
    BY <2>1, <2>2, NoReceiptsSound
  <2> QED
    BY <2>1, <2>2, <2>3, <2>4, ReceiptStage DEF PlanAgrees, files
<1>3. CASE ~ShouldIssue(r, force)
  <2>1. todo' = {"proposal"} /\ staged'.ledger = ledger
    BY <1>3 DEF Propose, Stage, OnDisk
  <2> QED
    BY <2>1, ReceiptStage DEF VerifiedInv, ReceiptFiles, files
<1> QED
  BY <1>2, <1>3

LEMMA ReceiptHookStep ==
    ASSUME VerifiedInv, HookStep
    PROVE  ReceiptFiles' /\ ReceiptStaged'
<1>1. CASE RevokeAfterFailure
  <2>1. CASE gate.lease = None
    BY <1>1, <2>1, ReceiptQuiet DEF RevokeAfterFailure, files
  <2>2. CASE gate.lease # None
    <3>1. /\ todo' = {"gate", "ledger"} /\ staged'.gate = BlockedGate
          /\ staged'.ledger = ResetLedger(gate.task)
          /\ UNCHANGED <<gate, contract, ledger>>
      BY <1>1, <2>2 DEF RevokeAfterFailure, Stage, OnDisk, files
    <3>2. BlockedGate.lease = None
      BY DEF BlockedGate, VerifiedInv, AuthorityInv, TypeInv, TypeOK, Gate
    <3>3. LedgerSound(staged'.ledger)
      BY <3>1, NoReceiptsSound DEF ResetLedger
    <3> QED
      BY <3>1, <3>2, <3>3, ReceiptStage DEF PlanAgrees
  <2> QED
    BY <2>1, <2>2
<1>2. CASE IssueApproved
  <2>1. RequestOf(hook.seen) \in Request
    BY <1>2, RequestOfType DEF IssueApproved, VerifiedInv, AuthorityInv, TypeInv, HookIsReady
  <2> QED
    BY <1>2, <2>1, ReceiptPropose DEF IssueApproved, ApprovalIsValid
<1>3. CASE RefuseApproval \/ ReportReturns \/ MarkRead \/ MarkWrite
  BY <1>3, ReceiptQuiet DEF RefuseApproval, ReportReturns, MarkRead, MarkWrite, files
<1> QED
  BY <1>1, <1>2, <1>3 DEF HookStep

LEMMA ReceiptRenew ==
    ASSUME VerifiedInv, RenewRevokes \/ RenewRequests
    PROVE  ReceiptFiles' /\ ReceiptStaged'
<1>1. CASE RenewRevokes
  <2>1. CASE RenewalIsValid
    <3>1. /\ "completion" \notin todo' /\ "contract" \notin todo'
          /\ staged'.gate = [gate EXCEPT !.base = None, !.evidence = NoEvidence,
                                 !.phase = ContractPhase(contract), !.lease = None]
          /\ staged'.ledger = ResetLedger(gate.task)
          /\ UNCHANGED <<gate, contract, ledger>>
      BY <1>1, <2>1 DEF RenewRevokes, Stage, OnDisk, SidecarNames, files
    <3>2. staged'.gate.lease = None
      BY <3>1 DEF VerifiedInv, AuthorityInv, TypeInv, TypeOK, Gate
    <3>3. LedgerSound(staged'.ledger)
      BY <3>1, NoReceiptsSound DEF ResetLedger
    <3> QED
      BY <3>1, <3>2, <3>3, ReceiptStage DEF PlanAgrees
  <2>2. CASE ~RenewalIsValid
    BY <1>1, <2>2, ReceiptQuiet DEF RenewRevokes, files
  <2> QED
    BY <2>1, <2>2
<1>2. CASE RenewRequests
  <2>1. renewal.request \in Request
    BY <1>2 DEF RenewRequests, VerifiedInv, AuthorityInv, TypeInv, TypeOK, Renewal
  <2>2. CASE RequestIsValid(renewal.request)
    BY <1>2, <2>1, <2>2, ReceiptPropose DEF RenewRequests
  <2>3. CASE ~RequestIsValid(renewal.request)
    BY <1>2, <2>3, ReceiptQuiet DEF RenewRequests, files
  <2> QED
    BY <2>2, <2>3
<1> QED
  BY <1>1, <1>2

(* record_verification_receipt: the receipt names the bytes that were in   *)
(* the snapshot, and the ledger it joins is the lease's own.               *)
LEMMA ReceiptRecord ==
    ASSUME VerifiedInv, NEW now, RecordReceipt(now)
    PROVE  ReceiptFiles' /\ ReceiptStaged'
<1>1. gate \in Gate /\ ledger \in Ledger /\ run \in Run
  BY DEF VerifiedInv, AuthorityInv, TypeInv, TypeOK, RecordReceipt
<1>2. CASE ReceiptIsValid(now)
  <2> DEFINE content == ObserveScope(gate.lease.scope)
             new == [lease |-> gate.lease.id, content |-> content, at |-> now,
                     tested |-> run.snapshot]
             receipts == [ledger.receipts EXCEPT ![run.id] = new]
             l == [ledger EXCEPT !.receipts = receipts]
  <2>1. PICK phase : staged'.gate = [gate EXCEPT !.phase = phase]
    BY <1>2 DEF RecordReceipt, Stage, OnDisk
  <2>2. staged'.gate.lease = gate.lease /\ staged'.gate.acc = gate.acc
    BY <1>1, <2>1 DEF Gate
  <2>3. /\ todo' = {"gate", "ledger"} /\ staged'.ledger = l
        /\ UNCHANGED <<gate, contract, ledger>>
    BY <1>2 DEF RecordReceipt, Stage, OnDisk, files
  <2>4. content = RunContent /\ ledger.lease = gate.lease.id
    BY <1>2 DEF ReceiptIsValid, LedgerIsCurrent
  <2>5. \A f \in DOMAIN content : f \in DOMAIN run.snapshot /\ content[f] = run.snapshot[f]
    BY <2>4 DEF RunContent
  <2>6. /\ l.lease = ledger.lease /\ run.id \in VerificationIds
        /\ \A v \in VerificationIds :
               l.receipts[v] = IF v = run.id THEN new ELSE ledger.receipts[v]
    BY <1>1 DEF Ledger, Run
  <2> HIDE DEF content, l
  <2>7. LedgerSound(l)
    <3>1. LedgerSound(ledger)
      BY DEF VerifiedInv, ReceiptFiles
    <3> QED
      BY <2>4, <2>5, <2>6, <3>1 DEF LedgerSound
  <2>8. PlanAgrees(staged'.gate, contract)
    BY <2>2 DEF VerifiedInv, ReceiptFiles, PlanAgrees
  <2> QED
    BY <2>3, <2>7, <2>8, ReceiptStage
<1>3. CASE ~ReceiptIsValid(now)
  BY <1>3, ReceiptQuiet DEF RecordReceipt, files
<1> QED
  BY <1>2, <1>3

(* complete_task: the plan it builds again is the contract's, and the      *)
(* contract's is the one the gate state's acceptance has.                  *)
LEMMA ReceiptComplete ==
    ASSUME VerifiedInv, NEW now, CompleteTask(now)
    PROVE  ReceiptFiles' /\ ReceiptStaged'
<1> DEFINE required == proposal.material.vids
           content == ObserveScope(gate.lease.scope)
           done == [task |-> gate.task, lease |-> gate.lease.id, acc |-> gate.acc,
                    content |-> content, at |-> now]
           g == [gate EXCEPT !.phase = "complete", !.lease = None]
<1>1. /\ todo' = {"completion", "gate", "proposal"}
      /\ staged'.completion = done /\ staged'.gate = g /\ staged'.ledger = ledger
      /\ UNCHANGED <<gate, contract, ledger>>
  BY DEF CompleteTask, Stage, OnDisk, files
<1>2. /\ gate.lease # None /\ PlanIsCurrent(required)
      /\ ReceiptsProve(required, content)
  BY DEF CompleteTask
<1>3. g.lease = None
  BY DEF VerifiedInv, AuthorityInv, TypeInv, TypeOK, Gate
<1>4. done.lease = gate.lease.id /\ done.content = content
  OBVIOUS
<1> HIDE DEF required, content, done, g
<1>5. contract.plan.required \subseteq required /\ contract.plan = gate.acc.plan
  BY <1>2 DEF PlanIsCurrent, VerifiedInv, ReceiptFiles, PlanAgrees
<1>6. \A v \in gate.acc.plan.required :
          /\ ledger.receipts[v] # None
          /\ ledger.receipts[v].lease = gate.lease.id
          /\ ledger.receipts[v].content = content
  BY <1>2, <1>5 DEF ReceiptsProve
<1>7. Backed'
  BY <1>1, <1>2, <1>4, <1>6 DEF Backed
<1>8. ReceiptFiles /\ LedgerSound(ledger)
  BY DEF VerifiedInv, ReceiptFiles
<1> QED
  BY <1>1, <1>3, <1>7, <1>8 DEF ReceiptFiles, ReceiptStaged, LedgerSound, PlanAgrees

LEMMA ReceiptBroker ==
    ASSUME VerifiedInv, Broker
    PROVE  ReceiptFiles' /\ ReceiptStaged'
<1>1. ASSUME NEW criterion \in Criteria, NEW resolved \in SUBSET gate.pending,
             NEW dep \in BOOLEAN, SetAcceptance(criterion, resolved, dep)
      PROVE  ReceiptFiles' /\ ReceiptStaged'
  <2>1. /\ staged'.contract \in Contract
        /\ staged'.gate = GateFor(staged'.contract)
    BY <1>1, AcceptanceAnswered DEF VerifiedInv, AuthorityInv
  <2>2. staged'.gate.lease = None
    BY <2>1 DEF GateFor, VerifiedInv, AuthorityInv, TypeInv, TypeOK, Gate
  <2>3. /\ todo' = {"contract", "gate"} /\ gate.lease = None
        /\ UNCHANGED <<gate, contract, ledger>>
    BY <1>1 DEF SetAcceptance, Stage, files
  <2>4. staged'.ledger = ledger
    BY <1>1 DEF SetAcceptance, Stage, OnDisk
  <2> QED
    BY <2>2, <2>3, <2>4, ReceiptStage DEF VerifiedInv, ReceiptFiles, PlanAgrees
<1>2. ASSUME NEW scope \in Scopes, NEW vids \in SUBSET VerificationIds,
             NEW E \in EvidenceSets, gate.acc # None,
             RequestLease([acc |-> gate.acc, scope |-> scope, vids |-> vids,
                           evidence |-> E, claim |-> gate.acc.dep])
      PROVE  ReceiptFiles' /\ ReceiptStaged'
  <2> DEFINE r == [acc |-> gate.acc, scope |-> scope, vids |-> vids, evidence |-> E,
                   claim |-> gate.acc.dep]
  <2>1. r \in Request
    BY <1>2, RequestType DEF VerifiedInv, AuthorityInv
  <2>2. RequestLease(r)
    BY <1>2
  <2> HIDE DEF r
  <2> QED
    BY <2>1, <2>2, ReceiptPropose DEF RequestLease
<1>3. ASSUME ReadForRenewal \/ \E v \in VerificationIds : RunVerification(v)
      PROVE  ReceiptFiles' /\ ReceiptStaged'
  BY <1>3, ReceiptQuiet DEF ReadForRenewal, RunVerification, files
<1> QED
  BY <1>1, <1>2, <1>3, ReceiptRenew, ReceiptRecord, ReceiptComplete DEF Broker

LEMMA VerifiedInductive ==
    /\ Init => VerifiedInv
    /\ VerifiedInv /\ [Next]_vars => VerifiedInv'
<1>1. Init => VerifiedInv
  BY AuthorityInductive, NoReceiptsSound
     DEF Init, VerifiedInv, ReceiptFiles, ReceiptStaged, PlanAgrees
<1>2. VerifiedInv /\ [Next]_vars => AuthorityInv'
  BY AuthorityInductive DEF VerifiedInv
<1>3. ASSUME VerifiedInv, WriteFails \/ Killed \/ World \/ UNCHANGED vars
      PROVE  ReceiptFiles' /\ ReceiptStaged'
  <2>1. /\ UNCHANGED <<gate, contract, ledger>>
        /\ todo' = {} \/ UNCHANGED <<todo, staged>>
    BY <1>3 DEF WriteFails, Killed, Stage, World, AllowNativeWrite, NativeWrite, EditFile,
                ChangePolicy, Tick, vars, files
  <2> QED
    BY <1>3, <2>1, ReceiptQuiet
<1>4. VerifiedInv /\ [Next]_vars => ReceiptFiles' /\ ReceiptStaged'
  BY <1>3, ReceiptWrite, ReceiptTurn, ReceiptHookStep, ReceiptBroker DEF Next, Write
<1> QED
  BY <1>1, <1>2, <1>4 DEF VerifiedInv

LEMMA VerifiedInvariant == Spec => []VerifiedInv
  BY VerifiedInductive, PTL DEF Spec

-----------------------------------------------------------------------------
(* A receipt always records bytes that were in the snapshot its command    *)
(* ran on, and no ledger mixes receipts of two leases.                     *)
THEOREM ReceiptsAreTested == Spec => []ReceiptsWereTested
<1>1. VerifiedInv => ReceiptsWereTested
  BY DEF VerifiedInv, ReceiptFiles, LedgerSound, ReceiptsWereTested
<1> QED
  BY <1>1, VerifiedInvariant, PTL

(* complete_task writes its receipt only when every check of the accepted  *)
(* plan has a receipt of this lease for these bytes, after any crash.      *)
THEOREM CompletionsAreVerified == Spec => CompletionIsVerified
<1>1. ASSUME VerifiedInv, [Next]_vars, completion' # completion
      PROVE  /\ gate.lease # None /\ completion'.lease = gate.lease.id
             /\ \A v \in gate.acc.plan.required :
                    /\ ledger.receipts[v] # None
                    /\ ledger.receipts[v].lease = gate.lease.id
                    /\ ledger.receipts[v].content = completion'.content
  <2>1. PICK f \in FileNames : WriteFile(f)
    BY <1>1, ZenonT(40) DEF Next, Turn, RecordPrompt, RejectPrompt, ReadApproved, HookStep,
       RevokeAfterFailure, ReportReturns, IssueApproved, RefuseApproval, MarkRead,
       MarkWrite, Broker, SetAcceptance, RequestLease, ReadForRenewal, RenewRevokes,
       RenewRequests, RunVerification, RecordReceipt, CompleteTask, World,
       AllowNativeWrite, NativeWrite, EditFile, ChangePolicy, Tick, Write, WriteFails,
       Killed, vars, files
  <2>2. "completion" \in todo /\ completion' = staged.completion
    BY <1>1, <2>1 DEF WriteFile
  <2> QED
    BY <1>1, <2>2 DEF VerifiedInv, ReceiptStaged, Backed
<1>2. VerifiedInv /\ [Next]_vars =>
        [completion' # completion =>
          /\ gate.lease # None /\ completion'.lease = gate.lease.id
          /\ \A v \in gate.acc.plan.required :
                 /\ ledger.receipts[v] # None
                 /\ ledger.receipts[v].lease = gate.lease.id
                 /\ ledger.receipts[v].content = completion'.content]_vars
  BY <1>1
<1> QED
  BY <1>2, VerifiedInvariant, PTL DEF Spec, CompletionIsVerified

(* No other handler writes a completion.                                   *)
LEMMA CompletionStarts ==
    ASSUME [Next]_vars, "completion" \in todo', "completion" \notin todo
    PROVE  \E now : CompleteTask(now)
<1>1. ASSUME NEW form, NEW class, NEW skips, RecordPrompt(form, class, skips) PROVE FALSE
  <2>1. todo' = {"contract", "gate"} \cup SidecarNames
    BY <1>1 DEF RecordPrompt, Stage
  <2> QED
    BY <2>1 DEF SidecarNames
<1>2. ASSUME RejectPrompt \/ \E via \in {"hook", "terminal"} : ReadApproved(via) PROVE FALSE
  BY <1>2 DEF RejectPrompt, ReadApproved
<1>3. ASSUME NEW r, NEW force, NEW by, NEW now, Propose(r, force, by, now) PROVE FALSE
  BY <1>3 DEF Propose, Stage, IssueFiles
<1>4. ~RevokeAfterFailure
  BY DEF RevokeAfterFailure, Stage
<1>5. ~IssueApproved
  BY <1>3 DEF IssueApproved
<1>6. ~RefuseApproval /\ ~ReportReturns /\ ~MarkRead /\ ~MarkWrite
  BY DEF RefuseApproval, ReportReturns, MarkRead, MarkWrite
<1>7. ~RenewRevokes
  <2>1. RenewRevokes => todo' = todo \/ todo' = {"gate"} \cup SidecarNames
    BY DEF RenewRevokes, Stage
  <2> QED
    BY <2>1 DEF SidecarNames
<1>8. ~RenewRequests /\ ~ReadForRenewal /\ \A r : ~RequestLease(r)
  BY <1>3 DEF RenewRequests, ReadForRenewal, RequestLease
<1>9. ASSUME NEW criterion, NEW resolved, NEW dep, SetAcceptance(criterion, resolved, dep)
      PROVE  FALSE
  BY <1>9 DEF SetAcceptance, Stage
<1>10. ASSUME NEW now, RecordReceipt(now) \/ \E v \in VerificationIds : RunVerification(v)
       PROVE  FALSE
  BY <1>10 DEF RecordReceipt, RunVerification, Stage
<1>11. ~World /\ ~WriteFails /\ ~Killed /\ ~UNCHANGED vars
  BY DEF World, AllowNativeWrite, NativeWrite, EditFile, ChangePolicy, Tick, WriteFails,
         Killed, Stage, vars
<1>12. ~Write
  BY DEF Write, WriteFile
<1> QED
  BY <1>1, <1>2, <1>4, <1>5, <1>6, <1>7, <1>8, <1>9, <1>10, <1>11, <1>12
     DEF Next, Turn, HookStep, Broker

(* complete_task holds a Task to the configuration of that moment.         *)
THEOREM CompletionsMeetPolicy == Spec => CompletionMeetsPolicy
<1> DEFINE Met == \A v \in policy :
                     /\ ledger.receipts[v] # None
                     /\ ledger.receipts[v].lease = gate.lease.id
                     /\ ledger.receipts[v].content = ObserveScope(gate.lease.scope)
<1>1. ASSUME NEW now, CompleteTask(now) PROVE Met
  <2> DEFINE required == proposal.material.vids
             content == ObserveScope(gate.lease.scope)
  <2>1. PlanIsCurrent(required) /\ ReceiptsProve(required, content)
    BY <1>1 DEF CompleteTask
  <2> HIDE DEF required, content
  <2>2. policy \subseteq required
    BY <2>1 DEF PlanIsCurrent, BuildPlan
  <2> QED
    BY <2>1, <2>2 DEF ReceiptsProve, content
<1> HIDE DEF Met
<1>2. ASSUME [Next]_vars, LockFree, "completion" \in todo' PROVE \E now : CompleteTask(now)
  BY <1>2, CompletionStarts DEF LockFree
<1>3. [Next]_vars => [LockFree /\ "completion" \in todo' => Met]_vars
  BY <1>1, <1>2
<1> QED
  BY <1>3, PTL DEF Spec, CompletionMeetsPolicy, Met

-----------------------------------------------------------------------------
(* A receipt about to be written has a time in the lease's term, and the   *)
(* gate state written before it keeps the lease.                           *)
Timed ==
    "ledger" \in todo =>
        \A v \in VerificationIds :
            staged.ledger.receipts[v] \notin {ledger.receipts[v], None} =>
                /\ InTerm(staged.ledger.receipts[v].at)
                /\ "gate" \in todo => staged.gate.lease = gate.lease
TimedInv == BoundInv /\ Timed

(* Only record_verification_receipt adds receipts to a ledger.             *)
LEMMA LedgerStarts ==
    ASSUME Next, LockFree, "ledger" \in todo'
    PROVE  \/ staged'.ledger.receipts = NoReceipts
           \/ \E now \in 0 .. clock : RecordReceipt(now) /\ ReceiptIsValid(now)
<1>1. ASSUME NEW form, NEW class, NEW skips, RecordPrompt(form, class, skips)
      PROVE  staged'.ledger.receipts = NoReceipts
  BY <1>1 DEF RecordPrompt, Stage, OnDisk, ResetLedger
<1>2. ASSUME NEW r, NEW force, NEW by, NEW now, Propose(r, force, by, now)
      PROVE  staged'.ledger.receipts = NoReceipts
  <2>1. ShouldIssue(r, force)
    BY <1>2 DEF Propose, Stage
  <2>2. staged'.ledger = [task |-> gate.task, lease |-> leases + 1, receipts |-> NoReceipts]
    BY <1>2, <2>1 DEF Propose, Stage, OnDisk
  <2> QED
    BY <2>2
<1>3. ASSUME RevokeAfterFailure PROVE staged'.ledger.receipts = NoReceipts
  <2>1. staged'.ledger = ResetLedger(gate.task)
    BY <1>3 DEF RevokeAfterFailure, Stage, OnDisk, LockFree
  <2> QED
    BY <2>1 DEF ResetLedger
<1>4. ASSUME RenewRevokes PROVE staged'.ledger.receipts = NoReceipts
  <2>1. staged'.ledger = ResetLedger(gate.task)
    BY <1>4 DEF RenewRevokes, Stage, OnDisk, LockFree
  <2> QED
    BY <2>1 DEF ResetLedger
<1>5. CASE IssueApproved \/ RenewRequests \/ \E r : RequestLease(r)
  BY <1>2, <1>5 DEF IssueApproved, RenewRequests, RequestLease, LockFree
<1>6. ASSUME NEW now \in 0 .. clock, RecordReceipt(now) PROVE ReceiptIsValid(now)
  BY <1>6 DEF RecordReceipt, LockFree
<1>7. ASSUME NEW now, CompleteTask(now) PROVE FALSE
  BY <1>7 DEF CompleteTask, Stage
<1>8. ASSUME NEW criterion, NEW resolved, NEW dep, SetAcceptance(criterion, resolved, dep)
      PROVE  FALSE
  BY <1>8 DEF SetAcceptance, Stage
<1>9. ASSUME RejectPrompt \/ (\E via \in {"hook", "terminal"} : ReadApproved(via))
             \/ RefuseApproval \/ ReportReturns \/ MarkRead \/ MarkWrite
             \/ ReadForRenewal \/ \E v \in VerificationIds : RunVerification(v)
      PROVE  FALSE
  BY <1>9 DEF RejectPrompt, ReadApproved, RefuseApproval, ReportReturns, MarkRead,
              MarkWrite, ReadForRenewal, RunVerification, LockFree
<1>10. ~World /\ ~Write /\ ~WriteFails /\ ~Killed
  BY DEF World, AllowNativeWrite, NativeWrite, EditFile, ChangePolicy, Tick, Write,
         WriteFile, WriteFails, Killed, LockFree
<1> QED
  BY <1>1, <1>3, <1>4, <1>5, <1>6, <1>7, <1>8, <1>9, <1>10
     DEF Next, Turn, HookStep, Broker

(* While the lock is held, steps write one of its files, release it or     *)
(* leave it alone.                                                         *)
LEMMA LockKept ==
    ASSUME [Next]_vars, ~LockFree
    PROVE  \/ \E f \in FileNames : WriteFile(f)
           \/ todo' = {}
           \/ UNCHANGED <<gate, ledger, todo, staged>>
  BY ZenonT(40) DEF Next, Turn, RecordPrompt, RejectPrompt, ReadApproved, HookStep,
     RevokeAfterFailure, ReportReturns, IssueApproved, RefuseApproval, MarkRead,
     MarkWrite, Broker, SetAcceptance, RequestLease, ReadForRenewal, RenewRevokes,
     RenewRequests, RunVerification, RecordReceipt, CompleteTask, World,
     AllowNativeWrite, NativeWrite, EditFile, ChangePolicy, Tick, Write, WriteFails,
     Killed, Stage, vars, files

(* The time a receipt is checked against is the one it is given.           *)
LEMMA AttestedInTerm ==
    ASSUME TypeInv, gate.lease # None, NEW now \in 0 .. clock, LeaseInTime(gate.lease, now)
    PROVE  InTerm(now)
<1>1. /\ gate.lease.issued \in Nat /\ LeaseTerm \in Nat /\ clock \in Nat
  BY BoundAssumption DEF TypeInv, TypeOK, Gate, Lease
<1> QED
  BY <1>1 DEF LeaseInTime, InTerm

LEMMA TimedInductive ==
    /\ Init => TimedInv
    /\ TimedInv /\ [Next]_vars => TimedInv'
<1>1. Init => TimedInv
  BY BoundInductive DEF Init, TimedInv, Timed
<1>2. ASSUME TimedInv, LockFree, [Next]_vars PROVE Timed'
  <2>1. CASE UNCHANGED vars
    BY <1>2, <2>1 DEF vars, LockFree, Timed
  <2>2. CASE "ledger" \in todo' /\ staged'.ledger.receipts = NoReceipts
    BY <2>2 DEF Timed, NoReceipts
  <2>3. ASSUME NEW now \in 0 .. clock, RecordReceipt(now), ReceiptIsValid(now)
        PROVE  Timed'
    <3> DEFINE new == [lease |-> gate.lease.id, content |-> ObserveScope(gate.lease.scope),
                       at |-> now, tested |-> run.snapshot]
               l == [ledger EXCEPT !.receipts = [ledger.receipts EXCEPT ![run.id] = new]]
    <3>1. gate \in Gate /\ ledger \in Ledger /\ run \in Run
      BY <1>2, <2>3 DEF TimedInv, BoundInv, AuthorityInv, TypeInv, TypeOK, RecordReceipt
    <3>2. PICK phase : staged'.gate = [gate EXCEPT !.phase = phase]
      BY <2>3 DEF RecordReceipt, Stage, OnDisk
    <3>3. staged'.gate.lease = gate.lease
      BY <3>1, <3>2 DEF Gate
    <3>4. staged'.ledger = l /\ UNCHANGED <<gate, ledger>>
      BY <2>3 DEF RecordReceipt, Stage, OnDisk, files
    <3>5. /\ \A v \in VerificationIds :
                 l.receipts[v] = IF v = run.id THEN new ELSE ledger.receipts[v]
          /\ new.at = now
      BY <3>1 DEF Ledger, Run
    <3>6. InTerm(now)
      BY <1>2, <2>3, AttestedInTerm
         DEF TimedInv, BoundInv, AuthorityInv, ReceiptIsValid, Attested
    <3> HIDE DEF new, l
    <3> QED
      BY <3>3, <3>4, <3>5, <3>6 DEF Timed, InTerm
  <2> QED
    BY <1>2, <2>1, <2>2, <2>3, LedgerStarts DEF Timed
<1>3. ASSUME TimedInv, ~LockFree, [Next]_vars PROVE Timed'
  <2>1. ASSUME NEW f \in FileNames, WriteFile(f) PROVE Timed'
    <3>1. /\ f \in todo /\ todo' = todo \ {f} /\ (todo' # {} => staged' = staged)
          /\ gate' = IF f = "gate" THEN staged.gate ELSE gate
          /\ ledger' = IF f = "ledger" THEN staged.ledger ELSE ledger
      BY <2>1 DEF WriteFile
    <3> QED
      BY <1>3, <3>1 DEF TimedInv, Timed, InTerm
  <2>2. CASE todo' = {} \/ UNCHANGED <<gate, ledger, todo, staged>>
    BY <1>3, <2>2 DEF TimedInv, Timed, InTerm
  <2> QED
    BY <1>3, <2>1, <2>2, LockKept
<1>4. TimedInv /\ [Next]_vars => BoundInv'
  BY BoundInductive DEF TimedInv
<1> QED
  BY <1>1, <1>2, <1>3, <1>4 DEF TimedInv

(* However long calls wait for the lock, native writes, receipts and       *)
(* completions bear times of the lease's term, and a command started after *)
(* it earns nothing.                                                       *)
THEOREM LeasesAreUsedInTerm == Spec => LeaseUsedInTerm
<1> DEFINE Used == /\ tool' \notin {tool, None} => InTerm(clock)
                   /\ completion' # completion => InTerm(completion'.at)
                   /\ \A v \in VerificationIds :
                          ledger'.receipts[v] \notin {ledger.receipts[v], None} =>
                              InTerm(ledger'.receipts[v].at)
                   /\ run # None /\ run' = None /\ todo' # todo =>
                          run.since < gate.lease.issued + LeaseTerm
<1>1. ASSUME TimedInv, [Next]_vars, tool' \notin {tool, None} PROVE InTerm(clock)
  <2>1. PICK f \in Files : AllowNativeWrite(f)
    BY <1>1, ZenonT(40) DEF Next, Turn, RecordPrompt, RejectPrompt, ReadApproved, HookStep,
       RevokeAfterFailure, ReportReturns, IssueApproved, RefuseApproval, MarkRead,
       MarkWrite, Broker, SetAcceptance, RequestLease, ReadForRenewal, RenewRevokes,
       RenewRequests, RunVerification, RecordReceipt, CompleteTask, World, NativeWrite,
       EditFile, ChangePolicy, Tick, Write, WriteFile, WriteFails, Killed, vars
  <2>2. TypeInv /\ clock \in 0 .. clock
    BY <1>1 DEF TimedInv, BoundInv, AuthorityInv, TypeInv, TypeOK
  <2> QED
    BY <2>1, <2>2, AttestedInTerm DEF AllowNativeWrite, LeaseIsUsable
<1>2. ASSUME TimedInv, [Next]_vars, UNCHANGED <<completion, ledger>> \/ Write
      PROVE  /\ completion' # completion => InTerm(completion'.at)
             /\ \A v \in VerificationIds :
                    ledger'.receipts[v] \notin {ledger.receipts[v], None} =>
                        InTerm(ledger'.receipts[v].at)
  <2>1. CASE UNCHANGED <<completion, ledger>>
    BY <2>1
  <2>2. ASSUME NEW f \in FileNames, WriteFile(f), f = "completion"
        PROVE  ledger' = ledger /\ InTerm(completion'.at)
    <3>1. "completion" \in todo /\ completion' = staged.completion /\ ledger' = ledger
      BY <2>2 DEF WriteFile
    <3>2. /\ gate.lease # None /\ staged.completion \in Completion
          /\ gate.lease.issued <= staged.completion.at
          /\ staged.completion.at < gate.lease.issued + LeaseTerm
      BY <1>2, <3>1 DEF TimedInv, BoundInv, CompletionBound
    <3>3. /\ gate.lease.issued \in Nat /\ LeaseTerm \in Nat /\ staged.completion.at \in Nat
      BY <1>2, <3>2, BoundAssumption DEF TimedInv, BoundInv, AuthorityInv, TypeInv, TypeOK,
         Gate, Lease, Completion
    <3> QED
      BY <3>1, <3>2, <3>3 DEF InTerm
  <2>3. ASSUME NEW f \in FileNames, WriteFile(f), f # "completion"
        PROVE  /\ completion' = completion
               /\ \A v \in VerificationIds :
                      ledger'.receipts[v] \notin {ledger.receipts[v], None} =>
                          InTerm(ledger'.receipts[v].at)
    <3>1. /\ completion' = completion /\ f \in todo
          /\ ledger' = IF f = "ledger" THEN staged.ledger ELSE ledger
      BY <2>3 DEF WriteFile
    <3> QED
      BY <1>2, <3>1 DEF TimedInv, Timed
  <2> QED
    BY <1>2, <2>1, <2>2, <2>3 DEF Write
<1>3. ASSUME [Next]_vars PROVE UNCHANGED <<completion, ledger>> \/ Write
  BY <1>3, ZenonT(40) DEF Next, Turn, RecordPrompt, RejectPrompt, ReadApproved, HookStep,
     RevokeAfterFailure, ReportReturns, IssueApproved, RefuseApproval, MarkRead,
     MarkWrite, Broker, SetAcceptance, RequestLease, ReadForRenewal, RenewRevokes,
     RenewRequests, RunVerification, RecordReceipt, CompleteTask, World,
     AllowNativeWrite, NativeWrite, EditFile, ChangePolicy, Tick, WriteFails,
     Killed, vars, files
<1>4. ASSUME TimedInv, [Next]_vars, run # None, run' = None, todo' # todo
      PROVE  run.since < gate.lease.issued + LeaseTerm
  <2>1. PICK now \in 0 .. clock : RecordReceipt(now)
    BY <1>4, ZenonT(40) DEF Next, Turn, RecordPrompt, RejectPrompt, ReadApproved, HookStep,
       RevokeAfterFailure, ReportReturns, IssueApproved, RefuseApproval, MarkRead,
       MarkWrite, Broker, SetAcceptance, RequestLease, ReadForRenewal, RenewRevokes,
       RenewRequests, RunVerification, CompleteTask, World, AllowNativeWrite, NativeWrite,
       EditFile, ChangePolicy, Tick, Write, WriteFile, WriteFails, Killed, vars, bounds
  <2>2. ReceiptIsValid(now) /\ run.since <= now
    BY <1>4, <2>1 DEF RecordReceipt
  <2>3. InTerm(now)
    BY <1>4, <2>2, AttestedInTerm
       DEF TimedInv, BoundInv, AuthorityInv, ReceiptIsValid, Attested
  <2>4. /\ run.since \in Nat /\ gate.lease.issued \in Nat /\ LeaseTerm \in Nat
        /\ clock \in Nat
    BY <1>4, <2>3, BoundAssumption
       DEF TimedInv, BoundInv, AuthorityInv, TypeInv, TypeOK, Run, Gate, Lease, InTerm
  <2> QED
    BY <2>2, <2>3, <2>4 DEF InTerm
<1>5. TimedInv /\ [Next]_vars => [Used]_vars
  BY <1>1, <1>2, <1>3, <1>4
<1>6. Spec => []TimedInv
  BY TimedInductive, PTL DEF Spec
<1> QED
  BY <1>5, <1>6, PTL DEF Spec, LeaseUsedInTerm
=============================================================================
