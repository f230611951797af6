-------------------------- MODULE LeaseProperties --------------------------
(***************************************************************************)
(* What the strict write lifecycle promises.                               *)
(***************************************************************************)
EXTENDS LeaseLifecycle

(* A lease in gate-state.json always rests on an accepted contract with    *)
(* nothing left to decide, whatever was written, failed or killed before:  *)
(* it is bound to the acceptance, task, base tree and Evidence the same    *)
(* file holds, and only the two lease phases carry one.                    *)
LeaseRestsOnAcceptance ==
    gate.lease # None =>
        /\ gate.acc.status = "accepted" /\ gate.acc.pending = {} /\ gate.pending = {}
        /\ gate.phase \in {"implementing", "verifying"}
        /\ gate.lease.acc = gate.acc /\ gate.lease.task = gate.task
        /\ gate.lease.base = gate.base /\ gate.lease.evidence = gate.evidence

(* A Task classified as material or high risk, and a criterion no          *)
(* registered command proves, are never accepted on the first prompt       *)
(* alone: the user has spoken again, and gave a reason for an unrun check. *)
AcceptanceNeedsUser ==
    \A c \in {contract, gate.acc} \ {None} :
        c.status = "accepted" =>
            /\ c.risk # "low" => c.rev > 1
            /\ c.acceptance.criterion = "semantic" =>
                   c.rev > 1 /\ "unrun-criterion" \in c.unrun

(* Every receipt in the ledger belongs to the ledger's lease and records   *)
(* exactly the in-scope bytes of the snapshot its command was run on.      *)
ReceiptsWereTested ==
    \A v \in VerificationIds :
        ledger.receipts[v] # None =>
            LET r == ledger.receipts[v]
            IN  /\ r.lease = ledger.lease
                /\ \A f \in DOMAIN r.content :
                       f \in DOMAIN r.tested /\ r.content[f] = r.tested[f]

(* A lease is written only when the request was eligible for automatic     *)
(* approval or is, field by field, the proposal the user approved: no      *)
(* scope, check, Evidence or acceptance the user did not see.              *)
LeaseNeedsConsent ==
    [][gate.lease' # None /\ gate.lease' # gate.lease =>
        \/ /\ AutoApprove /\ gate'.acc.risk = "low" /\ gate'.lease.scope \in AutoScopes
        \/ /\ hook.st = "issuing"
           /\ hook.seen.acc = gate'.lease.acc
           /\ hook.seen.scope = gate'.lease.scope
           /\ hook.seen.vids = gate'.lease.vids
           /\ hook.seen.evidence = gate'.lease.evidence]_vars

(* Authority is never handed from one lease to the next: the old one is    *)
(* removed from gate-state.json before another is written.                 *)
LeaseNotReplaced ==
    [][gate.lease # None /\ gate'.lease # gate.lease => gate'.lease = None]_vars

(* A completion receipt is written only when every check the accepted plan *)
(* requires has a receipt of the completing lease for the very bytes the   *)
(* completion names.                                                       *)
CompletionIsVerified ==
    [][completion' # completion =>
        /\ gate.lease # None /\ completion'.lease = gate.lease.id
        /\ \A v \in gate.acc.plan.required :
               /\ ledger.receipts[v] # None
               /\ ledger.receipts[v].lease = gate.lease.id
               /\ ledger.receipts[v].content = completion'.content]_vars

(* A Task is completed only when every check the configuration requires at *)
(* that moment has a receipt of the completing lease for the bytes in the  *)
(* tree, whatever the configuration required when the lease was issued.    *)
CompletionMeetsPolicy ==
    [][LockFree /\ "completion" \in todo' =>
        \A v \in policy :
            /\ ledger.receipts[v] # None
            /\ ledger.receipts[v].lease = gate.lease.id
            /\ ledger.receipts[v].content = ObserveScope(gate.lease.scope)]_vars

(* A lease is used within its term, however long a call waits for the      *)
(* lock: a native write is allowed while the term lasts, receipts and      *)
(* completions bear a time their call read in it, and a run that began     *)
(* after the term's end records nothing.  The write of a receipt or a      *)
(* completion itself may come later: the lock is waited for without limit. *)
InTerm(t) ==
    gate.lease # None /\ t \in gate.lease.issued .. gate.lease.issued + LeaseTerm - 1

LeaseUsedInTerm ==
    [][/\ tool' \notin {tool, None} => InTerm(clock)
       /\ completion' # completion => InTerm(completion'.at)
       /\ \A v \in VerificationIds :
              ledger'.receipts[v] \notin {ledger.receipts[v], None} =>
                  InTerm(ledger'.receipts[v].at)
       /\ run # None /\ run' = None /\ todo' # todo =>
              run.since < gate.lease.issued + LeaseTerm]_vars

-----------------------------------------------------------------------------
(* Without failed writes and kills the files agree whenever the lock is    *)
(* free: a lease belongs to the contract on disk, so no lease survives a   *)
(* user turn or a changed acceptance, and its ledger is its own.           *)
FilesAgree ==
    LockFree /\ gate.lease # None =>
        contract = gate.acc /\ ledger.lease = gate.lease.id /\ ledger.task = gate.task
-----------------------------------------------------------------------------
(* The abstract specification.  The terms are the acceptance the gate      *)
(* state is bound to; an offer is a lease decided upon under the lock      *)
(* whose gate-state.json is not written yet.                               *)
TermsOf == IF gate.acc # None /\ gate.acc.status = "accepted" THEN gate.acc ELSE None
OfferOf == IF "gate" \in todo /\ gate.lease = None THEN staged.gate.lease ELSE None

Authority == INSTANCE WriteAuthority
    WITH Terms <- Contract, Leases <- Lease, Completions <- Completion,
         terms <- TermsOf, offer <- OfferOf, lease <- gate.lease, write <- tool,
         done <- completion, now <- clock, count <- leases

(* However the files are written, fail to be written or are left behind by *)
(* a kill, what they mean changes as the abstract authority does: the      *)
(* terms never change under a lease, no lease returns, and every native    *)
(* write and completion happens under the terms of the moment.             *)
ImplementsAuthority == Authority!Spec

-----------------------------------------------------------------------------
(* Fairness: a live process performs its next write and its next unlocked  *)
(* step, and flock does not pass a waiting hook or renew over for ever.    *)
FairSpec ==
    /\ Spec
    /\ WF_vars(Write)
    /\ WF_vars(MarkRead) /\ WF_vars(MarkWrite) /\ WF_vars(ReportReturns)
    /\ SF_vars(RevokeAfterFailure) /\ SF_vars(IssueApproved \/ RefuseApproval)
    /\ SF_vars(RenewRevokes) /\ SF_vars(RenewRequests)

(* Every user turn the hook takes up ends, although brokers compete for    *)
(* the lock, and so does every renew, through both its critical sections.  *)
TurnsEnd == hook.st # "idle" ~> hook.st = "idle"
RenewalsEnd == renewal # None ~> renewal = None

(* A turn that failed leaves the authority it found no chance: the lease   *)
(* it met is gone by the time the hook reports.                            *)
FailedTurnRevokes ==
    [][hook.st \in {"failed", "revoking"} /\ hook'.st = "reported" => gate.lease' = None]_vars
=============================================================================
