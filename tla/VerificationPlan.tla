--------------------------- MODULE VerificationPlan ---------------------------
(***************************************************************************)
(* build_verification_plan and the protocol around it: an agent drafts     *)
(* criteria, the host works out which commands prove them, the user gives  *)
(* reasons to leave checks out, the configuration and the profile change,  *)
(* and request and completion build the plan again.                        *)
(*                                                                         *)
(* LeaseLifecycle has the files, the lock and the faults and one           *)
(* criterion; here the contract is one variable and the plan has its loop. *)
(* A decision id digests what it is about and is that record here.         *)
(***************************************************************************)
EXTENDS Integers, FiniteSets, Sequences, SequencesExt

CONSTANTS
    Statements,     \* statements of observable criteria
    KindsOf,        \* command kinds each statement names
    UiStatements,   \* statements that speak of the user interface
    PerfStatements, \* statements that speak of performance
    Profiles,       \* repository profiles: registered id -> kind of command
    Configs,        \* values of the "verification" configuration
    Risks,          \* classifications of a new Task
    MaxCriteria,    \* bound: criteria of a draft
    MaxRevisions,   \* bound: user turns of a Task
    None

ASSUME StatementAssumption ==
    /\ UiStatements \subseteq Statements /\ PerfStatements \subseteq Statements
    /\ \A s \in Statements : IsFiniteSet(KindsOf[s])
ASSUME ConfigAssumption ==
    /\ Risks \subseteq {"low", "material", "high"}
    /\ \A c \in Configs : DOMAIN c = {"required", "flows", "scenarios"}
ASSUME BoundAssumption == MaxCriteria \in Nat \ {0} /\ MaxRevisions \in Nat \ {0}

VARIABLES
    contract,   \* the Task contract
    profile,    \* repo-profile.json
    config,     \* config.json, "verification"
    lease,      \* verification ids of the active lease, None without one
    outcome     \* how the last set-acceptance ended

vars == <<contract, profile, config, lease, outcome>>

-----------------------------------------------------------------------------
(* build_verification_plan *)

Product == [about |-> "product"]
CriterionDecision(i, s, missing) ==
    [about |-> "criterion", index |-> i, statement |-> s, missing |-> missing]
RiskDecision(risk) == [about |-> "risk", profile |-> profile, risk |-> risk]

OfKind(kinds) == {id \in DOMAIN profile : profile[id] \in kinds}

Flows(s) == IF s \in UiStatements THEN config.flows ELSE {}
Scenarios(s) == IF s \in PerfStatements THEN config.scenarios ELSE {}
Missing(s) ==
    (IF s \in UiStatements /\ config.flows = {} THEN {"ui-flow"} ELSE {})
    \cup (IF s \in PerfStatements /\ config.scenarios = {} THEN {"performance-scenario"}
          ELSE {})

(* _configured_verification_ids: everything configured is registered.      *)
ConfigIsRegistered ==
    config.required \cup config.flows \cup config.scenarios \subseteq DOMAIN profile

(* The loop over the criteria.  Each gathers the checks that prove it; one *)
(* without any, or with a missing dimension, asks the user.                *)
Proofs(s) == OfKind(KindsOf[s]) \cup Flows(s) \cup Scenarios(s)
OwnDecision(i, s) ==
    CriterionDecision(i, s, IF Missing(s) = {} THEN {"semantic-proof"} ELSE Missing(s))

(* Mutant: a missing dimension does not count beside another proof.        *)
MutantAsks(s) == Proofs(s) = {}

Asks(s) == Proofs(s) = {} \/ Missing(s) # {}

(* Only an iteration that asks assigns decision_id, and the variable       *)
(* outlives the iteration: the entry of a criterion that no command proves *)
(* reads what the last one that asked has left there.                      *)
Reads(s) == OfKind(KindsOf[s]) = {} \/ Missing(s) # {}
Asked(criteria, i) == {j \in 1..i : Asks(criteria[j])}
LoopEnds(criteria) ==
    \A i \in DOMAIN criteria : Reads(criteria[i]) => Asked(criteria, i) # {}

CriterionPlan(criteria, i, unrun) ==
    LET s == criteria[i]
        own == OwnDecision(i, s)
        last == Max(Asked(criteria, i))
    IN  [statement |-> s, proofs |-> Proofs(s),
         user |-> IF Asks(s) /\ own \in unrun THEN own ELSE None,
         unrunDecision |-> IF Reads(s) THEN OwnDecision(last, criteria[last]) ELSE None]

CriteriaRequired(criteria) == UNION {Proofs(criteria[i]) : i \in DOMAIN criteria}
CriteriaAsk(criteria) ==
    {OwnDecision(i, criteria[i]) : i \in {j \in DOMAIN criteria : Asks(criteria[j])}}

RiskRequired(risk) ==
    CASE risk = "low" -> {}
      [] risk = "material" -> OfKind({"test"})
      [] risk = "high" -> DOMAIN profile

RiskAsks(risk) == risk # "low" /\ RiskRequired(risk) = {}

BuildPlan(criteria, risk, unrun) ==
    LET d == RiskDecision(risk)
    IN  [criteria |-> [i \in DOMAIN criteria |-> CriterionPlan(criteria, i, unrun)],
         pending |-> (CriteriaAsk(criteria) \cup (IF RiskAsks(risk) THEN {d} ELSE {}))
                         \ unrun,
         riskUser |-> IF RiskAsks(risk) /\ d \in unrun THEN d ELSE None,
         required |-> CriteriaRequired(criteria) \cup config.required
                          \cup RiskRequired(risk),
         risk |-> risk, profile |-> profile, config |-> config]

(* Mutant: the plan in the contract is trusted instead of built again.     *)
MutantPlanIsCurrent(selected) ==
    /\ contract.criteria # None
    /\ contract.plan.pending = {} /\ contract.plan.required \subseteq selected

(* validate_verification_plan *)
PlanIsCurrent(selected) ==
    /\ contract.criteria # None /\ ConfigIsRegistered
    /\ LoopEnds(contract.criteria)
    /\ LET plan == BuildPlan(contract.criteria, contract.risk, contract.unrun)
       IN  plan.pending = {} /\ contract.plan = plan /\ plan.required \subseteq selected

-----------------------------------------------------------------------------
(* The protocol *)

NewContract(risk) ==
    [risk |-> risk, rev |-> 1, kind |-> "initial-request", status |-> "draft",
     pending |-> IF risk = "low" THEN {} ELSE {Product},
     criteria |-> None, accRev |-> 0, plan |-> None, unrun |-> {}]

Init ==
    /\ \E risk \in Risks : contract = NewContract(risk)
    /\ profile \in Profiles /\ config \in Configs
    /\ lease = None /\ outcome = "none"

PlanPending == IF contract.plan = None THEN {} ELSE contract.plan.pending

Superseded(resolved) ==
    IF resolved = {} /\ contract.accRev = contract.rev THEN PlanPending ELSE {}

MayResolve(resolved) == resolved # {} => contract.kind = "user-answer"

(* set_acceptance_contract.  A refused or crashed call changes no file.    *)
SetAcceptance(criteria, resolved) ==
    LET open == contract.pending \ Superseded(resolved)
        plan == BuildPlan(criteria, contract.risk, contract.unrun)
        left == (open \ resolved) \cup plan.pending
    IN  /\ lease = None
        /\ open # {} => resolved = open
        /\ MayResolve(resolved)
        /\ ConfigIsRegistered
        /\ IF LoopEnds(criteria)
           THEN /\ outcome' = "set"
                /\ contract' = [contract EXCEPT
                        !.criteria = criteria, !.accRev = contract.rev, !.plan = plan,
                        !.pending = left,
                        !.status = IF left = {} THEN "accepted" ELSE "draft"]
           ELSE outcome' = "crashed" /\ UNCHANGED contract
        /\ UNCHANGED <<profile, config, lease>>

(* _revise_contract on an answer: reasons count for pending decisions.     *)
Revise(skips) ==
    [contract EXCEPT !.rev = @ + 1, !.kind = "user-answer",
                     !.unrun = @ \cup (skips \cap contract.pending),
                     !.criteria = None, !.accRev = 0, !.status = "draft"]

Answer(skips) ==
    /\ contract.rev < MaxRevisions
    /\ contract' = Revise(skips)
    /\ lease' = None
    /\ UNCHANGED <<profile, config, outcome>>

(* request_write_lease, as far as the plan is concerned ...                *)
Request(selected) ==
    /\ lease = None
    /\ contract.status = "accepted" /\ PlanIsCurrent(selected)
    /\ lease' = selected
    /\ UNCHANGED <<contract, profile, config, outcome>>

(* ... and complete_task, whose receipts LeaseLifecycle has.               *)
Complete ==
    /\ lease # None /\ PlanIsCurrent(lease)
    /\ lease' = None
    /\ UNCHANGED <<contract, profile, config, outcome>>

(* The user edits the configuration, or the profile is detected again.     *)
Reconfigure(p, c) ==
    /\ <<p, c>> # <<profile, config>>
    /\ profile' = p /\ config' = c
    /\ UNCHANGED <<contract, lease, outcome>>

Drafts == UNION {[1..n -> Statements] : n \in 1..MaxCriteria}
Unrun == {d \in contract.pending : d # Product}

Next ==
    \/ \E criteria \in Drafts, resolved \in SUBSET contract.pending :
            IsInjective(criteria) /\ SetAcceptance(criteria, resolved)
    \/ \E skips \in SUBSET Unrun : Answer(skips)
    \/ \E selected \in SUBSET DOMAIN profile : Request(selected)
    \/ Complete
    \/ \E p \in Profiles, c \in Configs : Reconfigure(p, c)

Spec == Init /\ [][Next]_vars

-----------------------------------------------------------------------------
(* Every criterion of an accepted contract is proved by checks the plan    *)
(* requires, in each dimension it speaks of, or the user gave a reason for *)
(* this very criterion at this place: a reason given for another draft's   *)
(* criterion, or for other gaps, does not carry over.                      *)
CriteriaProved ==
    contract.status = "accepted" =>
        LET plan == contract.plan
        IN  /\ Len(plan.criteria) = Len(contract.criteria)
            /\ \A i \in DOMAIN contract.criteria :
                LET s == contract.criteria[i]
                    gaps == (IF s \in UiStatements /\ plan.config.flows = {}
                             THEN {"ui-flow"} ELSE {})
                            \cup (IF s \in PerfStatements /\ plan.config.scenarios = {}
                                  THEN {"performance-scenario"} ELSE {})
                IN  /\ plan.criteria[i].proofs \subseteq plan.required
                    /\ \/ plan.criteria[i].proofs # {} /\ gaps = {}
                       \/ \E d \in contract.unrun :
                             /\ d.about = "criterion" /\ d.statement = s /\ d.index = i
                             /\ gaps # {} => d.missing = gaps

(* A lease is issued and a Task completed only with every check that the   *)
(* profile and the configuration of that moment ask for, whatever they     *)
(* asked for when the criteria were accepted.                              *)
AuthorityMeetsConfiguration ==
    [][lease' # lease /\ contract' = contract =>
        LET selected == IF lease' = None THEN lease ELSE lease'
        IN  /\ config.required \subseteq selected
            /\ contract.risk # "low" => OfKind({"test"}) \subseteq selected
            /\ contract.risk = "high" => DOMAIN profile \subseteq selected
            /\ \A i \in DOMAIN contract.criteria :
                   LET s == contract.criteria[i]
                   IN  OfKind(KindsOf[s]) \cup Flows(s) \cup Scenarios(s)
                           \subseteq selected]_vars

(* build_verification_plan: "Bind acceptance claims to host-detected       *)
(* checks and user-owned policy."  A draft whose checks are all registered *)
(* gets a plan.                                                            *)
PlanIsBuilt == outcome # "crashed"
=============================================================================
