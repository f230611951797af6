------------------------------ MODULE PlanProofs ------------------------------
(***************************************************************************)
(* Whatever agents draft, users skip and configurations become: accepted   *)
(* criteria are proved or excused one by one, and no authority is given    *)
(* without the checks that are asked for when it is given.                 *)
(***************************************************************************)
EXTENDS VerificationPlan, TLAPS

ContractFields ==
    {"risk", "rev", "kind", "status", "pending", "criteria", "accRev", "plan", "unrun"}

(* The contract is a record of one of the Risks; what it accepts is one of *)
(* the drafts; every user turn has its revision.                           *)
ContractShape ==
    /\ DOMAIN contract = ContractFields
    /\ contract.risk \in Risks /\ contract.rev \in Nat
    /\ contract.criteria \in Drafts \cup {None}
PlanInv == ContractShape /\ CriteriaProved

-----------------------------------------------------------------------------
(* A draft is a sequence.                                                  *)
LEMMA DraftIsSequence ==
    ASSUME NEW criteria \in Drafts
    PROVE  \E n \in Nat : DOMAIN criteria = 1..n /\ criteria \in [1..n -> Statements]
  BY BoundAssumption DEF Drafts

(* In a plan with nothing left to ask, each criterion that asks has been   *)
(* excused, by a reason for it, at its place and for its gaps; the others  *)
(* have a proof in every dimension they speak of.                          *)
LEMMA PlanProvesCriteria ==
    ASSUME NEW criteria \in Drafts, NEW risk, NEW unrun,
           BuildPlan(criteria, risk, unrun).pending = {},
           NEW i \in DOMAIN criteria
    PROVE  LET s == criteria[i] IN
           /\ \/ Proofs(s) # {} /\ Missing(s) = {}
              \/ \E d \in unrun :
                    /\ d.about = "criterion" /\ d.statement = s /\ d.index = i
                    /\ Missing(s) # {} => d.missing = Missing(s)
           /\ Proofs(s) \subseteq BuildPlan(criteria, risk, unrun).required
<1> DEFINE s == criteria[i]
           own == OwnDecision(i, s)
<1>1. Asks(s) => own \in CriteriaAsk(criteria)
  BY DEF CriteriaAsk
<1>2. CriteriaAsk(criteria) \subseteq unrun
  BY DEF BuildPlan
<1>3. Proofs(s) \subseteq BuildPlan(criteria, risk, unrun).required
  BY DEF BuildPlan, CriteriaRequired
<1>4. own.about = "criterion" /\ own.statement = s /\ own.index = i
      /\ (Missing(s) # {} => own.missing = Missing(s))
  BY DEF OwnDecision, CriterionDecision
<1>5. ~Asks(s) => Proofs(s) # {} /\ Missing(s) = {}
  BY DEF Asks
<1> HIDE DEF own
<1> QED
  BY <1>1, <1>2, <1>3, <1>4, <1>5

-----------------------------------------------------------------------------
(* Init and the steps.                                                     *)

LEMMA PlanInit ==
    ASSUME Init
    PROVE  PlanInv
  BY DEF Init, NewContract, PlanInv, ContractShape, ContractFields, CriteriaProved

(* Acceptance with nothing left means a plan with nothing left.            *)
LEMMA SetAcceptanceKeeps ==
    ASSUME PlanInv, NEW criteria \in Drafts, NEW resolved, SetAcceptance(criteria, resolved)
    PROVE  PlanInv'
<1> DEFINE plan == BuildPlan(criteria, contract.risk, contract.unrun)
<1>1. CASE UNCHANGED contract
  BY <1>1 DEF PlanInv, ContractShape, CriteriaProved
<1>2. CASE ~UNCHANGED contract
  <2>1. /\ contract'.criteria = criteria /\ contract'.plan = plan
        /\ contract'.unrun = contract.unrun
        /\ contract'.status = "accepted" => plan.pending = {}
        /\ ContractShape'
    BY <1>2 DEF SetAcceptance, PlanInv, ContractShape, ContractFields
  <2>2. /\ plan.criteria = [i \in DOMAIN criteria |->
                               CriterionPlan(criteria, i, contract.unrun)]
        /\ plan.config = config
    BY DEF BuildPlan
  <2>3. Len(plan.criteria) = Len(criteria)
    BY <2>2, DraftIsSequence
  <2>4. ASSUME NEW i \in DOMAIN criteria
        PROVE  plan.criteria[i].proofs = Proofs(criteria[i])
    BY <2>2, <2>4 DEF CriterionPlan
  <2> HIDE DEF plan
  <2>5. ASSUME contract'.status = "accepted", NEW i \in DOMAIN criteria
        PROVE  /\ plan.criteria[i].proofs \subseteq plan.required
               /\ \/ plan.criteria[i].proofs # {} /\ Missing(criteria[i]) = {}
                  \/ \E d \in contract.unrun :
                        /\ d.about = "criterion" /\ d.statement = criteria[i]
                        /\ d.index = i
                        /\ Missing(criteria[i]) # {} => d.missing = Missing(criteria[i])
    BY <2>1, <2>4, <2>5, PlanProvesCriteria DEF plan
  <2>6. ASSUME contract'.status = "accepted", NEW i \in DOMAIN contract'.criteria
        PROVE  LET s == contract'.criteria[i]
                   gaps == (IF s \in UiStatements /\ contract'.plan.config.flows = {}
                            THEN {"ui-flow"} ELSE {})
                           \cup (IF s \in PerfStatements
                                      /\ contract'.plan.config.scenarios = {}
                                 THEN {"performance-scenario"} ELSE {})
               IN  /\ contract'.plan.criteria[i].proofs \subseteq contract'.plan.required
                   /\ \/ contract'.plan.criteria[i].proofs # {} /\ gaps = {}
                      \/ \E d \in contract'.unrun :
                            /\ d.about = "criterion" /\ d.statement = s /\ d.index = i
                            /\ gaps # {} => d.missing = gaps
    <3>1. contract'.criteria[i] = criteria[i] /\ contract'.plan.config = config
          /\ i \in DOMAIN criteria
      BY <2>1, <2>2, <2>6
    <3>2. Missing(criteria[i]) =
            (IF contract'.criteria[i] \in UiStatements
                  /\ contract'.plan.config.flows = {}
             THEN {"ui-flow"} ELSE {})
            \cup (IF contract'.criteria[i] \in PerfStatements
                       /\ contract'.plan.config.scenarios = {}
                  THEN {"performance-scenario"} ELSE {})
      BY <3>1 DEF Missing
    <3> QED
      BY <2>1, <2>5, <2>6, <3>1, <3>2
  <2>7. Len(contract'.plan.criteria) = Len(contract'.criteria)
    BY <2>1, <2>3
  <2>8. CriteriaProved'
    BY <2>6, <2>7, Zenon DEF CriteriaProved
  <2> QED
    BY <2>1, <2>8 DEF PlanInv
<1> QED
  BY <1>1, <1>2

(* An answer takes the acceptance back.                                    *)
LEMMA AnswerKeeps ==
    ASSUME PlanInv, NEW skips, Answer(skips)
    PROVE  PlanInv'
  BY DEF PlanInv, ContractShape, ContractFields, CriteriaProved, Answer, Revise

LEMMA PlanInductive ==
    ASSUME PlanInv, [Next]_vars
    PROVE  PlanInv'
<1>1. CASE UNCHANGED contract
  BY <1>1 DEF PlanInv, ContractShape, CriteriaProved
<1>2. CASE \E criteria \in Drafts, resolved \in SUBSET contract.pending :
             SetAcceptance(criteria, resolved)
  BY <1>2, SetAcceptanceKeeps
<1>3. CASE \E skips \in SUBSET Unrun : Answer(skips)
  BY <1>3, AnswerKeeps
<1> QED
  BY <1>1, <1>2, <1>3 DEF Next, vars, Request, Complete, Reconfigure

LEMMA PlanInvariant == Spec => []PlanInv
  BY PlanInit, PlanInductive, PTL DEF Spec

-----------------------------------------------------------------------------
(* Whatever drafts follow one another, an accepted criterion is proved in  *)
(* each dimension it speaks of by checks the plan requires, or the user    *)
(* has excused this very criterion (build_verification_plan).              *)
THEOREM CriteriaAreProved == Spec => []CriteriaProved
  BY PlanInvariant, PTL DEF PlanInv

(* A plan that is current requires what is asked for now.                  *)
LEMMA CurrentPlanRequires ==
    ASSUME PlanInv, NEW selected, PlanIsCurrent(selected)
    PROVE  /\ config.required \subseteq selected
           /\ contract.risk # "low" => OfKind({"test"}) \subseteq selected
           /\ contract.risk = "high" => DOMAIN profile \subseteq selected
           /\ \A i \in DOMAIN contract.criteria :
                  Proofs(contract.criteria[i]) \subseteq selected
<1>1. /\ CriteriaRequired(contract.criteria) \subseteq selected
      /\ config.required \subseteq selected
      /\ RiskRequired(contract.risk) \subseteq selected
  BY DEF PlanIsCurrent, BuildPlan
<1>2. \A i \in DOMAIN contract.criteria :
         Proofs(contract.criteria[i]) \subseteq CriteriaRequired(contract.criteria)
  BY DEF CriteriaRequired
<1>3. contract.risk \in {"low", "material", "high"}
  BY ConfigAssumption DEF PlanInv, ContractShape
<1>4. contract.risk # "low" => OfKind({"test"}) \subseteq RiskRequired(contract.risk)
  BY <1>3 DEF RiskRequired, OfKind
<1>5. contract.risk = "high" => DOMAIN profile \subseteq RiskRequired(contract.risk)
  BY <1>3 DEF RiskRequired
<1> QED
  BY <1>1, <1>2, <1>4, <1>5

(* A lease is issued and a Task completed only with every check that the   *)
(* profile and the configuration of that moment ask for, although both     *)
(* change between acceptance, request and completion                       *)
(* (validate_verification_plan).                                           *)
THEOREM AuthorityIsCurrent == Spec => AuthorityMeetsConfiguration
<1>1. ASSUME PlanInv, [Next]_vars, lease' # lease, contract' = contract
      PROVE  LET selected == IF lease' = None THEN lease ELSE lease'
             IN  PlanIsCurrent(selected)
  <2>1. ~ \E skips \in SUBSET Unrun : Answer(skips)
    <3>1. contract.rev \in Nat /\ "rev" \in DOMAIN contract
      BY <1>1 DEF PlanInv, ContractShape, ContractFields
    <3>2. \A skips : Answer(skips) => contract'.rev = contract.rev + 1
      BY <3>1 DEF Answer, Revise
    <3> QED
      BY <1>1, <3>1, <3>2
  <2>2. CASE \E selected \in SUBSET DOMAIN profile : Request(selected)
    BY <1>1, <2>2 DEF Request
  <2>3. CASE Complete
    BY <1>1, <2>3 DEF Complete
  <2> QED
    BY <1>1, <2>1, <2>2, <2>3 DEF Next, vars, SetAcceptance, Reconfigure
<1>2. PlanInv /\ [Next]_vars =>
        [lease' # lease /\ contract' = contract =>
           LET selected == IF lease' = None THEN lease ELSE lease'
           IN  /\ config.required \subseteq selected
               /\ contract.risk # "low" => OfKind({"test"}) \subseteq selected
               /\ contract.risk = "high" => DOMAIN profile \subseteq selected
               /\ \A i \in DOMAIN contract.criteria :
                      LET s == contract.criteria[i]
                      IN  OfKind(KindsOf[s]) \cup Flows(s) \cup Scenarios(s)
                              \subseteq selected]_vars
  BY <1>1, CurrentPlanRequires DEF Proofs
<1> QED
  BY <1>2, PlanInvariant, PTL DEF Spec, AuthorityMeetsConfiguration
=============================================================================
