--------------------------- MODULE BenchmarkProofs ---------------------------
(***************************************************************************)
(* Whatever is edited, interrupted, mixed or published twice: a variant is *)
(* offered for promotion only on a finished matrix of one screen, and a    *)
(* replay that accepts a file as attested decides what its screen decided. *)
(***************************************************************************)
EXTENDS Benchmark, FiniteSetTheorems, TLAPS

CopyType == [changes : Nat, settings : Nat, hooks : BOOLEAN]
TreatmentType == [variant : Names, build : Versions, settings : Versions]
Observation ==
    [variant : Names, scenario : STRING, repetition : Nat, order : Nat,
     captured : BOOLEAN, verified : Versions \cup {None}, environment : Versions,
     treatment : TreatmentType \cup {None}, score : 0..1]

Matrix(plan) ==
    Range(plan.variants) \X Range(plan.scenarios) \X (1..plan.repetitions)

IsPlan(plan) ==
    /\ plan \in PlanType /\ plan.variants # <<>> /\ plan.scenarios # <<>>
    /\ IsInjective(plan.variants) /\ IsInjective(plan.scenarios)

-----------------------------------------------------------------------------
(* Arithmetic of the rotation.                                             *)

LEMMA ModBound ==
    ASSUME NEW a \in Nat, NEW n \in Nat \ {0}
    PROVE  a % n \in 0..(n - 1)
  OBVIOUS

LEMMA DivMod ==
    ASSUME NEW a \in Nat, NEW n \in Nat \ {0}
    PROVE  a = n * (a \div n) + (a % n) /\ a \div n \in Nat
  OBVIOUS

LEMMA DivBound ==
    ASSUME NEW a \in Nat, NEW n \in Nat \ {0}, NEW b \in Nat, a < n * b
    PROVE  a \div n \in 0..(b - 1)
<1> DEFINE q == a \div n
<1>1. a = n * q + (a % n) /\ q \in Nat /\ a % n \in 0..(n - 1)
  BY DivMod, ModBound
<1>2. ASSUME q >= b PROVE FALSE
  <2>1. q - b \in Nat
    BY <1>1, <1>2
  <2>2. n * q = n * b + n * (q - b)
    BY <1>1, <2>1
  <2>3. n * (q - b) >= 0 /\ n * b \in Nat /\ n * q \in Nat
    BY <1>1, <2>1
  <2> QED
    BY <1>1, <2>2, <2>3
<1> QED
  BY <1>1, <1>2

LEMMA ProductPositive ==
    ASSUME NEW a \in Nat \ {0}, NEW b \in Nat \ {0}
    PROVE  a * b \in Nat \ {0}
  OBVIOUS

LEMMA PlanParts ==
    ASSUME NEW plan, IsPlan(plan)
    PROVE  /\ plan.variants \in Seq(Names) /\ plan.scenarios \in Seq(STRING)
           /\ Len(plan.variants) \in Nat \ {0} /\ Len(plan.scenarios) \in Nat \ {0}
           /\ plan.repetitions \in Nat \ {0} /\ plan.scores \in [Names -> 0..1]
           /\ Total(plan) \in Nat \ {0}
<1>1. /\ plan.variants \in Seq(Names) /\ plan.scenarios \in Seq(STRING)
      /\ plan.repetitions \in Nat \ {0} /\ plan.scores \in [Names -> 0..1]
  BY DEF IsPlan, PlanType
<1>2. Len(plan.variants) \in Nat \ {0} /\ Len(plan.scenarios) \in Nat \ {0}
  BY <1>1 DEF IsPlan
<1>3. Len(plan.variants) * Len(plan.scenarios) \in Nat \ {0}
  BY <1>2, ProductPositive
<1>4. Total(plan) \in Nat \ {0}
  BY <1>1, <1>3, ProductPositive DEF Total
<1> QED
  BY <1>1, <1>2, <1>4

LEMMA Rotated ==
    ASSUME NEW n \in Nat \ {0}, NEW b \in Nat
    PROVE  1 + (b % n) \in 1..n
<1>1. b % n \in 0..(n - 1)
  BY ModBound
<1> QED
  BY <1>1

LEMMA ScenarioIndex ==
    ASSUME NEW n \in Nat \ {0}, NEW reps \in Nat \ {0}, NEW scen \in Nat \ {0},
           NEW a \in Nat, a < (n * scen) * reps
    PROVE  1 + a \div (n * reps) \in 1..scen
<1>1. n * reps \in Nat \ {0}
  BY ProductPositive
<1>2. (n * scen) * reps = (n * reps) * scen
  OBVIOUS
<1>3. a < (n * reps) * scen
  BY <1>2
<1>4. a \div (n * reps) \in 0..(scen - 1)
  BY <1>1, <1>3, DivBound
<1>5. PICK q \in 0..(scen - 1) : q = a \div (n * reps)
  BY <1>4
<1>6. 1 + q \in 1..scen
  OBVIOUS
<1> QED
  BY <1>5, <1>6

LEMMA RepetitionIndex ==
    ASSUME NEW n \in Nat \ {0}, NEW reps \in Nat \ {0}, NEW a \in Nat
    PROVE  1 + ((a \div n) % reps) \in 1..reps
<1>1. PICK q \in Nat : q = a \div n
  BY DivMod
<1>2. 1 + (q % reps) \in 1..reps
  BY Rotated
<1> QED
  BY <1>1, <1>2

(* Every position of the rotation is a run of the matrix.                  *)
LEMMA RequestInMatrix ==
    ASSUME NEW plan, IsPlan(plan), NEW seed \in Nat, NEW m \in 1..Total(plan)
    PROVE  /\ Request(plan, seed, m).variant \in Range(plan.variants)
           /\ Request(plan, seed, m).scenario \in Range(plan.scenarios)
           /\ Request(plan, seed, m).repetition \in 1..plan.repetitions
           /\ Request(plan, seed, m).order \in Nat
<1>1. PICK n \in Nat \ {0} : n = Len(plan.variants)
  BY PlanParts
<1>2. PICK reps \in Nat \ {0} : reps = plan.repetitions
  BY PlanParts
<1>3. PICK scen \in Nat \ {0} : scen = Len(plan.scenarios)
  BY PlanParts
<1>4. PICK a \in Nat : a = m - 1 /\ a < (n * scen) * reps
  <2>1. PICK total \in Nat \ {0} : total = Total(plan)
    BY PlanParts
  <2>2. total = (n * scen) * reps
    BY <1>1, <1>2, <1>3, <2>1 DEF Total
  <2>3. PICK a \in Nat : a = m - 1 /\ a < total
    BY <2>1
  <2> QED
    BY <2>2, <2>3
<1>5. PICK i \in 1..scen : i = 1 + a \div (n * reps)
  BY <1>4, ScenarioIndex
<1>6. PICK r \in 1..reps : r = 1 + ((a \div n) % reps)
  BY RepetitionIndex
<1>7. PICK k \in 1..n : k = 1 + (a % n)
  BY Rotated
<1>8. PICK o \in Nat : o = Offset(plan, seed, i, r)
  <2>1. PICK b \in Nat : b = seed + (i - 1) + r - 1
    OBVIOUS
  <2>2. b % n \in Nat
    BY ModBound
  <2> QED
    BY <1>1, <2>1, <2>2 DEF Offset
<1>9. PICK v \in 1..n : v = 1 + ((k - 1 + o) % n)
  <2>1. PICK b \in Nat : b = k - 1 + o
    OBVIOUS
  <2> QED
    BY <2>1, Rotated
<1>10. Request(plan, seed, m) =
        [variant |-> plan.variants[v], scenario |-> plan.scenarios[i],
         repetition |-> r, order |-> k]
  BY <1>1, <1>2, <1>4, <1>5, <1>6, <1>7, <1>8, <1>9, Zenon DEF Request
<1>11. DOMAIN plan.variants = 1..n /\ DOMAIN plan.scenarios = 1..scen
  BY <1>1, <1>3, PlanParts
<1>12. plan.variants[v] \in Range(plan.variants)
       /\ plan.scenarios[i] \in Range(plan.scenarios)
  BY <1>11 DEF Range
<1> QED
  BY <1>2, <1>10, <1>12

-----------------------------------------------------------------------------
(* A full matrix by counting: as many different runs as it has cells.      *)

LEMMA IntervalSize ==
    ASSUME NEW n \in Nat
    PROVE  IsFiniteSet(1..n) /\ Cardinality(1..n) = n
  BY FS_Interval

LEMMA RangeSize ==
    ASSUME NEW S, NEW seq \in Seq(S)
    PROVE  IsFiniteSet(Range(seq)) /\ Cardinality(Range(seq)) \in 0..Len(seq)
<1>1. Len(seq) \in Nat /\ DOMAIN seq = 1..Len(seq)
  OBVIOUS
<1>2. seq \in Surjection(1..Len(seq), Range(seq))
  BY <1>1 DEF Surjection, Range
<1>3. IsFiniteSet(1..Len(seq)) /\ Cardinality(1..Len(seq)) = Len(seq)
  BY <1>1, FS_Interval
<1>4. IsFiniteSet(Range(seq)) /\ Cardinality(Range(seq)) <= Len(seq)
  BY <1>2, <1>3, FS_Surjection
<1> QED
  BY <1>1, <1>4, FS_CardinalityType

LEMMA ProductGrows ==
    ASSUME NEW a \in Nat, NEW b \in Nat, NEW c \in 0..a, NEW d \in 0..b
    PROVE  c * d \in 0..(a * b)
<1>1. a * b = c * d + (a - c) * b + c * (b - d)
  OBVIOUS
<1>2. (a - c) * b \in Nat /\ c * (b - d) \in Nat /\ c * d \in Nat /\ a * b \in Nat
  OBVIOUS
<1> QED
  BY <1>1, <1>2

LEMMA MatrixSize ==
    ASSUME NEW plan, IsPlan(plan)
    PROVE  IsFiniteSet(Matrix(plan)) /\ Cardinality(Matrix(plan)) \in 0..Total(plan)
<1> DEFINE V == Range(plan.variants)
           S == Range(plan.scenarios)
           R == 1..plan.repetitions
           f == [x \in (V \X S) \X R |-> <<x[1][1], x[1][2], x[2]>>]
<1>1. /\ IsFiniteSet(V) /\ Cardinality(V) \in 0..Len(plan.variants)
      /\ IsFiniteSet(S) /\ Cardinality(S) \in 0..Len(plan.scenarios)
  BY PlanParts, RangeSize
<1>2. IsFiniteSet(R) /\ Cardinality(R) = plan.repetitions
  <2>1. plan.repetitions \in Nat
    BY PlanParts
  <2> QED
    BY <2>1, IntervalSize
<1>3. /\ IsFiniteSet((V \X S) \X R)
      /\ Cardinality((V \X S) \X R)
           = (Cardinality(V) * Cardinality(S)) * plan.repetitions
  <2>1. IsFiniteSet(V \X S) /\ Cardinality(V \X S) = Cardinality(V) * Cardinality(S)
    BY <1>1, FS_Product
  <2> HIDE DEF V, S, R
  <2> QED
    BY <1>2, <2>1, FS_Product
<1>4. Cardinality(V) * Cardinality(S) \in 0..(Len(plan.variants) * Len(plan.scenarios))
  BY <1>1, PlanParts, ProductGrows
<1>5. (Cardinality(V) * Cardinality(S)) * plan.repetitions \in 0..Total(plan)
  <2>1. PICK a \in Nat : a = Len(plan.variants) * Len(plan.scenarios)
    <3>1. Len(plan.variants) \in Nat \ {0} /\ Len(plan.scenarios) \in Nat \ {0}
      BY PlanParts
    <3> HIDE DEF V, S, R, f
    <3> QED
      BY <3>1, ProductPositive
  <2>2. PICK c \in 0..a : c = Cardinality(V) * Cardinality(S)
    BY <1>4, <2>1
  <2>3. plan.repetitions \in Nat /\ plan.repetitions \in 0..plan.repetitions
    BY PlanParts
  <2>4. c * plan.repetitions \in 0..(a * plan.repetitions)
    BY <2>3, ProductGrows
  <2> QED
    BY <2>1, <2>2, <2>4 DEF Total
<1>6. f \in Surjection((V \X S) \X R, Matrix(plan))
  <2>1. f \in [(V \X S) \X R -> Matrix(plan)]
    BY DEF Matrix
  <2>2. ASSUME NEW t \in Matrix(plan) PROVE \E x \in (V \X S) \X R : f[x] = t
    <3>1. PICK v \in V, s \in S, r \in R : t = <<v, s, r>>
      BY <2>2 DEF Matrix
    <3>2. <<<<v, s>>, r>> \in (V \X S) \X R
      OBVIOUS
    <3>3. f[<<<<v, s>>, r>>] = t
      BY <3>1, <3>2
    <3> QED
      BY <3>2, <3>3
  <2> HIDE DEF f
  <2> QED
    BY <2>1, <2>2 DEF Surjection
<1> HIDE DEF f, V, S, R
<1>7. IsFiniteSet(Matrix(plan))
      /\ Cardinality(Matrix(plan)) <= Cardinality((V \X S) \X R)
  BY <1>3, <1>6, FS_Surjection
<1>8. Cardinality(Matrix(plan)) \in Nat /\ Total(plan) \in Nat
  BY <1>7, FS_CardinalityType, PlanParts
<1> QED
  BY <1>3, <1>5, <1>7, <1>8

LEMMA FullMatrix ==
    ASSUME NEW plan, IsPlan(plan), NEW obs \in Seq(Observation),
           Len(obs) = Total(plan),
           \A i \in DOMAIN obs : RunId(obs[i]) \in Matrix(plan),
           \A i, j \in DOMAIN obs : RunId(obs[i]) = RunId(obs[j]) => i = j
    PROVE  {RunId(obs[i]) : i \in DOMAIN obs} = Matrix(plan)
<1> DEFINE f == [i \in 1..Total(plan) |-> RunId(obs[i])]
<1>1. DOMAIN obs = 1..Total(plan) /\ Total(plan) \in Nat
  BY PlanParts
<1>2. f \in Injection(1..Total(plan), Matrix(plan))
  BY <1>1 DEF Injection, IsInjective
<1>3. Cardinality(1..Total(plan)) = Total(plan)
  BY <1>1, FS_Interval
<1>4. Cardinality(1..Total(plan)) <= Cardinality(Matrix(plan))
      /\ (Cardinality(1..Total(plan)) = Cardinality(Matrix(plan))
            => f \in Surjection(1..Total(plan), Matrix(plan)))
  BY <1>2, MatrixSize, FS_Injection
<1>5. f \in Surjection(1..Total(plan), Matrix(plan))
  BY <1>1, <1>3, <1>4, MatrixSize
<1>6. \A t \in Matrix(plan) : \E i \in 1..Total(plan) : RunId(obs[i]) = t
  BY <1>5 DEF Surjection
<1> QED
  BY <1>1, <1>6

(* A control that has run three times in each scenario was asked to.       *)
LEMMA ThreeRepetitions ==
    ASSUME NEW plan, IsPlan(plan), NEW obs \in Seq(Observation), obs # <<>>,
           NEW control,
           \A i \in DOMAIN obs : RunId(obs[i]) \in Matrix(plan),
           \A n \in Repetitions(obs, control) : ~(n < 3)
    PROVE  plan.repetitions >= 3
<1> DEFINE s == obs[1].scenario
           C == {c \in CellsOf(obs, control) : c[1] = s}
           f == [c \in C |-> c[2]]
<1>1. obs[1] \in Range(obs)
  BY DEF Range
<1>2. Cardinality(C) \in Repetitions(obs, control)
  BY <1>1 DEF Repetitions
<1>3. ASSUME NEW c \in C
      PROVE  c = <<s, c[2]>> /\ c[2] \in 1..plan.repetitions
  <2>1. PICK i \in DOMAIN obs : c = Cell(obs[i])
    BY <1>3 DEF CellsOf, Range
  <2>2. obs[i].repetition \in 1..plan.repetitions
    BY DEF RunId, Matrix
  <2> QED
    BY <1>3, <2>1, <2>2 DEF Cell
<1>4. f \in Injection(C, 1..plan.repetitions)
  <2> HIDE DEF C
  <2> QED
    BY <1>3 DEF Injection, IsInjective
<1>5. IsFiniteSet(1..plan.repetitions)
      /\ Cardinality(1..plan.repetitions) = plan.repetitions
      /\ plan.repetitions \in Nat
  <2>1. plan.repetitions \in Nat
    BY PlanParts
  <2> QED
    BY <2>1, IntervalSize
<1> HIDE DEF f, C
<1>6. IsFiniteSet(C) /\ Cardinality(C) <= plan.repetitions
  BY <1>4, <1>5, FS_Injection
<1>7. Cardinality(C) \in Nat
  BY <1>6, FS_CardinalityType
<1> QED
  BY <1>2, <1>5, <1>6, <1>7

-----------------------------------------------------------------------------
(* What a comparison says.                                                 *)

LEMMA CompareShape ==
    ASSUME NEW obs, NEW control, NEW reference, NEW provenance
    PROVE  LET r == Compare(obs, control, reference, provenance) IN
           /\ r.decision \in Decisions \ {"none"}
           /\ r.flags \subseteq VariantsOf(obs)
           /\ r.decision # "error" =>
                 /\ Comparable(obs, control, reference)
                 /\ r.decision = Decision(obs, control, provenance)
                 /\ r.flags = Regressions(obs, control, reference)
                 /\ r.control = control
<1>1. Decision(obs, control, provenance) \in {"unattested", "incomplete", "screen", "review"}
  BY DEF Decision
<1>2. Regressions(obs, control, reference) \subseteq VariantsOf(obs)
  BY DEF Regressions
<1> QED
  BY <1>1, <1>2 DEF Compare, NoReport, Decisions

LEMMA ReviewMeans ==
    ASSUME NEW obs, NEW control, NEW provenance,
           Decision(obs, control, provenance) = "review"
    PROVE  /\ \A o \in Range(obs) : Complete(o)
           /\ \A n \in Repetitions(obs, control) : ~(n < 3)
           /\ provenance # "unattested-replay"
  BY DEF Decision

(* All variants have run in the same cells: the decision does not depend   *)
(* on which of them is the control.                                        *)
LEMMA DecisionsAgree ==
    ASSUME NEW obs, NEW c1, NEW r1, NEW p1, NEW c2, NEW r2, NEW p2,
           Comparable(obs, c1, r1), Comparable(obs, c2, r2),
           p1 # "unattested-replay", p2 # "unattested-replay"
    PROVE  Decision(obs, c1, p1) = Decision(obs, c2, p2)
<1>1. CellsOf(obs, c1) = CellsOf(obs, c2)
  BY DEF Comparable
<1>2. Repetitions(obs, c1) = Repetitions(obs, c2)
  BY <1>1 DEF Repetitions
<1> QED
  BY <1>2 DEF Decision

LEMMA VariantsAreNames ==
    ASSUME NEW obs \in Seq(Observation)
    PROVE  VariantsOf(obs) \subseteq Names
<1>1. ASSUME NEW o \in Range(obs) PROVE o \in Observation
  BY <1>1 DEF Range
<1>2. ASSUME NEW o \in Observation PROVE o.variant \in Names
  BY <1>2 DEF Observation
<1> QED
  BY <1>1, <1>2 DEF VariantsOf

-----------------------------------------------------------------------------
(* The inductive invariant: of a screen s, whose plan is one of P, when    *)
(* there have been n external changes ...                                  *)
ScreenShape(s, P, n) ==
    /\ DOMAIN s = {"step", "plan", "seed", "build", "copy", "log", "copies", "run",
                   "report"}
    /\ s.step \in Steps /\ s.plan \in P \cup {None} /\ s.seed \in Nat
    /\ s.build \in 0..n
    /\ s.copy \in CopyType /\ s.copy.changes <= n /\ s.copy.settings <= n
    /\ s.log \in Seq(Observation) /\ s.copies \in Seq(CopyType)
    /\ Len(s.copies) = Len(s.log)
    /\ DOMAIN s.run = {"environment", "copy", "treatment"}
    /\ s.run.environment \in 0..n /\ s.run.copy \in CopyType
    /\ s.run.treatment \in TreatmentType \cup {None}
    /\ IsReport(s.report)

(* A run of the log is one of the matrix and was prepared from the copy as *)
(* it was frozen, where somebody looks at it.                              *)
RunSound(plan, o, copy) ==
    /\ RunId(o) \in Matrix(plan)
    /\ o.variant # "control"
          /\ ((plan.trusted /\ copy.hooks) \/ (o.scenario \in Checked /\ o.verified # None))
       => copy.changes = 0

MatrixSound(s) ==
    /\ s.step = "idle" => s = NotStarted
    /\ s.plan = None =>
          s.step \in {"idle", "failed"} /\ s.log = <<>> /\ s.report.decision = "none"
    /\ s.plan # None =>
          /\ Len(s.log) <= Total(s.plan)
          /\ \A i \in DOMAIN s.log : RunSound(s.plan, s.log[i], s.copies[i])
    /\ s.run # NoRun =>
          /\ s.step = "matrix" /\ Len(s.log) < Total(s.plan)
          /\ s.run.copy.changes <= s.copy.changes
          /\ s.plan.trusted /\ s.run.copy.hooks
                /\ Request(s.plan, s.seed, Len(s.log) + 1).variant # "control"
             => s.run.copy.changes = 0

ReportSound(s) ==
    /\ s.report.decision # "none" =>
          /\ s.step \notin {"idle", "matrix"}
          /\ s.plan # None /\ Len(s.log) = Total(s.plan) /\ Judged(s.log)
          /\ s.report = Compare(s.log, Control(s.log), Reference(s.log), "live-in-memory")
    /\ s.step \in {"key", "keying", "payload", "sidecar", "done"} =>
          s.report.decision \notin {"none", "error"}

ScreenSound(s, P, n) == ScreenShape(s, P, n) /\ MatrixSound(s) /\ ReportSound(s)

(* ... and of the files and the replay: what a sidecar attests is the log  *)
(* of a screen that is done, and so is what a replay has verified.         *)
Published(text) == \E p \in Screens : screen[p].step = "done" /\ screen[p].log = text

KeySound ==
    /\ key \in {"absent", "empty", "usable"}
    /\ \A p \in Screens :
          /\ screen[p].step = "keying" => key # "absent"
          /\ screen[p].step \in {"payload", "sidecar"} => key = "usable"
    /\ sidecar # None => key = "usable" /\ Published(sidecar)

ReplaySound ==
    /\ payload # None => payload \in Seq(Observation)
    /\ DOMAIN replay = {"step", "text", "verified", "report"}
    /\ replay.step \in {"start", "read", "done"} /\ replay.text \in Seq(Observation)
    /\ replay.step # "done" => replay.verified = FALSE /\ replay.report = NoReport
    /\ replay.step = "done" =>
          \E control \in Names, ok \in BOOLEAN :
             /\ replay.verified = ok
             /\ replay.report = ReplayReport(replay.text, control, ok)
             /\ ok => Published(replay.text)

BenchmarkInv ==
    /\ events \in 0..MaxEvents /\ fixture \in 0..events /\ installer \in 0..events
    /\ DOMAIN screen = Screens
    /\ \A p \in Screens : ScreenSound(screen[p], Plans[p], events)
    /\ KeySound /\ ReplaySound

LEMMA PlansArePlans ==
    ASSUME NEW p \in Screens, NEW plan \in Plans[p]
    PROVE  IsPlan(plan) /\ plan # None
  BY PlansAssumption, NoneAssumption DEF IsPlan

-----------------------------------------------------------------------------
(* What the invariant means for a screen that offers a promotion.          *)
LEMMA OffersAreEvidence ==
    ASSUME BenchmarkInv, NEW p \in Screens, screen[p].report.decision = "review"
    PROVE  IsEvidence(screen[p].log)
<1> DEFINE s == screen[p]
           obs == s.log
           plan == s.plan
<1>1. ScreenShape(s, Plans[p], events) /\ MatrixSound(s) /\ ReportSound(s)
  BY DEF BenchmarkInv, ScreenSound
<1>2. /\ plan # None /\ Len(obs) = Total(plan) /\ Judged(s.log)
      /\ s.report = Compare(obs, Control(obs), Reference(obs), "live-in-memory")
  BY <1>1 DEF ReportSound
<1>3. IsPlan(plan) /\ obs \in Seq(Observation)
  BY <1>1, <1>2, PlansArePlans DEF ScreenShape
<1>4. /\ Comparable(obs, Control(obs), Reference(obs))
      /\ Decision(obs, Control(obs), "live-in-memory") = "review"
  BY <1>2, CompareShape
<1>5. /\ \A o \in Range(obs) : Complete(o)
      /\ \A n \in Repetitions(obs, Control(obs)) : ~(n < 3)
  BY <1>4, ReviewMeans
<1>6. \A i \in DOMAIN obs : RunSound(plan, obs[i], s.copies[i]) /\ Complete(obs[i])
  BY <1>1, <1>2, <1>5 DEF MatrixSound, Range
<1>7. obs # <<>> /\ \A i, j \in DOMAIN obs : RunId(obs[i]) = RunId(obs[j]) => i = j
  BY <1>4 DEF Comparable
<1>8. \A i \in DOMAIN obs : RunId(obs[i]) \in Matrix(plan)
  BY <1>6 DEF RunSound
<1>9. {RunId(obs[i]) : i \in DOMAIN obs} = Matrix(plan)
  BY <1>2, <1>3, <1>7, <1>8, FullMatrix
<1>10. plan.repetitions >= 3
  BY <1>3, <1>5, <1>7, <1>8, ThreeRepetitions
<1>11. \A i \in DOMAIN obs :
         /\ Complete(obs[i])
         /\ obs[i].variant # "control"
              /\ (obs[i].scenario \in Checked \/ (plan.trusted /\ s.copies[i].hooks))
              => s.copies[i].changes = 0
  BY <1>6 DEF RunSound, Complete
<1>12. Judged(obs)
  BY <1>2
<1> QED
  BY <1>2, <1>9, <1>10, <1>11, <1>12 DEF IsEvidence, Matrix

-----------------------------------------------------------------------------
(* The steps of a screen.                                                  *)

LEMMA ScreenGrows ==
    ASSUME NEW s, NEW P, NEW n \in Nat, NEW m \in Nat, n <= m, ScreenSound(s, P, n)
    PROVE  ScreenSound(s, P, m)
<1>1. s.copy.changes \in Int /\ s.copy.settings \in Int
  BY DEF ScreenSound, ScreenShape, CopyType
<1>2. ScreenShape(s, P, m)
  BY <1>1 DEF ScreenSound, ScreenShape
<1> QED
  BY <1>2 DEF ScreenSound

LEMMA BlankSound ==
    ASSUME NEW P, NEW n \in Nat, NEW step \in {"idle", "failed"}
    PROVE  ScreenSound([NotStarted EXCEPT !.step = step], P, n)
<1> DEFINE s == [NotStarted EXCEPT !.step = step]
<1>1. /\ DOMAIN s = {"step", "plan", "seed", "build", "copy", "log", "copies", "run",
                     "report"}
      /\ s.step = step /\ s.plan = None /\ s.seed = 0 /\ s.build = 0 /\ s.copy = Frozen
      /\ s.log = <<>> /\ s.copies = <<>> /\ s.run = NoRun /\ s.report = NoReport
      /\ step = "idle" => s = NotStarted
  BY DEF NotStarted
<1> HIDE DEF s
<1>2. /\ DOMAIN NoRun = {"environment", "copy", "treatment"}
      /\ NoRun.environment = 0 /\ NoRun.copy = Frozen /\ NoRun.treatment = None
      /\ Frozen \in CopyType /\ Frozen.changes = 0 /\ Frozen.settings = 0
      /\ NoReport.decision = "none" /\ NoReport.flags = {}
  BY DEF NoRun, NoReport, Frozen, CopyType
<1>3. <<>> \in Seq(Observation) /\ <<>> \in Seq(CopyType) /\ Len(<<>>) = 0
  OBVIOUS
<1>4. ScreenShape(s, P, n)
  BY <1>1, <1>2, <1>3 DEF ScreenShape, Steps, IsReport, Decisions
<1>5. MatrixSound(s) /\ ReportSound(s)
  BY <1>1, <1>2 DEF MatrixSound, ReportSound
<1> QED
  BY <1>4, <1>5 DEF ScreenSound, s

(* What a step that makes a screen s leaves of the others.                 *)
Others(p) == \A q \in Screens \ {p} : screen'[q] = screen[q]

LEMMA Becoming ==
    ASSUME BenchmarkInv, NEW p \in Screens, NEW s, Become(p, s)
    PROVE  DOMAIN screen' = Screens /\ screen'[p] = s /\ Others(p)
  BY DEF BenchmarkInv, Become, Others

LEMMA FailKeeps ==
    ASSUME BenchmarkInv, NEW p \in Screens, Fail(p), NEW n \in Nat
    PROVE  ScreenSound(screen'[p], Plans[p], n)
<1>1. screen'[p] = [NotStarted EXCEPT !.step = "failed"]
  BY Becoming DEF Fail
<1> QED
  BY <1>1, BlankSound

LEMMA StartKeeps ==
    ASSUME BenchmarkInv, NEW p \in Screens, Start(p)
    PROVE  ScreenSound(screen'[p], Plans[p], events')
<1>0. PICK plan \in Plans[p] : \E seed \in 0..(Len(plan.variants) - 1) :
        Become(p, [screen[p] EXCEPT !.step = "matrix", !.plan = plan, !.seed = seed,
                                    !.build = installer])
  BY DEF Start
<1>1. PICK seed \in 0..(Len(plan.variants) - 1) :
        Become(p, [screen[p] EXCEPT !.step = "matrix", !.plan = plan, !.seed = seed,
                                    !.build = installer])
  BY <1>0
<1>2. IsPlan(plan) /\ plan # None
  BY PlansArePlans
<1>3. screen[p] = NotStarted /\ ScreenShape(screen[p], Plans[p], events)
  BY DEF Start, BenchmarkInv, ScreenSound, MatrixSound
<1> DEFINE s == [screen[p] EXCEPT !.step = "matrix", !.plan = plan, !.seed = seed,
                                  !.build = installer]
<1>4. screen'[p] = s /\ events' = events
  BY <1>1, Becoming DEF Start
<1>5. seed \in Nat
  BY <1>2, PlanParts
<1>6. ScreenShape(s, Plans[p], events)
  BY <1>3, <1>5 DEF ScreenShape, Steps, BenchmarkInv
<1>7. s.step = "matrix" /\ s.plan = plan /\ s.log = <<>> /\ s.run = NoRun
      /\ s.report.decision = "none"
  BY <1>3 DEF NotStarted, NoReport
<1>8. 0 <= Total(plan) /\ Len(<<>>) = 0
  BY <1>2, PlanParts
<1> HIDE DEF s
<1>9. MatrixSound(s)
  BY <1>2, <1>7, <1>8 DEF MatrixSound
<1>10. ReportSound(s)
  BY <1>7 DEF ReportSound
<1> QED
  BY <1>4, <1>6, <1>9, <1>10 DEF ScreenSound

LEMMA PrepareRunKeeps ==
    ASSUME BenchmarkInv, NEW p \in Screens, PrepareRun(p)
    PROVE  ScreenSound(screen'[p], Plans[p], events')
<1>1. events \in Nat /\ events' \in Nat /\ fixture \in 0..events
  BY EventsAssumption DEF BenchmarkInv, PrepareRun
<1>2. CASE Fail(p)
  BY <1>1, <1>2, FailKeeps
<1> DEFINE old == screen[p]
           variant == Request(old.plan, old.seed, Len(old.log) + 1).variant
           run == [environment |-> fixture, copy |-> old.copy,
                   treatment |-> Treatment(old, variant)]
           s == [old EXCEPT !.run = run]
<1>3. CASE ~Fail(p)
  <2>1. /\ Vetted(old, variant)
        /\ Become(p, s) /\ events' = events
        /\ old.step = "matrix" /\ old.run = NoRun /\ Len(old.log) < Total(old.plan)
    BY <1>3 DEF PrepareRun
  <2>2. screen'[p] = s
    BY <2>1, Becoming
  <2>3. ScreenShape(old, Plans[p], events) /\ MatrixSound(old) /\ ReportSound(old)
    BY DEF BenchmarkInv, ScreenSound
  <2>4. variant \in Names
    <3>1. old.plan # None /\ old.seed \in Nat /\ old.log \in Seq(Observation)
      BY <2>1, <2>3 DEF MatrixSound, ScreenShape
    <3>2. IsPlan(old.plan)
      BY <2>3, <3>1, PlansArePlans DEF ScreenShape
    <3>3. Len(old.log) + 1 \in 1..Total(old.plan)
      BY <2>1, <3>1, <3>2, PlanParts
    <3>4. variant \in Range(old.plan.variants) /\ old.plan.variants \in Seq(Names)
      BY <3>1, <3>2, <3>3, PlanParts, RequestInMatrix
    <3> HIDE DEF variant
    <3> QED
      BY <3>4 DEF Range
  <2>5. Treatment(old, variant) \in TreatmentType \cup {None}
    <3>1. old.build \in Versions /\ old.copy.settings \in Versions
      BY <2>3, EventsAssumption DEF BenchmarkInv, ScreenShape, CopyType, Versions
    <3> HIDE DEF variant
    <3> QED
      BY <2>4, <3>1 DEF Treatment, TreatmentType
  <2>6. /\ DOMAIN run = {"environment", "copy", "treatment"}
        /\ run.environment = fixture /\ run.copy = old.copy
        /\ run.treatment \in TreatmentType \cup {None}
    BY <2>5
  <2> HIDE DEF run, variant
  <2>7. ScreenShape(s, Plans[p], events)
    BY <1>1, <2>3, <2>6 DEF ScreenShape
  <2>8. /\ s.step = "matrix" /\ s.plan = old.plan /\ s.log = old.log /\ s.seed = old.seed
        /\ s.copies = old.copies /\ s.report = old.report /\ s.run = run
        /\ s.copy = old.copy
    BY <2>1, <2>3 DEF ScreenShape
  <2>9. old.copy.changes \in Nat
    BY <2>3 DEF ScreenShape, CopyType
  <2> HIDE DEF s
  <2>10. MatrixSound(s)
    BY <2>1, <2>3, <2>6, <2>8, <2>9 DEF MatrixSound, Vetted, variant
  <2>11. ReportSound(s)
    BY <2>1, <2>3, <2>8 DEF ReportSound
  <2> QED
    BY <2>1, <2>2, <2>7, <2>10, <2>11 DEF ScreenSound
<1> QED
  BY <1>2, <1>3

LEMMA AppendAt ==
    ASSUME NEW S, NEW seq \in Seq(S), NEW e \in S
    PROVE  /\ Append(seq, e) \in Seq(S) /\ Len(Append(seq, e)) = Len(seq) + 1
           /\ \A i \in 1..(Len(seq) + 1) :
                 Append(seq, e)[i] = IF i = Len(seq) + 1 THEN e ELSE seq[i]
  OBVIOUS

LEMMA FinishRunKeeps ==
    ASSUME BenchmarkInv, NEW p \in Screens, FinishRun(p)
    PROVE  ScreenSound(screen'[p], Plans[p], events')
<1> DEFINE old == screen[p]
           next == Request(old.plan, old.seed, Len(old.log) + 1)
           Obs(captured) ==
               [variant |-> next.variant, scenario |-> next.scenario,
                repetition |-> next.repetition, order |-> next.order,
                captured |-> captured, verified |-> HostVerifies(old),
                environment |-> old.run.environment, treatment |-> old.run.treatment,
                score |-> old.plan.scores[next.variant]]
<1>1. ScreenShape(old, Plans[p], events) /\ MatrixSound(old) /\ ReportSound(old)
      /\ events \in 0..MaxEvents /\ fixture \in 0..events
  BY DEF BenchmarkInv, ScreenSound
<1>2. PICK captured \in BOOLEAN :
        /\ ~captured => events < MaxEvents
        /\ events' = IF captured THEN events ELSE events + 1
        /\ Become(p, [old EXCEPT !.log = Append(old.log, Obs(captured)),
                                 !.copies = Append(old.copies, old.run.copy),
                                 !.run = NoRun])
  BY Zenon DEF FinishRun
<1>3. events \in Nat /\ events' \in Nat /\ events <= events' /\ events' <= MaxEvents
  BY <1>1, <1>2, EventsAssumption
<1>4. /\ old.run # NoRun /\ old.step = "matrix" /\ old.plan # None
      /\ old.log \in Seq(Observation) /\ old.copies \in Seq(CopyType)
      /\ Len(old.copies) = Len(old.log) /\ old.seed \in Nat
      /\ Len(old.log) < Total(old.plan) /\ old.run.copy.changes <= old.copy.changes
      /\ old.copy.changes \in Nat /\ old.run.copy \in CopyType
      /\ old.run.copy.changes \in Nat
      /\ old.plan.trusted /\ old.run.copy.hooks /\ next.variant # "control"
           => old.run.copy.changes = 0
  BY <1>1 DEF FinishRun, ScreenShape, MatrixSound, CopyType
<1>5. IsPlan(old.plan)
  BY <1>1, <1>4, PlansArePlans DEF ScreenShape
<1>6. /\ next.variant \in Range(old.plan.variants)
      /\ next.scenario \in Range(old.plan.scenarios)
      /\ next.repetition \in 1..old.plan.repetitions /\ next.order \in Nat
  <2>1. Len(old.log) + 1 \in 1..Total(old.plan)
    BY <1>4, <1>5, PlanParts
  <2> QED
    BY <1>4, <1>5, <2>1, RequestInMatrix
<1>7. /\ next.variant \in Names /\ next.scenario \in STRING /\ next.repetition \in Nat
      /\ old.plan.scores[next.variant] \in 0..1
  <2>1. Range(old.plan.variants) \subseteq Names /\ Range(old.plan.scenarios) \subseteq STRING
    BY <1>5, PlanParts DEF Range
  <2>2. old.plan.repetitions \in Nat /\ old.plan.scores \in [Names -> 0..1]
    BY <1>5, PlanParts
  <2> HIDE DEF next
  <2> QED
    BY <1>6, <2>1, <2>2
<1>8. HostVerifies(old) \in {None, fixture}
      /\ (next.variant # "control" /\ HostVerifies(old) # None => old.copy.changes = 0)
  BY <1>6 DEF HostVerifies, Harnessed
<1>9. /\ fixture \in Versions /\ old.run.environment \in Versions
      /\ old.run.treatment \in TreatmentType \cup {None}
  BY <1>1, EventsAssumption DEF ScreenShape, Versions
<1> DEFINE o == Obs(captured)
<1>10. /\ o.variant = next.variant /\ o.scenario = next.scenario
       /\ o.repetition = next.repetition /\ o.verified = HostVerifies(old)
  OBVIOUS
<1>11. o \in Observation
  BY <1>6, <1>7, <1>8, <1>9 DEF Observation
<1> HIDE DEF o
<1>12. RunSound(old.plan, o, old.run.copy)
  <2>1. RunId(o) \in Matrix(old.plan)
    BY <1>6, <1>10 DEF RunId, Matrix
  <2>2. HostVerifies(old) # None /\ next.variant # "control" => old.run.copy.changes = 0
    BY <1>3, <1>4, <1>8
  <2> HIDE DEF next
  <2> QED
    BY <1>4, <1>10, <2>1, <2>2 DEF RunSound
<1> DEFINE s == [old EXCEPT !.log = Append(old.log, o),
                            !.copies = Append(old.copies, old.run.copy),
                            !.run = NoRun]
<1>13. screen'[p] = s
  BY <1>2, Becoming DEF o
<1>14. /\ s.step = old.step /\ s.plan = old.plan /\ s.log = Append(old.log, o)
       /\ s.copies = Append(old.copies, old.run.copy) /\ s.run = NoRun
       /\ s.report = old.report
  BY <1>1 DEF ScreenShape
<1>15. /\ DOMAIN NoRun = {"environment", "copy", "treatment"}
       /\ NoRun.environment = 0 /\ NoRun.copy \in CopyType /\ NoRun.treatment = None
  BY DEF NoRun, Frozen, CopyType
<1>16. /\ Append(old.log, o) \in Seq(Observation)
       /\ Append(old.copies, old.run.copy) \in Seq(CopyType)
       /\ Len(Append(old.log, o)) = Len(old.log) + 1
       /\ Len(Append(old.copies, old.run.copy)) = Len(old.log) + 1
       /\ \A i \in 1..(Len(old.log) + 1) :
             /\ Append(old.log, o)[i] = IF i = Len(old.log) + 1 THEN o ELSE old.log[i]
             /\ Append(old.copies, old.run.copy)[i]
                  = IF i = Len(old.log) + 1 THEN old.run.copy ELSE old.copies[i]
  <2>1. old.run.copy \in CopyType
    BY <1>4
  <2> HIDE DEF old
  <2> QED
    BY <1>4, <1>11, <2>1, AppendAt
<1>17. ScreenShape(s, Plans[p], events')
  <2>1. /\ ScreenShape(old, Plans[p], events')
        /\ DOMAIN s = DOMAIN old /\ s.seed = old.seed /\ s.build = old.build
        /\ s.copy = old.copy
    <3>1. ScreenSound(old, Plans[p], events')
      BY <1>1, <1>3, ScreenGrows DEF ScreenSound
    <3> QED
      BY <1>1, <3>1 DEF ScreenSound, ScreenShape
  <2>2. 0 <= events'
    BY <1>3
  <2> HIDE DEF s, old
  <2> QED
    BY <1>3, <1>14, <1>15, <1>16, <2>1, <2>2 DEF ScreenShape
<1> HIDE DEF s
<1>18. MatrixSound(s)
  <2>1. Len(s.log) <= Total(s.plan)
    BY <1>4, <1>5, <1>14, <1>16, PlanParts
  <2>2. ASSUME NEW i \in DOMAIN s.log PROVE RunSound(s.plan, s.log[i], s.copies[i])
    <3>1. i \in 1..(Len(old.log) + 1)
      BY <1>14, <1>16
    <3>2. CASE i = Len(old.log) + 1
      BY <1>12, <1>14, <1>16, <3>1, <3>2
    <3>3. CASE i # Len(old.log) + 1
      <4>1. i \in DOMAIN old.log
        BY <1>4, <3>1, <3>3
      <4>2. RunSound(old.plan, old.log[i], old.copies[i])
        BY <1>1, <1>4, <4>1 DEF MatrixSound
      <4> QED
        BY <1>14, <1>16, <3>1, <3>3, <4>2
    <3> QED
      BY <3>2, <3>3
  <2> QED
    BY <1>4, <1>14, <2>1, <2>2 DEF MatrixSound
<1>19. ReportSound(s)
  BY <1>1, <1>4, <1>14 DEF ReportSound
<1> QED
  BY <1>13, <1>17, <1>18, <1>19 DEF ScreenSound

LEMMA JudgeKeeps ==
    ASSUME BenchmarkInv, NEW p \in Screens, Judge(p)
    PROVE  ScreenSound(screen'[p], Plans[p], events')
<1> DEFINE old == screen[p]
           report == Compare(old.log, Control(old.log), Reference(old.log),
                             "live-in-memory")
<1>1. ScreenShape(old, Plans[p], events) /\ MatrixSound(old) /\ events \in 0..MaxEvents
      /\ events' = events
  BY DEF BenchmarkInv, ScreenSound, Judge
<1>2. CASE Fail(p)
  BY <1>1, <1>2, EventsAssumption, FailKeeps
<1>3. CASE ~Fail(p)
  <2>1. /\ old.step = "matrix" /\ old.run = NoRun /\ Len(old.log) = Total(old.plan)
        /\ Judged(old.log)
    BY <1>3 DEF Judge
  <2>2. PICK next \in IF report.decision = "error" THEN {"failed"} ELSE {"key", "done"} :
          Become(p, [old EXCEPT !.step = next, !.report = report])
    BY <1>3 DEF Judge
  <2> DEFINE s == [old EXCEPT !.step = next, !.report = report]
  <2>3. screen'[p] = s
    BY <2>2, Becoming
  <2>4. /\ s.step = next /\ s.plan = old.plan /\ s.log = old.log /\ s.run = NoRun
        /\ s.report = report /\ s.copies = old.copies
    BY <1>1, <2>1 DEF ScreenShape
  <2>5. report.decision \in Decisions \ {"none"} /\ report.flags \subseteq Names
    <3>1. VariantsOf(old.log) \subseteq Names
      BY <1>1, VariantsAreNames DEF ScreenShape
    <3> QED
      BY <3>1, CompareShape
  <2>6. next \in {"failed", "key", "done"} /\ (report.decision = "error" => next = "failed")
    BY <2>2
  <2> HIDE DEF report
  <2>7. ScreenShape(s, Plans[p], events)
    BY <1>1, <2>5, <2>6 DEF ScreenShape, Steps, IsReport
  <2> HIDE DEF s
  <2>8. old.plan # None
    BY <1>1, <2>1 DEF MatrixSound
  <2>9. MatrixSound(s)
    BY <1>1, <2>4, <2>6, <2>8 DEF MatrixSound
  <2>10. Judged(s.log)
    BY <2>1, <2>4 DEF Judged
  <2>11. ReportSound(s)
    BY <2>1, <2>4, <2>5, <2>6, <2>8, <2>10 DEF ReportSound, report
  <2> QED
    BY <1>1, <2>3, <2>7, <2>9, <2>11 DEF ScreenSound
<1> QED
  BY <1>2, <1>3

(* A screen that publishes, ends or dies keeps its matrix and its report.  *)
LEMMA MoveKeeps ==
    ASSUME BenchmarkInv, NEW p \in Screens, Moves(p, "payload") \/ Moves(p, "sidecar")
             \/ Moves(p, "done") \/ Moves(p, "failed") \/ Moves(p, "keying"),
           screen[p].step \in {"key", "keying", "payload", "sidecar"},
           events' \in {events, events + 1}
    PROVE  ScreenSound(screen'[p], Plans[p], events')
<1> DEFINE old == screen[p]
<1>1. ScreenShape(old, Plans[p], events) /\ MatrixSound(old) /\ ReportSound(old)
      /\ events \in Nat
  BY EventsAssumption DEF BenchmarkInv, ScreenSound
<1>2. PICK next \in {"keying", "payload", "sidecar", "done", "failed"} :
        Become(p, [old EXCEPT !.step = next])
  BY DEF Moves
<1> DEFINE s == [old EXCEPT !.step = next]
<1>3. screen'[p] = s
  BY <1>2, Becoming
<1>4. /\ s.step = next /\ s.plan = old.plan /\ s.log = old.log /\ s.run = old.run
      /\ s.report = old.report /\ s.copies = old.copies
  BY <1>1 DEF ScreenShape
<1>5. ScreenShape(s, Plans[p], events)
  BY <1>1 DEF ScreenShape, Steps
<1> HIDE DEF s
<1>6. old.plan # None /\ old.run = NoRun
  BY <1>1 DEF MatrixSound
<1>7. MatrixSound(s)
  BY <1>1, <1>4, <1>6 DEF MatrixSound
<1>8. Judged(old.log) <=> Judged(s.log)
  BY <1>4 DEF Judged
<1>9. ReportSound(s)
  BY <1>1, <1>4, <1>8 DEF ReportSound
<1>10. ScreenSound(s, Plans[p], events)
  BY <1>5, <1>7, <1>9 DEF ScreenSound
<1> QED
  BY <1>1, <1>3, <1>10, ScreenGrows

LEMMA ThawKeeps ==
    ASSUME BenchmarkInv, NEW p \in Screens, Thaw(p)
    PROVE  ScreenSound(screen'[p], Plans[p], events')
<1> DEFINE old == screen[p]
<1>1. /\ ScreenShape(old, Plans[p], events) /\ MatrixSound(old) /\ ReportSound(old)
      /\ events \in Nat /\ events' = events + 1 /\ old.step = "matrix"
  BY EventsAssumption DEF BenchmarkInv, ScreenSound, Thaw
<1>2. PICK n \in Nat : n = old.copy.changes + 1 /\ n <= events + 1
  BY <1>1 DEF ScreenShape, CopyType
<1>3. PICK settings \in {old.copy.settings, n}, hooks \in BOOLEAN :
        Become(p, [old EXCEPT
            !.copy = [changes |-> n, settings |-> settings, hooks |-> hooks]])
  BY <1>2 DEF Thaw
<1> DEFINE copy == [changes |-> n, settings |-> settings, hooks |-> hooks]
           s == [old EXCEPT !.copy = copy]
<1>4. screen'[p] = s
  BY <1>3, Becoming
<1>5. copy \in CopyType /\ copy.changes = n /\ copy.settings <= events + 1
  BY <1>1, <1>2 DEF ScreenShape, CopyType
<1> HIDE DEF copy
<1>6. /\ s.step = old.step /\ s.plan = old.plan /\ s.log = old.log /\ s.run = old.run
      /\ s.report = old.report /\ s.copies = old.copies /\ s.seed = old.seed
      /\ s.copy = copy
  BY <1>1 DEF ScreenShape
<1>7. ScreenShape(s, Plans[p], events + 1)
  BY <1>1, <1>2, <1>5 DEF ScreenShape
<1>8. old.copy.changes \in Nat /\ old.run.copy.changes \in Nat
  BY <1>1 DEF ScreenShape, CopyType
<1> HIDE DEF s
<1>9. MatrixSound(s)
  BY <1>1, <1>2, <1>5, <1>6, <1>8 DEF MatrixSound
<1>10. ReportSound(s)
  BY <1>1, <1>6 DEF ReportSound
<1> QED
  BY <1>1, <1>4, <1>7, <1>9, <1>10 DEF ScreenSound

(* Every step of a screen keeps it sound and leaves the others alone.      *)
LEMMA StepKeeps ==
    ASSUME BenchmarkInv, NEW p \in Screens, Step(p)
    PROVE  /\ ScreenSound(screen'[p], Plans[p], events')
           /\ DOMAIN screen' = Screens /\ Others(p)
           /\ events' \in {events, events + 1} /\ events' <= MaxEvents
           /\ UNCHANGED Sources
<1>1. events \in 0..MaxEvents
  BY DEF BenchmarkInv
<1>2. \E s : Become(p, s)
  BY DEF Step, Start, PrepareRun, FinishRun, Judge, LoadKey, WriteKey, WritePayload,
     WriteSidecar, Die, Thaw, Fail, Moves
<1>3. DOMAIN screen' = Screens /\ Others(p)
  BY <1>2, Becoming
<1>4. /\ events' \in {events, events + 1} /\ events' <= MaxEvents /\ UNCHANGED Sources
  <2>1. /\ UNCHANGED Sources
        /\ events' = events \/ (events' = events + 1 /\ events < MaxEvents)
    <3>1. CASE FinishRun(p)
      BY <3>1, Zenon DEF FinishRun
    <3>2. CASE PrepareRun(p)
      BY <3>2 DEF PrepareRun
    <3>3. CASE Start(p) \/ Judge(p) \/ LoadKey(p) \/ WriteKey(p) \/ WritePayload(p)
               \/ WriteSidecar(p) \/ Die(p) \/ Thaw(p)
      BY <3>3 DEF Start, Judge, LoadKey, WriteKey, WritePayload, WriteSidecar, Die, Thaw
    <3> QED
      BY <3>1, <3>2, <3>3 DEF Step
  <2> QED
    BY <1>1, <2>1, EventsAssumption
<1>5. ASSUME LoadKey(p) \/ WriteKey(p) \/ WritePayload(p) \/ WriteSidecar(p) \/ Die(p)
      PROVE  ScreenSound(screen'[p], Plans[p], events')
  <2>1. /\ Moves(p, "payload") \/ Moves(p, "sidecar") \/ Moves(p, "done")
             \/ Moves(p, "failed") \/ Moves(p, "keying")
        /\ screen[p].step \in {"key", "keying", "payload", "sidecar"}
    BY <1>5 DEF LoadKey, WriteKey, WritePayload, WriteSidecar, Die
  <2> QED
    BY <1>4, <2>1, MoveKeeps
<1>6. ScreenSound(screen'[p], Plans[p], events')
  BY <1>5, StartKeeps, PrepareRunKeeps, FinishRunKeeps, JudgeKeeps, ThawKeeps DEF Step
<1> QED
  BY <1>3, <1>4, <1>6

-----------------------------------------------------------------------------
(* The key, the files and the replay.                                      *)

(* How far a step takes its screen.                                        *)
LEMMA StepsForward ==
    ASSUME BenchmarkInv, NEW p \in Screens, Step(p)
    PROVE  /\ screen[p].step # "done"
           /\ \/ /\ screen'[p].step \notin {"keying", "payload", "sidecar"}
                 /\ UNCHANGED <<key, payload, replay>>
                 /\ \/ UNCHANGED sidecar
                    \/ /\ screen[p].step = "sidecar" /\ sidecar' = screen[p].log
                       /\ screen'[p].step = "done" /\ screen'[p].log = screen[p].log
              \/ LoadKey(p) \/ WriteKey(p) \/ WritePayload(p)
<1> DEFINE old == screen[p]
<1>1. ScreenShape(old, Plans[p], events) /\ MatrixSound(old)
  BY DEF BenchmarkInv, ScreenSound
<1>2. ASSUME NEW step, Moves(p, step)
      PROVE  screen'[p].step = step /\ screen'[p].log = old.log
  BY <1>1, <1>2, Becoming DEF Moves, ScreenShape
<1>3. ASSUME Fail(p) PROVE screen'[p].step = "failed"
  BY <1>3, Becoming DEF Fail, NotStarted
<1>4. ASSUME Start(p)
      PROVE  /\ old.step # "done" /\ screen'[p].step = "matrix"
             /\ UNCHANGED <<key, payload, replay, sidecar>>
  <2>1. old.step = "idle" /\ UNCHANGED Files
    BY <1>4 DEF Start
  <2>2. PICK plan, seed :
          Become(p, [old EXCEPT !.step = "matrix", !.plan = plan, !.seed = seed,
                                !.build = installer])
    BY <1>4 DEF Start
  <2>3. screen'[p].step = "matrix"
    <3>1. screen'[p] = [old EXCEPT !.step = "matrix", !.plan = plan, !.seed = seed,
                                   !.build = installer]
      BY <2>2, Becoming
    <3> QED
      BY <1>1, <3>1 DEF ScreenShape
  <2> QED
    BY <2>1, <2>3 DEF Files
<1>5. ASSUME PrepareRun(p)
      PROVE  /\ old.step # "done" /\ screen'[p].step \in {"matrix", "failed"}
             /\ UNCHANGED <<key, payload, replay, sidecar>>
  <2>1. old.step = "matrix" /\ UNCHANGED Files
    BY <1>5 DEF PrepareRun
  <2>2. Fail(p) \/ \E run : Become(p, [old EXCEPT !.run = run])
    BY <1>5 DEF PrepareRun
  <2>3. \A run : Become(p, [old EXCEPT !.run = run]) => screen'[p].step = "matrix"
    BY <1>1, <2>1, Becoming DEF ScreenShape
  <2> QED
    BY <1>3, <2>1, <2>2, <2>3 DEF Files
<1>6. ASSUME FinishRun(p)
      PROVE  /\ old.step # "done" /\ screen'[p].step = "matrix"
             /\ UNCHANGED <<key, payload, replay, sidecar>>
  <2>1. old.step = "matrix" /\ UNCHANGED Files
    BY <1>1, <1>6 DEF FinishRun, MatrixSound
  <2>2. PICK log, copies, run :
          Become(p, [old EXCEPT !.log = log, !.copies = copies, !.run = run])
    BY <1>6 DEF FinishRun
  <2>3. screen'[p].step = "matrix"
    <3>1. screen'[p] = [old EXCEPT !.log = log, !.copies = copies, !.run = run]
      BY <2>2, Becoming
    <3> QED
      BY <1>1, <2>1, <3>1 DEF ScreenShape
  <2> QED
    BY <2>1, <2>3 DEF Files
<1>7. ASSUME Judge(p)
      PROVE  /\ old.step # "done" /\ screen'[p].step \in {"failed", "key", "done"}
             /\ UNCHANGED <<key, payload, replay, sidecar>>
  <2>1. old.step = "matrix" /\ UNCHANGED Files
    BY <1>7 DEF Judge
  <2>2. Fail(p) \/ \E next \in {"failed", "key", "done"} :
                      \E report : Become(p, [old EXCEPT !.step = next, !.report = report])
    BY <1>7 DEF Judge
  <2>3. ASSUME NEW next \in {"failed", "key", "done"}, NEW report,
               Become(p, [old EXCEPT !.step = next, !.report = report])
        PROVE  screen'[p].step = next
    <3>1. screen'[p] = [old EXCEPT !.step = next, !.report = report]
      BY <2>3, Becoming
    <3> QED
      BY <1>1, <3>1 DEF ScreenShape
  <2> QED
    BY <1>3, <2>1, <2>2, <2>3 DEF Files
<1>8. ASSUME Thaw(p)
      PROVE  /\ old.step # "done" /\ screen'[p].step = "matrix"
             /\ UNCHANGED <<key, payload, replay, sidecar>>
  <2>1. old.step = "matrix" /\ UNCHANGED Files
    BY <1>8 DEF Thaw
  <2>2. PICK copy : Become(p, [old EXCEPT !.copy = copy])
    BY <1>8 DEF Thaw
  <2>3. screen'[p].step = "matrix"
    <3>1. screen'[p] = [old EXCEPT !.copy = copy]
      BY <2>2, Becoming
    <3> QED
      BY <1>1, <2>1, <3>1 DEF ScreenShape
  <2> QED
    BY <2>1, <2>3 DEF Files
<1>9. ASSUME Die(p)
      PROVE  /\ old.step # "done" /\ screen'[p].step = "failed"
             /\ UNCHANGED <<key, payload, replay, sidecar>>
  BY <1>2, <1>9 DEF Die, Files
<1>10. ASSUME WriteSidecar(p)
       PROVE  /\ old.step = "sidecar" /\ sidecar' = old.log
              /\ screen'[p].step = "done" /\ screen'[p].log = old.log
              /\ UNCHANGED <<key, payload, replay>>
  BY <1>2, <1>10 DEF WriteSidecar
<1>11. LoadKey(p) \/ WriteKey(p) \/ WritePayload(p) => old.step # "done"
  BY DEF LoadKey, WriteKey, WritePayload
<1> HIDE DEF old
<1> QED
  BY <1>4, <1>5, <1>6, <1>7, <1>8, <1>9, <1>10, <1>11 DEF Step, old

(* What a screen that is done has published stays published.               *)
LEMMA PublishedStays ==
    ASSUME BenchmarkInv, [Next]_vars
    PROVE  \A text : Published(text) => Published(text)'
<1>1. ASSUME NEW p \in Screens, screen[p].step = "done" PROVE screen'[p] = screen[p]
  <2>1. CASE \E q \in Screens : Step(q)
    <3>1. PICK q \in Screens : Step(q)
      BY <2>1
    <3>2. q # p /\ Others(q)
      BY <1>1, <3>1, StepsForward, StepKeeps
    <3> QED
      BY <3>2 DEF Others
  <2>2. CASE UNCHANGED screen
    BY <2>2
  <2> QED
    BY <2>1, <2>2 DEF Next, ReadPayload, Replay, EditFixture, EditInstaller, EditPayload, vars
<1> QED
  BY <1>1 DEF Published

LEMMA KeyStepKeeps ==
    ASSUME BenchmarkInv, NEW p \in Screens, Step(p),
           LoadKey(p) \/ WriteKey(p) \/ WritePayload(p)
    PROVE  KeySound' /\ UNCHANGED <<sidecar, replay>>
           /\ payload' \in {payload, screen[p].log}
<1> DEFINE old == screen[p]
<1>1. KeySound /\ Others(p) /\ DOMAIN old = {"step", "plan", "seed", "build", "copy",
                                    "log", "copies", "run", "report"}
  BY StepKeeps DEF BenchmarkInv, ScreenSound, ScreenShape
<1>2. ASSUME NEW step, Moves(p, step) PROVE screen'[p].step = step
  <2>1. screen'[p] = [old EXCEPT !.step = step]
    BY <1>2, Becoming DEF Moves
  <2> QED
    BY <1>1, <2>1
<1>3. \A text : Published(text) => Published(text)'
  BY PublishedStays DEF Next
<1>4. UNCHANGED <<sidecar, replay>> /\ payload' \in {payload, screen[p].log}
  BY DEF LoadKey, WriteKey, WritePayload
<1>5. /\ key' \in {"absent", "empty", "usable"} /\ (key = "usable" => key' = "usable")
      /\ key # "absent" => key' # "absent"
      /\ screen'[p].step = "keying" => key' # "absent"
      /\ screen'[p].step \in {"payload", "sidecar"} => key' = "usable"
  <2>1. ASSUME LoadKey(p) PROVE <1>5!:
    BY <1>1, <1>2, <2>1 DEF LoadKey, KeySound
  <2>2. ASSUME WriteKey(p) PROVE <1>5!:
    BY <1>1, <1>2, <2>2 DEF WriteKey, KeySound
  <2>3. ASSUME WritePayload(p) PROVE <1>5!:
    BY <1>1, <1>2, <2>3 DEF WritePayload, KeySound
  <2> QED
    BY <2>1, <2>2, <2>3
<1>6. ASSUME NEW q \in Screens
      PROVE  /\ screen'[q].step = "keying" => key' # "absent"
             /\ screen'[q].step \in {"payload", "sidecar"} => key' = "usable"
  BY <1>1, <1>5 DEF Others, KeySound
<1>7. sidecar' # None => key' = "usable" /\ Published(sidecar)'
  <2>1. sidecar # None => Published(sidecar)'
    BY <1>1, <1>3, <1>4 DEF KeySound, Published
  <2> QED
    BY <1>1, <1>4, <1>5, <2>1 DEF KeySound
<1> QED
  BY <1>4, <1>5, <1>6, <1>7 DEF KeySound

LEMMA KeyKeeps ==
    ASSUME BenchmarkInv, [Next]_vars
    PROVE  KeySound'
<1>1. \A text : Published(text) => Published(text)'
  BY PublishedStays
<1>2. KeySound
  BY DEF BenchmarkInv
<1>3. ASSUME UNCHANGED <<screen, key, sidecar>> PROVE KeySound'
  BY <1>2, <1>3 DEF KeySound, Published
<1>4. ASSUME NEW p \in Screens, Step(p) PROVE KeySound'
  <2>1. CASE LoadKey(p) \/ WriteKey(p) \/ WritePayload(p)
    BY <1>4, <2>1, KeyStepKeeps
  <2>2. CASE ~(LoadKey(p) \/ WriteKey(p) \/ WritePayload(p))
    <3>1. /\ screen'[p].step \notin {"keying", "payload", "sidecar"} /\ UNCHANGED key
          /\ \/ UNCHANGED sidecar
             \/ /\ screen[p].step = "sidecar" /\ sidecar' = screen[p].log
                /\ screen'[p].step = "done" /\ screen'[p].log = screen[p].log
      BY <1>4, <2>2, StepsForward
    <3>2. Others(p)
      BY <1>4, StepKeeps
    <3>3. ASSUME NEW q \in Screens
          PROVE  /\ screen'[q].step = "keying" => key' # "absent"
                 /\ screen'[q].step \in {"payload", "sidecar"} => key' = "usable"
      BY <1>2, <3>1, <3>2 DEF Others, KeySound
    <3>4. sidecar' # None => key' = "usable" /\ Published(sidecar)'
      <4>1. CASE UNCHANGED sidecar
        BY <1>1, <1>2, <3>1, <4>1 DEF KeySound, Published
      <4>2. CASE ~UNCHANGED sidecar
        BY <1>2, <3>1, <4>2 DEF KeySound, Published
      <4> QED
        BY <4>1, <4>2
    <3> QED
      BY <1>2, <3>1, <3>3, <3>4 DEF KeySound
  <2> QED
    BY <2>1, <2>2
<1> QED
  BY <1>3, <1>4 DEF Next, ReadPayload, Replay, EditFixture, EditInstaller, EditPayload, Files, vars

LEMMA EditsAreObservations ==
    ASSUME BenchmarkInv, EditPayload
    PROVE  payload' \in Seq(Observation)
<1>1. payload \in Seq(Observation) /\ payload # <<>>
  BY DEF BenchmarkInv, ReplaySound, EditPayload
<1>2. CASE payload' = Front(payload)
  BY <1>1, <1>2 DEF Front
<1>3. CASE \E i \in DOMAIN payload : payload' = [payload EXCEPT ![i].captured = TRUE]
  <2>1. PICK i \in DOMAIN payload : payload' = [payload EXCEPT ![i].captured = TRUE]
    BY <1>3
  <2>2. payload[i] \in Observation
    BY <1>1
  <2>3. [payload[i] EXCEPT !.captured = TRUE] \in Observation
    BY <2>2 DEF Observation
  <2> QED
    BY <1>1, <2>1, <2>3
<1>4. CASE \E p \in Screens : payload' = payload \o screen[p].log
  <2>1. PICK p \in Screens : payload' = payload \o screen[p].log
    BY <1>4
  <2>2. screen[p].log \in Seq(Observation)
    BY DEF BenchmarkInv, ScreenSound, ScreenShape
  <2> QED
    BY <1>1, <2>1, <2>2
<1> QED
  BY <1>2, <1>3, <1>4 DEF EditPayload

LEMMA ReplayKeeps ==
    ASSUME BenchmarkInv, [Next]_vars
    PROVE  ReplaySound'
<1>1. \A text : Published(text) => Published(text)'
  BY PublishedStays
<1>2. ReplaySound
  BY DEF BenchmarkInv
<1>3. payload' # None => payload' \in Seq(Observation)
  <2>1. ASSUME NEW p \in Screens, Step(p) PROVE payload' \in {payload, screen[p].log}
    BY <2>1, StepsForward, KeyStepKeeps
  <2>2. \A p \in Screens : screen[p].log \in Seq(Observation)
    BY DEF BenchmarkInv, ScreenSound, ScreenShape
  <2>3. payload # None => payload \in Seq(Observation)
    BY <1>2 DEF ReplaySound
  <2>4. CASE EditPayload
    BY <2>4, EditsAreObservations
  <2>5. CASE UNCHANGED payload
    BY <2>3, <2>5
  <2>6. CASE \E p \in Screens : Step(p)
    BY <2>1, <2>2, <2>3, <2>6
  <2> QED
    BY <2>4, <2>5, <2>6 DEF Next, ReadPayload, Replay, EditFixture, EditInstaller, Files,
       vars
<1>4. ASSUME UNCHANGED replay PROVE ReplaySound'
  <2>1. replay.step = "done" =>
          \E control \in Names, ok \in BOOLEAN :
             /\ replay.verified = ok
             /\ replay.report = ReplayReport(replay.text, control, ok)
             /\ ok => Published(replay.text)'
    BY <1>1, <1>2, <1>4 DEF ReplaySound, Published
  <2> QED
    BY <1>2, <1>3, <1>4, <2>1, Zenon DEF ReplaySound
<1>5. ASSUME ReadPayload PROVE ReplaySound'
  <2>1. replay' = [step |-> "read", text |-> payload, verified |-> FALSE,
                   report |-> NoReport]
        /\ payload \in Seq(Observation)
    BY <1>2, <1>5 DEF ReadPayload, ReplaySound
  <2> QED
    BY <1>3, <2>1 DEF ReplaySound
<1>6. ASSUME Replay PROVE ReplaySound'
  <2>1. PICK ok \in BOOLEAN : ok = Verified(replay.text)
    BY DEF Verified
  <2>2. PICK control \in Names :
          replay' = [replay EXCEPT !.step = "done", !.verified = ok,
                                   !.report = ReplayReport(replay.text, control, ok)]
    BY <1>6, <2>1 DEF Replay
  <2>3. ok => Published(replay.text) /\ screen' = screen
    BY <1>6, <2>1 DEF Replay, Verified, BenchmarkInv, KeySound
  <2>4. /\ DOMAIN replay' = {"step", "text", "verified", "report"}
        /\ replay'.step = "done" /\ replay'.text = replay.text
        /\ replay'.verified = ok
        /\ replay'.report = ReplayReport(replay.text, control, ok)
    BY <1>2, <2>2 DEF ReplaySound
  <2>5. ok => Published(replay.text)'
    BY <1>1, <2>3, <2>4 DEF Published
  <2>6. replay'.text \in Seq(Observation)
    BY <1>2, <2>4 DEF ReplaySound
  <2> QED
    BY <1>3, <2>4, <2>5, <2>6 DEF ReplaySound
<1>7. ASSUME NEW p \in Screens, Step(p) PROVE UNCHANGED replay
  BY <1>7, StepsForward, KeyStepKeeps
<1> QED
  BY <1>4, <1>5, <1>6, <1>7 DEF Next, EditFixture, EditInstaller, EditPayload, Files, vars

-----------------------------------------------------------------------------
(* The invariant holds.                                                    *)

LEMMA BenchmarkInit ==
    ASSUME Init
    PROVE  BenchmarkInv
<1>1. \A p \in Screens : ScreenSound(screen[p], Plans[p], events)
  <2>1. [NotStarted EXCEPT !.step = "idle"] = NotStarted
    BY DEF NotStarted
  <2> QED
    BY <2>1, BlankSound DEF Init
<1>2. \A p \in Screens : screen[p].step = "idle"
  BY DEF Init, NotStarted
<1>3. KeySound
  BY <1>2 DEF Init, KeySound
<1>4. ReplaySound
  BY DEF Init, ReplaySound
<1> QED
  BY <1>1, <1>3, <1>4, EventsAssumption DEF Init, BenchmarkInv

LEMMA BenchmarkInductive ==
    ASSUME BenchmarkInv, [Next]_vars
    PROVE  BenchmarkInv'
<1>1. events \in 0..MaxEvents /\ fixture \in 0..events /\ installer \in 0..events
      /\ DOMAIN screen = Screens
      /\ \A p \in Screens : ScreenSound(screen[p], Plans[p], events)
  BY DEF BenchmarkInv
<1> DEFINE Kept == /\ events' \in 0..MaxEvents /\ fixture' \in 0..events'
                   /\ installer' \in 0..events'
                   /\ DOMAIN screen' = Screens
                   /\ \A p \in Screens : ScreenSound(screen'[p], Plans[p], events')
<1>2. ASSUME NEW p \in Screens, Step(p) PROVE Kept
  <2>1. /\ ScreenSound(screen'[p], Plans[p], events')
        /\ DOMAIN screen' = Screens /\ Others(p)
        /\ events' \in {events, events + 1} /\ events' <= MaxEvents
        /\ fixture' = fixture /\ installer' = installer
    BY <1>2, StepKeeps DEF Sources
  <2>2. events \in Nat /\ events' \in Nat /\ events <= events'
    BY <1>1, <2>1, EventsAssumption
  <2>3. ASSUME NEW q \in Screens PROVE ScreenSound(screen'[q], Plans[q], events')
    <3>1. CASE q = p
      BY <2>1, <3>1
    <3>2. CASE q # p
      <4>1. screen'[q] = screen[q]
        BY <2>1, <3>2 DEF Others
      <4>2. ScreenSound(screen[q], Plans[q], events')
        BY <1>1, <2>2, ScreenGrows
      <4> QED
        BY <4>1, <4>2
    <3> QED
      BY <3>1, <3>2
  <2> QED
    BY <1>1, <2>1, <2>2, <2>3, EventsAssumption
<1>3. ASSUME UNCHANGED screen, events' = events, UNCHANGED <<fixture, installer>> PROVE Kept
  BY <1>1, <1>3
<1>4. ASSUME UNCHANGED screen, events < MaxEvents, events' = events + 1,
             fixture' \in {fixture, fixture + 1},
             installer' \in {installer, installer + 1}
      PROVE  Kept
  <2>1. events \in Nat /\ events' \in Nat /\ events <= events'
    BY <1>1, <1>4, EventsAssumption
  <2>2. \A p \in Screens : ScreenSound(screen[p], Plans[p], events')
    BY <1>1, <2>1, ScreenGrows
  <2> QED
    BY <1>1, <1>4, <2>2, EventsAssumption
<1>5. Kept
  <2>1. CASE ReadPayload \/ Replay \/ UNCHANGED vars
    BY <1>3, <2>1 DEF ReadPayload, Replay, Sources, vars
  <2>2. CASE EditFixture \/ EditInstaller \/ EditPayload
    BY <1>4, <2>2 DEF EditFixture, EditInstaller, EditPayload, Sources
  <2> QED
    BY <1>2, <2>1, <2>2 DEF Next
<1> QED
  BY <1>5, KeyKeeps, ReplayKeeps DEF BenchmarkInv

LEMMA BenchmarkInvariant == Spec => []BenchmarkInv
  BY BenchmarkInit, BenchmarkInductive, PTL DEF Spec

-----------------------------------------------------------------------------
(* The theorems.                                                           *)

LEMMA ObservationsAreTyped ==
    ASSUME NEW o \in Observation
    PROVE  IsObservation(o)
  BY DEF Observation, IsObservation, TreatmentType, IsTreatment

(* Screens, published files and reports keep their shape; no file is       *)
(* attested without a usable key (_load_or_create_attestation_key).        *)
THEOREM BenchmarkTypes == Spec => []TypeOK
<1>1. ASSUME BenchmarkInv PROVE TypeOK
  <2>1. ASSUME NEW p \in Screens
        PROVE  /\ screen[p].step \in Steps
               /\ screen[p].plan \in Plans[p] \cup {None}
               /\ IsReport(screen[p].report)
               /\ \A o \in Range(screen[p].log) : IsObservation(o)
               /\ screen[p].plan # None =>
                     Len(screen[p].log) <= Total(screen[p].plan)
    <3>1. ScreenShape(screen[p], Plans[p], events) /\ MatrixSound(screen[p])
      BY <1>1 DEF BenchmarkInv, ScreenSound
    <3>2. \A o \in Range(screen[p].log) : o \in Observation
      BY <3>1 DEF ScreenShape, Range
    <3> QED
      BY <3>1, <3>2, ObservationsAreTyped DEF ScreenShape, MatrixSound
  <2>2. fixture \in Versions /\ installer \in Versions /\ events \in 0..MaxEvents
    BY <1>1, EventsAssumption DEF BenchmarkInv, Versions
  <2>3. key \in {"absent", "empty", "usable"} /\ (sidecar # None => key = "usable")
    BY <1>1 DEF BenchmarkInv, KeySound
  <2>4. replay.step \in {"start", "read", "done"}
    BY <1>1 DEF BenchmarkInv, ReplaySound
  <2>5. IsReport(NoReport)
    BY DEF IsReport, NoReport, Decisions
  <2>6. ASSUME NEW text \in Seq(Observation), NEW control, NEW ok
        PROVE  IsReport(ReplayReport(text, control, ok))
    <3>1. VariantsOf(text) \subseteq Names
      BY VariantsAreNames
    <3>2. \A c, r, v : IsReport(Compare(text, c, r, v))
      BY <3>1, CompareShape DEF IsReport
    <3>3. IsReport([NoReport EXCEPT !.decision = "error"])
      BY DEF IsReport, NoReport, Decisions
    <3> QED
      BY <3>2, <3>3 DEF ReplayReport
  <2>7. IsReport(replay.report)
    BY <1>1, <2>5, <2>6, Zenon DEF BenchmarkInv, ReplaySound
  <2> QED
    BY <2>1, <2>2, <2>3, <2>4, <2>7 DEF TypeOK
<1> QED
  BY <1>1, BenchmarkInvariant, PTL

(* An attested replay has the text of a screen that is done, and reports   *)
(* on it as attested.                                                      *)
LEMMA AttestedReplay ==
    ASSUME BenchmarkInv, replay.verified
    PROVE  \E p \in Screens, control \in Names :
             /\ screen[p].step = "done" /\ screen[p].log = replay.text
             /\ replay.report = ReplayReport(replay.text, control, TRUE)
<1>1. replay.step = "done"
  BY DEF BenchmarkInv, ReplaySound
<1>2. PICK control \in Names, ok \in BOOLEAN :
         /\ replay.verified = ok
         /\ replay.report = ReplayReport(replay.text, control, ok)
         /\ ok => Published(replay.text)
  BY <1>1 DEF BenchmarkInv, ReplaySound
<1>3. ok = TRUE
  BY <1>2
<1> QED
  BY <1>2, <1>3 DEF Published

(* What a replay accepts as attested is the whole matrix of one screen     *)
(* that passed its checks, although payload and sidecar are replaced one   *)
(* after the other, by several screens, and edited in between.             *)
THEOREM AttestationsAreWhole == Spec => []AttestedIsOneMatrix
<1>1. ASSUME BenchmarkInv, replay.verified
      PROVE  \E p \in Screens : /\ screen[p].log = replay.text
                                /\ screen[p].report.decision \notin {"none", "error"}
                                /\ Len(replay.text) = Total(screen[p].plan)
  <2>1. PICK p \in Screens : screen[p].step = "done" /\ screen[p].log = replay.text
    BY <1>1, AttestedReplay
  <2>2. ReportSound(screen[p])
    BY <1>1 DEF BenchmarkInv, ScreenSound
  <2> QED
    BY <2>1, <2>2 DEF ReportSound
<1>2. BenchmarkInv => AttestedIsOneMatrix
  BY <1>1 DEF AttestedIsOneMatrix
<1> QED
  BY <1>2, BenchmarkInvariant, PTL

(* The decisions agree whichever control the reader asks for: in a matrix  *)
(* that can be compared all variants have run in the same cells.           *)
LEMMA ReplayAgreement ==
    ASSUME BenchmarkInv
    PROVE  ReplayAgrees
<1>1. ASSUME replay.verified, replay.report.decision # "error"
      PROVE  \E p \in Screens :
                /\ screen[p].log = replay.text
                /\ screen[p].report.decision = replay.report.decision
                /\ screen[p].report.control = replay.report.control
                      /\ Reference(replay.text) \in {"stable", replay.report.control}
                   => screen[p].report.flags = replay.report.flags
  <2> DEFINE text == replay.text
             attested == "host-hmac-attested-replay"
             live == "live-in-memory"
  <2>1. PICK p \in Screens, control \in Names :
           /\ screen[p].step = "done" /\ screen[p].log = text
           /\ replay.report = ReplayReport(text, control, TRUE)
    BY <1>1, AttestedReplay
  <2>2. ReportSound(screen[p])
    BY DEF BenchmarkInv, ScreenSound
  <2>3. /\ screen[p].report = Compare(text, Control(text), Reference(text), live)
        /\ screen[p].report.decision # "error"
    BY <2>1, <2>2 DEF ReportSound
  <2>4. PICK second : /\ replay.report = Compare(text, control, second, attested)
                      /\ second = IF "stable" \in VariantsOf(text) THEN "stable"
                                   ELSE control
    <3>1. [NoReport EXCEPT !.decision = "error"].decision = "error"
      BY DEF NoReport
    <3> QED
      BY <1>1, <2>1, <3>1 DEF ReplayReport
  <2>5. /\ Comparable(text, Control(text), Reference(text))
        /\ screen[p].report.decision = Decision(text, Control(text), live)
        /\ screen[p].report.flags = Regressions(text, Control(text), Reference(text))
        /\ screen[p].report.control = Control(text)
    BY <2>3, CompareShape
  <2>6. /\ Comparable(text, control, second)
        /\ replay.report.decision = Decision(text, control, attested)
        /\ replay.report.flags = Regressions(text, control, second)
        /\ replay.report.control = control
    BY <1>1, <2>4, CompareShape
  <2>7. screen[p].report.decision = replay.report.decision
    BY <2>5, <2>6, DecisionsAgree
  <2>8. Reference(text) \in {"stable", control} => Reference(text) = second
    <3>1. text # <<>>
      BY <2>5 DEF Comparable
    <3>2. text \in Seq(Observation)
      BY DEF BenchmarkInv, ReplaySound
    <3>3. text[1].variant \in VariantsOf(text)
      BY <3>1, <3>2 DEF VariantsOf, Range
    <3> QED
      BY <2>4, <3>3 DEF Reference
  <2> QED
    BY <2>1, <2>5, <2>6, <2>7, <2>8
<1> QED
  BY <1>1 DEF ReplayAgrees

(* An attested replay decides what the screen decided that published the   *)
(* matrix, and finds the same regressions when both compare with the same  *)
(* control and reference (_replay_live_observations and main).             *)
THEOREM ReplaysAgree == Spec => []ReplayAgrees
  BY ReplayAgreement, BenchmarkInvariant, PTL

(* Whoever offers a variant for promotion, a screen or a replay, rests on  *)
(* the whole matrix of one screen, three repetitions at least, with every  *)
(* run captured and its required checks run again by the host, whatever    *)
(* was published, mixed, edited or interrupted before (engine.compare and  *)
(* the checks before it).  The fixture is one in each cell; the copy of    *)
(* the installer is the frozen one for runs with checks or with installed  *)
(* hooks that are to be trusted, and for no other.                         *)
THEOREM ReviewsAreEarned == Spec => []ReviewIsEarned
<1>1. ASSUME BenchmarkInv, replay.report.decision = "review" PROVE replay.verified
  <2>1. replay.step = "done"
    BY <1>1 DEF BenchmarkInv, ReplaySound, NoReport
  <2>2. PICK control \in Names, ok \in BOOLEAN :
           /\ replay.verified = ok
           /\ replay.report = ReplayReport(replay.text, control, ok)
    BY <1>1, <2>1 DEF BenchmarkInv, ReplaySound
  <2>3. CASE ok = FALSE
    <3>1. ReplayReport(replay.text, control, FALSE).decision = "review"
      BY <1>1, <2>2, <2>3
    <3>2. PICK second : Compare(replay.text, control, second, "unattested-replay").decision
                          = "review"
      BY <3>1 DEF ReplayReport, NoReport
    <3>3. Decision(replay.text, control, "unattested-replay") = "review"
      BY <3>2, CompareShape
    <3> QED
      BY <3>3, ReviewMeans
  <2>4. CASE ok = TRUE
    BY <2>2, <2>4
  <2> QED
    BY <2>3, <2>4
<1>2. ASSUME BenchmarkInv, replay.report.decision = "review"
      PROVE  IsEvidence(replay.text)
  <2>1. replay.verified /\ replay.report.decision # "error"
    BY <1>1, <1>2
  <2>2. ReplayAgrees
    BY <1>2, ReplayAgreement
  <2>3. PICK p \in Screens : screen[p].log = replay.text
                             /\ screen[p].report.decision = "review"
    BY <1>2, <2>1, <2>2 DEF ReplayAgrees
  <2> QED
    BY <1>2, <2>3, OffersAreEvidence
<1>3. BenchmarkInv => ReviewIsEarned
  BY <1>2, OffersAreEvidence DEF ReviewIsEarned
<1> QED
  BY <1>3, BenchmarkInvariant, PTL

-----------------------------------------------------------------------------
(* The rotation: which run of the matrix is at which place, and how often  *)
(* a residue occurs among consecutive numbers.                             *)

LEMMA DivModUnique ==
    ASSUME NEW n \in Nat \ {0}, NEW q \in Nat, NEW b \in 0..(n - 1)
    PROVE  n * q + b \in Nat /\ (n * q + b) \div n = q /\ (n * q + b) % n = b
<1>1. PICK c \in Nat : c = n * q
  OBVIOUS
<1>2. PICK a \in Nat : a = c + b
  OBVIOUS
<1>3. PICK p \in Nat : p = a \div n
  BY DivMod
<1>4. PICK z \in 0..(n - 1) : z = a % n
  BY ModBound
<1>5. a = n * p + z
  BY <1>3, <1>4, DivMod
<1>6. ASSUME p > q PROVE FALSE
  <2>1. PICK e \in Nat : p = q + 1 + e
    BY <1>6
  <2>2. n * p = n * q + n + n * e /\ n * e \in Nat
    BY <2>1
  <2> QED
    BY <1>1, <1>2, <1>5, <2>2
<1>7. ASSUME q > p PROVE FALSE
  <2>1. PICK e \in Nat : q = p + 1 + e
    BY <1>7
  <2>2. n * q = n * p + n + n * e /\ n * e \in Nat
    BY <2>1
  <2> QED
    BY <1>1, <1>2, <1>5, <2>2
<1>8. p = q
  BY <1>6, <1>7
<1>9. z = b
  BY <1>1, <1>2, <1>5, <1>8
<1> QED
  BY <1>1, <1>2, <1>3, <1>4, <1>8, <1>9

LEMMA ModAdd ==
    ASSUME NEW n \in Nat \ {0}, NEW x \in Nat, NEW y \in Nat
    PROVE  (x + (y % n)) % n = (x + y) % n
<1>1. PICK p \in Nat, c \in 0..(n - 1) : y % n = c /\ y = n * p + c
  BY DivMod, ModBound
<1>2. PICK a \in Nat : a = x + c
  OBVIOUS
<1>3. PICK q \in Nat, z \in 0..(n - 1) : a % n = z /\ a = n * q + z
  BY DivMod, ModBound
<1>4. PICK e \in Nat : e = p + q
  OBVIOUS
<1>5. n * e = n * p + n * q
  BY <1>4
<1>6. x + y = n * e + z
  <2>1. n * p \in Nat /\ n * q \in Nat
    OBVIOUS
  <2> QED
    BY <1>1, <1>2, <1>3, <1>5, <2>1
<1>7. (n * e + z) % n = z
  BY DivModUnique
<1> QED
  BY <1>1, <1>2, <1>3, <1>6, <1>7

(* Adding the distance of two residues leads from the one to the other.    *)
LEMMA ModShift ==
    ASSUME NEW n \in Nat \ {0}, NEW x \in Nat, NEW a \in 0..(n - 1), NEW b \in 0..(n - 1),
           x % n = a
    PROVE  (x + (IF b >= a THEN b - a ELSE b - a + n)) % n = b
<1>1. PICK q \in Nat : x = n * q + a
  BY DivMod
<1>2. CASE b >= a
  <2>1. x + (b - a) = n * q + b
    <3>1. PICK c \in Nat : c = n * q
      OBVIOUS
    <3> QED
      BY <1>1, <3>1
  <2> QED
    BY <1>2, <2>1, DivModUnique
<1>3. CASE ~(b >= a)
  <2>1. PICK e \in Nat : e = q + 1
    OBVIOUS
  <2>2. n * e = n * q + n
    BY <2>1
  <2>3. x + (b - a + n) = n * e + b
    <3>1. PICK c \in Nat : c = n * q
      OBVIOUS
    <3> QED
      BY <1>1, <2>2, <3>1
  <2>4. (n * e + b) % n = b
    BY DivModUnique
  <2>5. (x + (b - a + n)) % n = b
    BY <2>3, <2>4
  <2> QED
    BY <1>3, <2>5
<1> QED
  BY <1>2, <1>3

(* Two numbers with one residue are equal or a whole turn apart.           *)
LEMMA SameResidue ==
    ASSUME NEW n \in Nat \ {0}, NEW x \in Nat, NEW y \in Nat, x % n = y % n,
           x - y < n, y - x < n
    PROVE  x = y
<1>1. PICK p \in Nat, a \in 0..(n - 1) : x % n = a /\ x = n * p + a
  BY DivMod, ModBound
<1>2. PICK q \in Nat : y = n * q + a
  <2>1. PICK q \in Nat, b \in 0..(n - 1) : y % n = b /\ y = n * q + b
    BY DivMod, ModBound
  <2> QED
    BY <1>1, <2>1
<1>3. PICK c \in Nat, d \in Nat : c = n * p /\ d = n * q
  OBVIOUS
<1>4. c - d < n /\ d - c < n
  BY <1>1, <1>2, <1>3
<1>5. ASSUME p > q PROVE FALSE
  <2>1. PICK e \in Nat : p = q + 1 + e
    BY <1>5
  <2>2. n * p = n * q + n + n * e /\ n * e \in Nat
    BY <2>1
  <2> QED
    BY <1>3, <1>4, <2>2
<1>6. ASSUME q > p PROVE FALSE
  <2>1. PICK e \in Nat : q = p + 1 + e
    BY <1>6
  <2>2. n * q = n * p + n + n * e /\ n * e \in Nat
    BY <2>1
  <2> QED
    BY <1>3, <1>4, <2>2
<1> QED
  BY <1>1, <1>2, <1>5, <1>6

Hits(n, base, reps, a) == {r \in 1..reps : (base + (r - 1)) % n = a}

LEMMA HitsAreFinite ==
    ASSUME NEW n, NEW base, NEW reps \in Nat, NEW a
    PROVE  IsFiniteSet(Hits(n, base, reps, a)) /\ Cardinality(Hits(n, base, reps, a)) \in Nat
<1>1. IsFiniteSet(1..reps)
  BY IntervalSize
<1>2. Hits(n, base, reps, a) \in SUBSET (1..reps)
  BY DEF Hits
<1>3. IsFiniteSet(Hits(n, base, reps, a))
  BY <1>1, <1>2, FS_Subset
<1> QED
  BY <1>3, FS_CardinalityType

(* Each residue but perhaps one more than another: whoever is hit, but for *)
(* one late time, is followed by a hit of the other within the turn.       *)
LEMMA HitsAreBalanced ==
    ASSUME NEW n \in Nat \ {0}, NEW base \in Nat, NEW reps \in Nat,
           NEW a \in 0..(n - 1), NEW b \in 0..(n - 1)
    PROVE  Cardinality(Hits(n, base, reps, a)) <= Cardinality(Hits(n, base, reps, b)) + 1
<1> DEFINE A == Hits(n, base, reps, a)
           B == Hits(n, base, reps, b)
<1>1. PICK d \in 0..(n - 1) : d = IF b >= a THEN b - a ELSE b - a + n
  <2>1. (IF b >= a THEN b - a ELSE b - a + n) \in 0..(n - 1)
    BY Z3
  <2> QED
    BY <2>1
<1> DEFINE Early == {r \in A : r + d <= reps}
           f == [r \in Early |-> r + d]
<1>2. ASSUME NEW r \in Early PROVE r + d \in B
  <2>1. r \in 1..reps /\ (base + (r - 1)) % n = a /\ r + d <= reps
    BY <1>2 DEF Hits
  <2>2. PICK x \in Nat : x = base + (r - 1)
    BY <2>1
  <2>3. (x + d) % n = b
    BY <1>1, <2>1, <2>2, ModShift
  <2>4. base + ((r + d) - 1) = x + d /\ r + d \in 1..reps
    BY <2>1, <2>2
  <2> QED
    BY <2>3, <2>4 DEF Hits
<1>3. f \in Injection(Early, B)
  <2>1. \A r \in Early : r \in Nat
    BY DEF Hits
  <2> HIDE DEF Early, B
  <2> QED
    BY <1>2, <2>1 DEF Injection, IsInjective
<1>4. IsFiniteSet(Early) /\ Cardinality(Early) <= Cardinality(B)
  <2>1. IsFiniteSet(B)
    BY HitsAreFinite
  <2> HIDE DEF Early, B, f
  <2> QED
    BY <1>3, <2>1, FS_Injection
<1>5. Cardinality(Early) \in Nat /\ Cardinality(B) \in Nat
  <2>1. Cardinality(B) \in Nat
    BY HitsAreFinite
  <2> HIDE DEF Early, B
  <2> QED
    BY <1>4, <2>1, FS_CardinalityType
<1>6. ASSUME NEW x \in A \ Early, NEW y \in A \ Early
      PROVE  x = y
  <2>1. /\ x \in 1..reps /\ y \in 1..reps
        /\ (base + (x - 1)) % n = (base + (y - 1)) % n
        /\ x + d > reps /\ y + d > reps
    BY <1>6 DEF Hits
  <2>2. PICK u \in Nat, v \in Nat : u = base + (x - 1) /\ v = base + (y - 1)
    BY <2>1
  <2>3. u % n = v % n /\ u - v < n /\ v - u < n
    BY <2>1, <2>2
  <2>4. u = v
    BY <2>3, SameResidue
  <2> QED
    BY <2>1, <2>2, <2>4
<1>7. CASE A = Early
  <2>1. Cardinality(A) <= Cardinality(B)
    BY <1>4, <1>7
  <2>2. Cardinality(A) \in Nat
    BY HitsAreFinite
  <2> HIDE DEF A, B, Early
  <2> QED
    BY <1>5, <2>1, <2>2 DEF A, B
<1>8. CASE A # Early
  <2>1. PICK x \in A \ Early : A = Early \cup {x}
    BY <1>6, <1>8
  <2> HIDE DEF A, B, Early
  <2>2. Cardinality(A) = Cardinality(Early) + 1
    BY <1>4, <2>1, FS_AddElement
  <2> QED
    BY <1>4, <1>5, <2>2 DEF A, B
<1> QED
  BY <1>7, <1>8

(* The place of the k-th run of repetition r of scenario i.                *)
Place(plan, i, r, k) ==
    Len(plan.variants) * (plan.repetitions * (i - 1) + (r - 1)) + k

LEMMA PlaceInMatrix ==
    ASSUME NEW n \in Nat \ {0}, NEW reps \in Nat \ {0}, NEW scen \in Nat \ {0},
           NEW i \in 1..scen, NEW r \in 1..reps, NEW k \in 1..n
    PROVE  n * (reps * (i - 1) + (r - 1)) + k \in 1..((n * scen) * reps)
<1>1. PICK c \in Nat : c = reps * (i - 1) + (r - 1)
  OBVIOUS
<1>2. PICK t \in Nat : t = scen * reps
  OBVIOUS
<1>3. c + 1 <= t
  <2>1. PICK e \in Nat : scen = (i - 1) + 1 + e
    OBVIOUS
  <2>2. scen * reps = reps * (i - 1) + reps + reps * e /\ reps * e \in Nat
    BY <2>1
  <2> QED
    BY <1>1, <1>2, <2>2
<1>4. PICK e \in Nat : t = c + 1 + e
  BY <1>3
<1>5. n * t = n * c + n + n * e /\ n * e \in Nat /\ n * c \in Nat
  BY <1>4
<1>6. (n * scen) * reps = n * t
  BY <1>2
<1>7. n * c + k \in 1..(n * t)
  BY <1>5
<1> QED
  BY <1>1, <1>6, <1>7

LEMMA RequestAt ==
    ASSUME NEW plan, IsPlan(plan), NEW seed \in Nat, NEW i \in 1..Len(plan.scenarios),
           NEW r \in 1..plan.repetitions, NEW k \in 1..Len(plan.variants)
    PROVE  /\ Place(plan, i, r, k) \in 1..Total(plan)
           /\ Request(plan, seed, Place(plan, i, r, k)) =
                [variant |-> plan.variants[1 + (((k - 1) + (seed + (i - 1)) + (r - 1))
                                                    % Len(plan.variants))],
                 scenario |-> plan.scenarios[i], repetition |-> r, order |-> k]
<1>1. PICK n \in Nat \ {0} : n = Len(plan.variants)
  BY PlanParts
<1>2. PICK reps \in Nat \ {0} : reps = plan.repetitions
  BY PlanParts
<1>3. PICK scen \in Nat \ {0} : scen = Len(plan.scenarios)
  BY PlanParts
<1>4. i \in 1..scen /\ r \in 1..reps /\ k \in 1..n
  BY <1>1, <1>2, <1>3
<1>5. Place(plan, i, r, k) \in 1..Total(plan)
  BY <1>1, <1>2, <1>3, <1>4, PlaceInMatrix DEF Place, Total
<1>6. PICK q \in Nat, b \in 0..(n - 1) : q = reps * (i - 1) + (r - 1) /\ b = k - 1
  BY <1>4
<1>7. PICK a \in Nat : a = n * q + b /\ a = Place(plan, i, r, k) - 1
  <2>1. PICK c \in Nat : c = n * q
    OBVIOUS
  <2>2. Place(plan, i, r, k) = c + k
    BY <1>1, <1>2, <1>6, <2>1 DEF Place
  <2> QED
    BY <1>4, <1>6, <2>1, <2>2
<1>8. a \div n = q /\ 1 + (a % n) = k
  <2>1. (n * q + b) \div n = q /\ (n * q + b) % n = b
    BY DivModUnique
  <2>2. 1 + b = k
    BY <1>4, <1>6
  <2> QED
    BY <1>7, <2>1, <2>2
<1>9. 1 + ((a \div n) % reps) = r
  <2>1. PICK j \in Nat, z \in 0..(reps - 1) : j = i - 1 /\ z = r - 1
    BY <1>4
  <2>2. q = reps * j + z
    BY <1>6, <2>1
  <2>3. q % reps = z
    BY <2>2, DivModUnique
  <2> QED
    BY <1>4, <1>8, <2>1, <2>3
<1>10. 1 + a \div (n * reps) = i
  <2>1. PICK w \in Nat \ {0} : w = n * reps
    BY ProductPositive
  <2>2. PICK j \in Nat : j = i - 1
    BY <1>4
  <2>3. PICK z \in Nat : z = n * (r - 1) + b
    BY <1>4
  <2>4. z < w
    <3>1. PICK e \in Nat : reps = (r - 1) + 1 + e
      BY <1>4
    <3>2. n * reps = n * (r - 1) + n + n * e /\ n * e \in Nat /\ n * (r - 1) \in Nat
      BY <1>4, <3>1
    <3> QED
      BY <2>1, <2>3, <3>2
  <2>5. a = w * j + z
    <3>1. n * q = n * (reps * j) + n * (r - 1)
      BY <1>4, <1>6, <2>2
    <3>2. n * (reps * j) = w * j
      BY <2>1
    <3>3. w * j \in Nat /\ n * (r - 1) \in Nat
      BY <1>4
    <3> QED
      BY <1>7, <2>3, <3>1, <3>2, <3>3
  <2>6. a \div w = j
    BY <2>4, <2>5, DivModUnique
  <2> QED
    BY <1>4, <2>1, <2>2, <2>6
<1>11. PICK y \in Nat : y = seed + (i - 1) + (r - 1)
  BY <1>4
<1>12. Offset(plan, seed, i, r) = y % n
  <2>1. seed + (i - 1) + r - 1 = y
    BY <1>4, <1>11
  <2> QED
    BY <1>1, <2>1 DEF Offset
<1>13. (b + (y % n)) % n = (b + y) % n
  <2>1. b \in Nat
    OBVIOUS
  <2> QED
    BY <2>1, ModAdd
<1>14. b + y = (k - 1) + (seed + (i - 1)) + (r - 1)
  BY <1>4, <1>6, <1>11
<1>15. Request(plan, seed, Place(plan, i, r, k)) =
        [variant |-> plan.variants[1 + ((k - 1 + Offset(plan, seed, i, r)) % n)],
         scenario |-> plan.scenarios[i], repetition |-> r, order |-> k]
  BY <1>1, <1>2, <1>7, <1>8, <1>9, <1>10, ZenonT(40) DEF Request
<1> QED
  BY <1>1, <1>5, <1>6, <1>12, <1>13, <1>14, <1>15, ZenonT(40)

LEMMA EveryPlace ==
    ASSUME NEW plan, IsPlan(plan), NEW m \in 1..Total(plan)
    PROVE  \E i \in 1..Len(plan.scenarios), r \in 1..plan.repetitions,
              k \in 1..Len(plan.variants) : m = Place(plan, i, r, k)
<1>1. PICK n \in Nat \ {0} : n = Len(plan.variants)
  BY PlanParts
<1>2. PICK reps \in Nat \ {0} : reps = plan.repetitions
  BY PlanParts
<1>3. PICK scen \in Nat \ {0} : scen = Len(plan.scenarios)
  BY PlanParts
<1>4. PICK a \in Nat : a = m - 1 /\ a < (n * scen) * reps
  <2>1. PICK total \in Nat \ {0} : total = Total(plan)
    BY PlanParts
  <2>2. total = (n * scen) * reps
    BY <1>1, <1>2, <1>3, <2>1 DEF Total
  <2>3. PICK a \in Nat : a = m - 1 /\ a < total
    BY <2>1
  <2> QED
    BY <2>2, <2>3
<1>5. PICK q \in Nat, b \in 0..(n - 1) : a = n * q + b
  BY DivMod, ModBound
<1>6. PICK j \in Nat, z \in 0..(reps - 1) : q = reps * j + z
  BY DivMod, ModBound
<1>7. j < scen
  <2>1. ASSUME j >= scen PROVE FALSE
    <3>1. PICK e \in Nat : j = scen + e
      BY <2>1
    <3>2. reps * j = reps * scen + reps * e /\ reps * e \in Nat
      BY <3>1
    <3>3. PICK g \in Nat : q = reps * scen + g
      BY <1>6, <3>2
    <3>4. n * q = n * (reps * scen) + n * g /\ n * g \in Nat
      BY <3>3
    <3>5. n * (reps * scen) = (n * scen) * reps
      OBVIOUS
    <3>6. n * (reps * scen) \in Nat /\ n * q \in Nat
      OBVIOUS
    <3> QED
      BY <1>4, <1>5, <3>4, <3>5, <3>6
  <2> QED
    BY <2>1
<1>8. PICK i \in 1..scen, r \in 1..reps, k \in 1..n :
        j = i - 1 /\ z = r - 1 /\ k = b + 1
  <2>1. j + 1 \in 1..scen /\ z + 1 \in 1..reps /\ b + 1 \in 1..n
    BY <1>7
  <2>2. j = (j + 1) - 1 /\ z = (z + 1) - 1
    OBVIOUS
  <2> QED
    BY <2>1, <2>2
<1>9. m = n * (reps * (i - 1) + (r - 1)) + k
  <2>1. PICK c \in Nat : c = n * q
    OBVIOUS
  <2>2. q = reps * (i - 1) + (r - 1)
    BY <1>6, <1>8
  <2>3. m = c + k
    BY <1>4, <1>5, <1>8, <2>1
  <2> QED
    BY <2>1, <2>2, <2>3
<1> QED
  BY <1>1, <1>2, <1>3, <1>8, <1>9 DEF Place

(* The log of a screen is the beginning of its rotation.                   *)
Follows(o, request) ==
    /\ o.variant = request.variant /\ o.scenario = request.scenario
    /\ o.repetition = request.repetition /\ o.order = request.order

Ordered(s) == \A m \in DOMAIN s.log : Follows(s.log[m], Request(s.plan, s.seed, m))

OrderInv == BenchmarkInv /\ \A p \in Screens : Ordered(screen[p])

LEMMA SameOrder ==
    ASSUME NEW s, NEW t, Ordered(s),
           t.plan = s.plan, t.seed = s.seed, t.log = s.log
    PROVE  Ordered(t)
  BY DEF Ordered

LEMMA FinishRunOrders ==
    ASSUME BenchmarkInv, NEW p \in Screens, Ordered(screen[p]), FinishRun(p)
    PROVE  Ordered(screen'[p])
<1> DEFINE old == screen[p]
           next == Request(old.plan, old.seed, Len(old.log) + 1)
           Obs(captured) ==
               [variant |-> next.variant, scenario |-> next.scenario,
                repetition |-> next.repetition, order |-> next.order,
                captured |-> captured, verified |-> HostVerifies(old),
                environment |-> old.run.environment, treatment |-> old.run.treatment,
                score |-> old.plan.scores[next.variant]]
<1>1. ScreenShape(old, Plans[p], events)
  BY DEF BenchmarkInv, ScreenSound
<1>2. PICK captured \in BOOLEAN :
        Become(p, [old EXCEPT !.log = Append(old.log, Obs(captured)),
                              !.copies = Append(old.copies, old.run.copy),
                              !.run = NoRun])
  BY Zenon DEF FinishRun
<1> DEFINE o == Obs(captured)
<1>3. Follows(o, next)
  BY DEF Follows
<1> HIDE DEF o
<1> DEFINE s == [old EXCEPT !.log = Append(old.log, o),
                            !.copies = Append(old.copies, old.run.copy),
                            !.run = NoRun]
<1>4. screen'[p] = s
  BY <1>2, Becoming DEF o
<1>5. s.plan = old.plan /\ s.seed = old.seed /\ s.log = Append(old.log, o)
  BY <1>1 DEF ScreenShape
<1>6. old.log \in Seq(Observation)
  BY <1>1 DEF ScreenShape
<1>7. /\ DOMAIN Append(old.log, o) = 1..(Len(old.log) + 1)
      /\ Len(old.log) \in Nat /\ DOMAIN old.log = 1..Len(old.log)
      /\ \A m \in 1..(Len(old.log) + 1) :
            Append(old.log, o)[m] = IF m = Len(old.log) + 1 THEN o ELSE old.log[m]
  BY <1>6
<1> HIDE DEF s
<1>8. ASSUME NEW m \in DOMAIN s.log
      PROVE  Follows(s.log[m], Request(s.plan, s.seed, m))
  <2>1. m \in 1..(Len(old.log) + 1)
    BY <1>5, <1>7
  <2>2. CASE m = Len(old.log) + 1
    BY <1>3, <1>5, <1>7, <2>1, <2>2
  <2>3. CASE m # Len(old.log) + 1
    <3>1. m \in DOMAIN old.log
      BY <1>7, <2>1, <2>3
    <3>2. Follows(old.log[m], Request(old.plan, old.seed, m))
      BY <3>1 DEF Ordered
    <3> QED
      BY <1>5, <1>7, <2>1, <2>3, <3>2
  <2> QED
    BY <2>2, <2>3
<1> QED
  BY <1>4, <1>8 DEF Ordered

LEMMA StepOrders ==
    ASSUME BenchmarkInv, NEW p \in Screens, Ordered(screen[p]), Step(p)
    PROVE  Ordered(screen'[p])
<1> DEFINE old == screen[p]
<1>1. ScreenShape(old, Plans[p], events) /\ MatrixSound(old)
  BY DEF BenchmarkInv, ScreenSound
<1>2. ASSUME NEW s, Become(p, s), s.plan = old.plan, s.seed = old.seed, s.log = old.log
      PROVE  Ordered(screen'[p])
  <2>1. screen'[p] = s
    BY <1>2, Becoming
  <2> QED
    BY <1>2, <2>1, SameOrder
<1>3. ASSUME NEW s, Become(p, s), s.log = <<>>
      PROVE  Ordered(screen'[p])
  <2>1. screen'[p] = s
    BY <1>3, Becoming
  <2> QED
    BY <1>3, <2>1 DEF Ordered
<1>4. ASSUME NEW step, Moves(p, step) PROVE Ordered(screen'[p])
  <2> DEFINE s == [old EXCEPT !.step = step]
  <2>1. Become(p, s) /\ s.plan = old.plan /\ s.seed = old.seed /\ s.log = old.log
    BY <1>1, <1>4 DEF Moves, ScreenShape
  <2> QED
    BY <1>2, <2>1
<1>5. ASSUME Fail(p) PROVE Ordered(screen'[p])
  <2> DEFINE s == [NotStarted EXCEPT !.step = "failed"]
  <2>1. Become(p, s) /\ s.log = <<>>
    BY <1>5 DEF Fail, NotStarted
  <2> QED
    BY <1>3, <2>1
<1>6. ASSUME Start(p) PROVE Ordered(screen'[p])
  <2>1. old.step = "idle"
    BY <1>6 DEF Start
  <2>2. PICK plan, seed :
          Become(p, [old EXCEPT !.step = "matrix", !.plan = plan, !.seed = seed,
                                !.build = installer])
    BY <1>6 DEF Start
  <2> DEFINE s == [old EXCEPT !.step = "matrix", !.plan = plan, !.seed = seed,
                              !.build = installer]
  <2>3. Become(p, s) /\ s.log = <<>>
    BY <1>1, <2>1, <2>2 DEF MatrixSound, NotStarted
  <2> QED
    BY <1>3, <2>3
<1>7. ASSUME PrepareRun(p), ~Fail(p) PROVE Ordered(screen'[p])
  <2>1. PICK run : Become(p, [old EXCEPT !.run = run])
    BY <1>7 DEF PrepareRun
  <2> DEFINE s == [old EXCEPT !.run = run]
  <2>2. Become(p, s) /\ s.plan = old.plan /\ s.seed = old.seed /\ s.log = old.log
    BY <1>1, <2>1 DEF ScreenShape
  <2> QED
    BY <1>2, <2>2
<1>8. ASSUME Judge(p), ~Fail(p) PROVE Ordered(screen'[p])
  <2>1. PICK step, report : Become(p, [old EXCEPT !.step = step, !.report = report])
    BY <1>8 DEF Judge
  <2> DEFINE s == [old EXCEPT !.step = step, !.report = report]
  <2>2. Become(p, s) /\ s.plan = old.plan /\ s.seed = old.seed /\ s.log = old.log
    BY <1>1, <2>1 DEF ScreenShape
  <2> QED
    BY <1>2, <2>2
<1>9. ASSUME Thaw(p) PROVE Ordered(screen'[p])
  <2>1. PICK copy : Become(p, [old EXCEPT !.copy = copy])
    BY <1>9 DEF Thaw
  <2> DEFINE s == [old EXCEPT !.copy = copy]
  <2>2. Become(p, s) /\ s.plan = old.plan /\ s.seed = old.seed /\ s.log = old.log
    BY <1>1, <2>1 DEF ScreenShape
  <2> QED
    BY <1>2, <2>2
<1>10. ASSUME LoadKey(p) \/ WriteKey(p) \/ WritePayload(p) \/ WriteSidecar(p) \/ Die(p)
       PROVE  Ordered(screen'[p])
  <2>1. \E step : Moves(p, step)
    BY <1>10 DEF LoadKey, WriteKey, WritePayload, WriteSidecar, Die
  <2> QED
    BY <1>4, <2>1
<1> QED
  BY <1>5, <1>6, <1>7, <1>8, <1>9, <1>10, FinishRunOrders DEF Step

LEMMA OrderInvariant == Spec => []OrderInv
<1>1. ASSUME Init PROVE OrderInv
  <2>1. \A p \in Screens : screen[p] = NotStarted
    BY <1>1 DEF Init
  <2>2. \A p \in Screens : Ordered(screen[p])
    BY <2>1 DEF Ordered, NotStarted
  <2> QED
    BY <1>1, <2>2, BenchmarkInit DEF OrderInv
<1>2. ASSUME OrderInv, [Next]_vars PROVE OrderInv'
  <2>1. BenchmarkInv'
    BY <1>2, BenchmarkInductive DEF OrderInv
  <2>2. ASSUME NEW p \in Screens PROVE Ordered(screen'[p])
    <3>1. BenchmarkInv /\ \A q \in Screens : Ordered(screen[q])
      BY <1>2 DEF OrderInv
    <3>2. CASE \E q \in Screens : Step(q)
      <4>1. PICK q \in Screens : Step(q)
        BY <3>2
      <4>2. CASE p = q
        BY <3>1, <4>1, <4>2, StepOrders
      <4>3. CASE p # q
        BY <3>1, <4>1, <4>3, StepKeeps DEF Others
      <4> QED
        BY <4>2, <4>3
    <3>3. CASE ReadPayload \/ Replay \/ EditFixture \/ EditInstaller \/ EditPayload
               \/ UNCHANGED vars
      BY <3>1, <3>3 DEF ReadPayload, Replay, EditFixture, EditInstaller, EditPayload, vars
    <3> QED
      BY <1>2, <3>2, <3>3 DEF Next
  <2> QED
    BY <2>1, <2>2 DEF OrderInv, Ordered
<1> QED
  BY <1>1, <1>2, PTL DEF Spec

-----------------------------------------------------------------------------
(* The balance: the runs of a variant at a place are the repetitions that  *)
(* the rotation hits.                                                      *)
IsFinished(s) ==
    /\ IsPlan(s.plan) /\ s.seed \in Nat /\ s.log \in Seq(Observation)
    /\ Len(s.log) = Total(s.plan) /\ Ordered(s)

Runs(s, v, i, k) ==
    {o \in Range(s.log) : o.variant = v /\ o.scenario = s.plan.scenarios[i] /\ o.order = k}

Base(s, i, k) == (k - 1) + (s.seed + (i - 1))

IsRunAt(o, s, i, r, k) ==
    /\ o \in Range(s.log)
    /\ o.variant = s.plan.variants[1 + ((Base(s, i, k) + (r - 1)) % Len(s.plan.variants))]
    /\ o.scenario = s.plan.scenarios[i] /\ o.repetition = r /\ o.order = k

LEMMA RunAt ==
    ASSUME NEW s, IsFinished(s), NEW i \in 1..Len(s.plan.scenarios),
           NEW r \in 1..s.plan.repetitions, NEW k \in 1..Len(s.plan.variants)
    PROVE  IsRunAt(s.log[Place(s.plan, i, r, k)], s, i, r, k)
<1>1. PICK m : m = Place(s.plan, i, r, k)
  OBVIOUS
<1>2. /\ m \in 1..Total(s.plan)
      /\ Request(s.plan, s.seed, m) =
           [variant |-> s.plan.variants[1 + (((k - 1) + (s.seed + (i - 1)) + (r - 1))
                                                % Len(s.plan.variants))],
            scenario |-> s.plan.scenarios[i], repetition |-> r, order |-> k]
  BY <1>1, RequestAt DEF IsFinished
<1>3. m \in DOMAIN s.log
  BY <1>2 DEF IsFinished
<1>4. Follows(s.log[m], Request(s.plan, s.seed, m))
  BY <1>3 DEF IsFinished, Ordered
<1>5. s.log[m] \in Range(s.log)
  BY <1>3 DEF Range
<1> QED
  BY <1>1, <1>2, <1>4, <1>5 DEF Follows, Base, IsRunAt

LEMMA RunsAreHits ==
    ASSUME NEW s, IsFinished(s), NEW i \in 1..Len(s.plan.scenarios),
           NEW k \in 1..Len(s.plan.variants), NEW a \in 0..(Len(s.plan.variants) - 1)
    PROVE  Cardinality(Runs(s, s.plan.variants[a + 1], i, k))
             = Cardinality(Hits(Len(s.plan.variants), Base(s, i, k), s.plan.repetitions, a))
<1>1. PICK n \in Nat \ {0} : n = Len(s.plan.variants)
  BY PlanParts DEF IsFinished
<1>2. PICK reps \in Nat \ {0} : reps = s.plan.repetitions
  BY PlanParts DEF IsFinished
<1>3. PICK base \in Nat : base = Base(s, i, k)
  <2>1. i \in Nat \ {0} /\ k \in Nat \ {0} /\ s.seed \in Nat
    BY PlanParts DEF IsFinished
  <2> QED
    BY <2>1 DEF Base
<1> DEFINE H == Hits(n, base, reps, a)
           R == Runs(s, s.plan.variants[a + 1], i, k)
           f == [r \in H |-> s.log[Place(s.plan, i, r, k)]]
<1>4. DOMAIN s.plan.variants = 1..n /\ DOMAIN s.plan.scenarios = 1..Len(s.plan.scenarios)
  BY <1>1, PlanParts DEF IsFinished
<1>5. ASSUME NEW r \in H
      PROVE  s.log[Place(s.plan, i, r, k)] \in R
             /\ s.log[Place(s.plan, i, r, k)].repetition = r
  <2> HIDE DEF H, R
  <2>1. r \in 1..reps /\ (base + (r - 1)) % n = a
    BY <1>5 DEF Hits, H
  <2>2. PICK o : o = s.log[Place(s.plan, i, r, k)]
    OBVIOUS
  <2>3. IsRunAt(o, s, i, r, k)
    BY <1>2, <2>1, <2>2, RunAt
  <2>4. /\ o \in Range(s.log) /\ o.variant = s.plan.variants[1 + a]
        /\ o.scenario = s.plan.scenarios[i] /\ o.repetition = r /\ o.order = k
    BY <1>1, <1>3, <2>1, <2>3 DEF IsRunAt
  <2>5. 1 + a = a + 1
    OBVIOUS
  <2> QED
    BY <2>2, <2>4, <2>5 DEF Runs, R
<1>6. ASSUME NEW o \in R
      PROVE  \E r \in H : o = s.log[Place(s.plan, i, r, k)]
  <2>1. /\ o \in Range(s.log) /\ o.variant = s.plan.variants[a + 1]
        /\ o.scenario = s.plan.scenarios[i] /\ o.order = k
    BY <1>6 DEF Runs
  <2>2. PICK m \in 1..Total(s.plan) : o = s.log[m]
    <3>1. DOMAIN s.log = 1..Total(s.plan)
      BY DEF IsFinished
    <3> QED
      BY <2>1, <3>1 DEF Range
  <2>3. PICK j \in 1..Len(s.plan.scenarios), r \in 1..reps, h \in 1..n :
          m = Place(s.plan, j, r, h)
    BY <1>1, <1>2, EveryPlace DEF IsFinished
  <2>4. /\ o.variant = s.plan.variants[1 + ((Base(s, j, h) + (r - 1)) % n)]
        /\ o.scenario = s.plan.scenarios[j] /\ o.order = h
    <3>1. IsRunAt(o, s, j, r, h)
      BY <1>1, <1>2, <2>2, <2>3, RunAt
    <3> HIDE DEF f, H, R
    <3> QED
      BY <1>1, <3>1 DEF IsRunAt
  <2>5. j = i
    <3>1. IsInjective(s.plan.scenarios) /\ s.plan.scenarios[j] = s.plan.scenarios[i]
      BY <2>1, <2>4 DEF IsFinished, IsPlan
    <3> QED
      BY <1>4, <3>1 DEF IsInjective
  <2>6. h = k
    BY <2>1, <2>4
  <2>7. PICK b \in Nat : b = base + (r - 1)
    OBVIOUS
  <2>8. PICK c \in 0..(n - 1) : c = b % n
    BY ModBound
  <2>9. s.plan.variants[1 + c] = s.plan.variants[a + 1]
    BY <1>3, <2>1, <2>4, <2>5, <2>6, <2>7, <2>8
  <2>10. 1 + c = a + 1
    <3>1. IsInjective(s.plan.variants) /\ 1 + c \in 1..n /\ a + 1 \in 1..n
      BY <1>1 DEF IsFinished, IsPlan
    <3> QED
      BY <1>4, <2>9, <3>1 DEF IsInjective
  <2>11. c = a
    BY <2>10
  <2>12. r \in H
    BY <2>7, <2>8, <2>11 DEF Hits
  <2> QED
    BY <2>2, <2>3, <2>5, <2>6, <2>12
<1>7. f \in Bijection(H, R)
  <2> HIDE DEF H, R
  <2>1. f \in Injection(H, R)
    BY <1>5 DEF Injection, IsInjective
  <2>2. f \in Surjection(H, R)
    BY <1>5, <1>6 DEF Surjection
  <2> QED
    BY <2>1, <2>2 DEF Bijection
<1>8. IsFiniteSet(H)
  BY HitsAreFinite
<1>9. Cardinality(R) = Cardinality(H)
  <2> HIDE DEF f, H, R
  <2> QED
    BY <1>7, <1>8, FS_Bijection DEF ExistsBijection
<1> QED
  BY <1>1, <1>2, <1>3, <1>9

LEMMA RunsAreBalanced ==
    ASSUME NEW s, IsFinished(s), NEW v \in Range(s.plan.variants),
           NEW w \in Range(s.plan.variants), NEW i \in 1..Len(s.plan.scenarios),
           NEW k \in 1..Len(s.plan.variants)
    PROVE  Cardinality(Runs(s, v, i, k)) <= Cardinality(Runs(s, w, i, k)) + 1
<1>1. PICK n \in Nat \ {0} : n = Len(s.plan.variants)
  BY PlanParts DEF IsFinished
<1>2. PICK reps \in Nat : reps = s.plan.repetitions
  BY PlanParts DEF IsFinished
<1>3. PICK base \in Nat : base = Base(s, i, k)
  <2>1. i \in Nat \ {0} /\ k \in Nat \ {0} /\ s.seed \in Nat
    BY PlanParts DEF IsFinished
  <2> QED
    BY <2>1 DEF Base
<1>4. ASSUME NEW x \in Range(s.plan.variants)
      PROVE  \E a \in 0..(n - 1) : x = s.plan.variants[a + 1]
  <2>1. DOMAIN s.plan.variants = 1..n
    BY <1>1, PlanParts DEF IsFinished
  <2>2. PICK j \in 1..n : x = s.plan.variants[j]
    BY <1>4, <2>1 DEF Range
  <2>3. j - 1 \in 0..(n - 1) /\ (j - 1) + 1 = j
    OBVIOUS
  <2> QED
    BY <2>2, <2>3
<1>5. PICK a \in 0..(n - 1) : v = s.plan.variants[a + 1]
  BY <1>4
<1>6. PICK b \in 0..(n - 1) : w = s.plan.variants[b + 1]
  BY <1>4
<1>7. Cardinality(Hits(n, base, reps, a)) <= Cardinality(Hits(n, base, reps, b)) + 1
  BY HitsAreBalanced
<1>8. Cardinality(Runs(s, v, i, k)) = Cardinality(Hits(n, base, reps, a))
  BY <1>1, <1>2, <1>3, <1>5, RunsAreHits
<1>9. Cardinality(Runs(s, w, i, k)) = Cardinality(Hits(n, base, reps, b))
  BY <1>1, <1>2, <1>3, <1>6, RunsAreHits
<1> QED
  BY <1>7, <1>8, <1>9

(* In a finished matrix no variant has run more than once more often than  *)
(* another at any position of any scenario, whatever the numbers of        *)
(* variants and repetitions (_deterministic_variant_orders).               *)
THEOREM OrdersAreBalanced == Spec => []OrderIsBalanced
<1>1. ASSUME OrderInv, NEW p \in Screens, screen[p].report.decision # "none",
             NEW v \in Range(screen[p].plan.variants),
             NEW w \in Range(screen[p].plan.variants),
             NEW i \in DOMAIN screen[p].plan.scenarios,
             NEW k \in 1..Len(screen[p].plan.variants)
      PROVE  Cardinality(Runs(screen[p], v, i, k))
               <= Cardinality(Runs(screen[p], w, i, k)) + 1
  <2> DEFINE s == screen[p]
  <2>1. ScreenShape(s, Plans[p], events) /\ ReportSound(s) /\ Ordered(s)
    BY <1>1 DEF OrderInv, BenchmarkInv, ScreenSound
  <2>2. s.plan # None /\ Len(s.log) = Total(s.plan)
    BY <1>1, <2>1 DEF ReportSound
  <2>3. IsPlan(s.plan) /\ s.log \in Seq(Observation) /\ s.seed \in Nat
    BY <2>1, <2>2, PlansArePlans DEF ScreenShape
  <2>4. IsFinished(s)
    BY <2>1, <2>2, <2>3 DEF IsFinished
  <2>5. i \in 1..Len(s.plan.scenarios)
    BY <2>3, PlanParts
  <2> HIDE DEF s
  <2> QED
    BY <2>4, <2>5, RunsAreBalanced DEF s
<1>2. OrderInv => OrderIsBalanced
  BY <1>1 DEF OrderIsBalanced, Runs
<1> QED
  BY <1>2, OrderInvariant, PTL

=============================================================================
