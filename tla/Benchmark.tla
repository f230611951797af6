------------------------------ MODULE Benchmark ------------------------------
(***************************************************************************)
(* The live benchmark: screens that drive the provider through a matrix of *)
(* variants, scenarios and repetitions, judge it, report it and publish    *)
(* the raw observations with an attestation; and the replay that reads the *)
(* published file and reports again.  Screens and replay are processes     *)
(* that share the observation file, its sidecar and the attestation key.   *)
(*                                                                         *)
(* What a provider writes is data: a run is captured or not, and the score *)
(* of a variant is a property of the plan.  A fixture, an installer, the   *)
(* copy a screen froze of it, the configuration this installs and a digest *)
(* are the version they have (0, 1, ...).                                  *)
(***************************************************************************)
EXTENDS Integers, Sequences, FiniteSets, SequencesExt

CONSTANTS
    Screens,        \* processes that run a live matrix and publish to one path
    Plans,          \* for each of them, the matrices it may be asked for
    Checked,        \* scenarios that have required checks
    MaxEvents,      \* bound on external changes, failed captures and deaths
    None

VARIABLES
    screen,         \* the processes, one record each
    fixture,        \* version of the fixture directories
    installer,      \* version of the Setup Skill that screens copy
    events,         \* external changes and failures so far
    key,            \* attestation.key: "absent", "empty" or "usable"
    payload,        \* the observation file
    sidecar,        \* what the HMAC in the attestation file was computed over
    replay          \* the replay process

vars == <<screen, fixture, installer, events, key, payload, sidecar, replay>>

Names == {"control", "stable", "research"}
Versions == 0..MaxEvents
PlanType == [variants : Seq(Names), scenarios : Seq(STRING), repetitions : Nat \ {0},
             scores : [Names -> 0..1],      \* what the scorers make of a variant's runs
             trusted : BOOLEAN]             \* --vetted-temp-hooks

ASSUME PlansAssumption ==
    \A p \in Screens : \A plan \in Plans[p] :
        /\ plan \in PlanType /\ plan.variants # <<>> /\ plan.scenarios # <<>>
        /\ IsInjective(plan.variants) /\ IsInjective(plan.scenarios)
ASSUME EventsAssumption == MaxEvents \in Nat
ASSUME NoneAssumption == None \notin PlanType

----------------------------------------------------------------------------
(* The matrix, in the order in which it is executed: a Latin rotation.     *)

(* Mutant: repetitions do not rotate the order.                            *)
MutantOffset(plan, seed, i, r) == (seed + (i - 1)) % Len(plan.variants)

Offset(plan, seed, i, r) == (seed + (i - 1) + r - 1) % Len(plan.variants)

Total(plan) == Len(plan.variants) * Len(plan.scenarios) * plan.repetitions

Request(plan, seed, m) ==
    LET n == Len(plan.variants)
        i == 1 + (m - 1) \div (n * plan.repetitions)
        r == 1 + (((m - 1) \div n) % plan.repetitions)
        k == 1 + ((m - 1) % n)
    IN  [variant |-> plan.variants[1 + ((k - 1 + Offset(plan, seed, i, r)) % n)],
         scenario |-> plan.scenarios[i], repetition |-> r, order |-> k]

RunId(o) == <<o.variant, o.scenario, o.repetition>>
Cell(o) == <<o.scenario, o.repetition>>
VariantsOf(obs) == {o.variant : o \in Range(obs)}
CellsOf(obs, v) == {Cell(o) : o \in {x \in Range(obs) : x.variant = v}}

----------------------------------------------------------------------------
(* Judging a matrix.                                                       *)

(* Capture failures: provider exit, unreadable transcript, no terminal     *)
(* event; required checks that the host could not run again.               *)
Complete(o) == o.captured /\ (o.scenario \in Checked => o.verified # None)

(* The variants of a cell ran in one environment.                         *)
EnvironmentsAgree(obs) ==
    \A a, b \in Range(obs) : Cell(a) = Cell(b) => a.environment = b.environment

(* All variants come from one installer; a variant has one configuration   *)
(* and no other variant has it.                                            *)
TreatmentsAgree(obs) ==
    \A a, b \in {o \in Range(obs) : o.variant # "control"} :
        /\ a.treatment.build = b.treatment.build
        /\ a.variant = b.variant <=> a.treatment = b.treatment

Judged(obs) == EnvironmentsAgree(obs) /\ TreatmentsAgree(obs)

(* The mean of a variant, in percent, over its complete runs only.         *)
Mean(obs, v) ==
    LET counted == {o \in Range(obs) : o.variant = v /\ Complete(o)}
    IN  IF counted = {} THEN None
        ELSE (100 * FoldSet(LAMBDA o, sum : o.score + sum, 0, counted))
                \div Cardinality(counted)

(* Variants more than regression_tolerance below the reference.            *)
Regressions(obs, control, reference) ==
    {v \in VariantsOf(obs) \ {control, reference} :
        /\ Mean(obs, v) # None
        /\ Mean(obs, reference) # None
        /\ Mean(obs, v) - Mean(obs, reference) < -2}

(* What compare refuses: repeated runs, a missing arm, unequal cells.      *)
Comparable(obs, control, reference) ==
    /\ obs # <<>>
    /\ \A i, j \in DOMAIN obs : RunId(obs[i]) = RunId(obs[j]) => i = j
    /\ {control, reference} \subseteq VariantsOf(obs)
    /\ \A v \in VariantsOf(obs) : CellsOf(obs, v) = CellsOf(obs, control)

(* How often each scenario was run.                                        *)
Repetitions(obs, control) ==
    {Cardinality({c \in CellsOf(obs, control) : c[1] = s}) :
        s \in {o.scenario : o \in Range(obs)}}

(* Mutant: captures that failed do not stop a promotion.                   *)
MutantDecision(obs, control, provenance) ==
    CASE provenance = "unattested-replay" -> "unattested"
      [] \E n \in Repetitions(obs, control) : n < 3 -> "screen"
      [] OTHER -> "review"

(* What may become of the comparison: only "review" offers a promotion.   *)
Decision(obs, control, provenance) ==
    CASE provenance = "unattested-replay" -> "unattested"
      [] \E o \in Range(obs) : ~Complete(o) -> "incomplete"
      [] \E n \in Repetitions(obs, control) : n < 3 -> "screen"
      [] OTHER -> "review"

NoReport == [decision |-> "none", flags |-> {}, control |-> None]

Compare(obs, control, reference, provenance) ==
    IF Comparable(obs, control, reference)
    THEN [decision |-> Decision(obs, control, provenance),
          flags |-> Regressions(obs, control, reference), control |-> control]
    ELSE [NoReport EXCEPT !.decision = "error"]

(* main: what a screen compares with, for regressions and otherwise.       *)
Reference(obs) == IF "stable" \in VariantsOf(obs) THEN "stable" ELSE obs[1].variant
Control(obs) == IF "control" \in VariantsOf(obs) THEN "control" ELSE Reference(obs)

----------------------------------------------------------------------------
(* A screen.                                                               *)

(* The copy of the installer: how often it was changed, and what it        *)
(* installs, a configuration and perhaps hooks.                            *)
Frozen == [changes |-> 0, settings |-> 0, hooks |-> TRUE]
NoRun == [environment |-> 0, copy |-> Frozen, treatment |-> None]

(* build is the version that was copied when the matrix began: of the      *)
(* copy, the log records only this and the configuration.  copies is       *)
(* history, the copy as it was when each run of the log was prepared.      *)
NotStarted == [step |-> "idle", plan |-> None, seed |-> 0, build |-> 0, copy |-> Frozen,
               log |-> <<>>, copies |-> <<>>, run |-> NoRun, report |-> NoReport]

Init ==
    /\ screen = [p \in Screens |-> NotStarted]
    /\ fixture = 0
    /\ installer = 0
    /\ events = 0
    /\ key = "absent"
    /\ payload = None
    /\ sidecar = None
    /\ replay = [step |-> "start", text |-> <<>>, verified |-> FALSE, report |-> NoReport]

Become(p, s) == screen' = [screen EXCEPT ![p] = s]
Moves(p, step) == Become(p, [screen[p] EXCEPT !.step = step])
Fail(p) == Become(p, [NotStarted EXCEPT !.step = "failed"])
Harnessed(plan) == Range(plan.variants) # {"control"}
Sources == <<fixture, installer>>
Files == <<key, payload, sidecar, replay>>

(* run_live_screen: the installer is copied, the matrix begins.            *)
Start(p) ==
    /\ screen[p].step = "idle"
    /\ \E plan \in Plans[p] : \E seed \in 0..(Len(plan.variants) - 1) :
          Become(p, [screen[p] EXCEPT !.step = "matrix", !.plan = plan, !.seed = seed,
                                      !.build = installer])
    /\ UNCHANGED <<events, Sources, Files>>

(* What is recorded of an installation: the variant, the installer the     *)
(* screen froze and the configuration found.                               *)
Treatment(s, variant) ==
    IF variant = "control" THEN None
    ELSE [variant |-> variant, build |-> s.build, settings |-> s.copy.settings]

(* Mutant: trusted hooks are not vetted.                                   *)
MutantVetted(s, variant) == TRUE

(* The run may go on: hooks to be trusted, if any were installed, come     *)
(* from the copy as it was frozen.                                         *)
Vetted(s, variant) ==
    s.plan.trusted /\ variant # "control" /\ s.copy.hooks => s.copy.changes = 0

(* Copy the fixture, take the environment's fingerprint, install the       *)
(* variant from the frozen installer and vet its hooks.  The canary before *)
(* it does the same in a workspace of its own.  A changed copy may fail to *)
(* install, and so may any.                                                *)
PrepareRun(p) ==
    LET s == screen[p]
        variant == Request(s.plan, s.seed, Len(s.log) + 1).variant
    IN  /\ s.step = "matrix" /\ s.run = NoRun /\ Len(s.log) < Total(s.plan)
        /\ \/ /\ Vetted(s, variant)
              /\ Become(p, [s EXCEPT !.run =
                     [environment |-> fixture, copy |-> s.copy,
                      treatment |-> Treatment(s, variant)]])
              /\ UNCHANGED events
           \/ /\ s.copy.changes # 0
              /\ Fail(p)
              /\ UNCHANGED events
           \/ /\ events < MaxEvents
              /\ Fail(p)
              /\ events' = events + 1
        /\ UNCHANGED <<Sources, Files>>

(* The host runs the required checks again: on a second copy of the        *)
(* fixture with the changed files laid over it, and only when the frozen   *)
(* installer still has its fingerprint.                                    *)
HostVerifies(s) ==
    IF Harnessed(s.plan) /\ s.copy.changes # 0 THEN None ELSE fixture

(* The provider has run; the capture may have failed.                      *)
FinishRun(p) ==
    LET s == screen[p]
        next == Request(s.plan, s.seed, Len(s.log) + 1)
        Observation(captured) ==
            [variant |-> next.variant, scenario |-> next.scenario,
             repetition |-> next.repetition, order |-> next.order,
             captured |-> captured, verified |-> HostVerifies(s),
             environment |-> s.run.environment, treatment |-> s.run.treatment,
             score |-> s.plan.scores[next.variant]]
    IN  /\ s.run # NoRun
        /\ \E captured \in BOOLEAN :
              /\ ~captured => events < MaxEvents
              /\ events' = IF captured THEN events ELSE events + 1
              /\ Become(p, [s EXCEPT !.log = Append(s.log, Observation(captured)),
                                     !.copies = Append(s.copies, s.run.copy),
                                     !.run = NoRun])
        /\ UNCHANGED <<Sources, Files>>

(* main of a screen: the checks of the matrix, the report, and with        *)
(* --artifacts-out the publication.  What compare refuses ends it.         *)
Judge(p) ==
    LET s == screen[p]
        report == Compare(s.log, Control(s.log), Reference(s.log), "live-in-memory")
    IN  /\ s.step = "matrix" /\ s.run = NoRun /\ Len(s.log) = Total(s.plan)
        /\ \/ ~Judged(s.log) /\ Fail(p)
           \/ /\ Judged(s.log)
              /\ \E next \in IF report.decision = "error" THEN {"failed"}
                             ELSE {"key", "done"} :
                    Become(p, [s EXCEPT !.step = next, !.report = report])
        /\ UNCHANGED <<events, Sources, Files>>

----------------------------------------------------------------------------
(* Publishing: the key is created exclusively and written afterwards; the  *)
(* two files are replaced one after the other.                             *)

(* Mutant: an empty key is taken as it is.                                 *)
MutantLoadKey(p) ==
    /\ screen[p].step = "key"
    /\ \/ key # "absent" /\ Moves(p, "payload") /\ UNCHANGED key
       \/ key = "absent" /\ Moves(p, "keying") /\ key' = "empty"
    /\ UNCHANGED <<Sources, events, payload, sidecar, replay>>

LoadKey(p) ==
    /\ screen[p].step = "key"
    /\ \/ key = "usable" /\ Moves(p, "payload") /\ UNCHANGED key
       \/ key = "empty" /\ Moves(p, "failed") /\ UNCHANGED key
       \/ key = "absent" /\ Moves(p, "keying") /\ key' = "empty"
    /\ UNCHANGED <<Sources, events, payload, sidecar, replay>>

WriteKey(p) ==
    /\ screen[p].step = "keying"
    /\ key' = "usable"
    /\ Moves(p, "payload")
    /\ UNCHANGED <<Sources, events, payload, sidecar, replay>>

WritePayload(p) ==
    /\ screen[p].step = "payload"
    /\ payload' = screen[p].log
    /\ Moves(p, "sidecar")
    /\ UNCHANGED <<Sources, events, key, sidecar, replay>>

WriteSidecar(p) ==
    /\ screen[p].step = "sidecar"
    /\ sidecar' = screen[p].log
    /\ Moves(p, "done")
    /\ UNCHANGED <<Sources, events, key, payload, replay>>

(* The process dies, or a write fails: nothing written is taken back.      *)
Die(p) ==
    /\ screen[p].step \in {"keying", "payload", "sidecar"}
    /\ events < MaxEvents
    /\ events' = events + 1
    /\ Moves(p, "failed")
    /\ UNCHANGED <<Sources, Files>>

----------------------------------------------------------------------------
(* Replay: the observation file is read first, its sidecar afterwards.     *)

ReadPayload ==
    /\ payload # None
    /\ replay.step = "start"
    /\ replay' = [step |-> "read", text |-> payload, verified |-> FALSE, report |-> NoReport]
    /\ UNCHANGED <<screen, Sources, events, key, payload, sidecar>>

(* Mutant: only the size of the payload is compared.                       *)
MutantVerified(text) == sidecar # None /\ Len(sidecar) = Len(text)

(* The HMAC in the sidecar is that of the bytes read.                      *)
Verified(text) == sidecar # None /\ sidecar = text

(* Mutant: the replay takes the control as the reference.                  *)
MutantReplayReport(text, control, verified) ==
    IF ~Judged(text)
    THEN [NoReport EXCEPT !.decision = "error"]
    ELSE Compare(text, control, control,
                 IF verified THEN "host-hmac-attested-replay" ELSE "unattested-replay")

(* A replay checks the matrix again and compares with `stable', if there.  *)
ReplayReport(text, control, verified) ==
    IF ~Judged(text)
    THEN [NoReport EXCEPT !.decision = "error"]
    ELSE Compare(text, control,
                 IF "stable" \in VariantsOf(text) THEN "stable" ELSE control,
                 IF verified THEN "host-hmac-attested-replay" ELSE "unattested-replay")

(* With the default --regression; --control is the default or what the     *)
(* reader asks for.                                                        *)
Replay ==
    LET ok == Verified(replay.text)
    IN  /\ replay.step = "read"
        /\ \E control \in Names :
              replay' = [replay EXCEPT !.step = "done", !.verified = ok,
                            !.report = ReplayReport(replay.text, control, ok)]
        /\ UNCHANGED <<screen, Sources, events, key, payload, sidecar>>

----------------------------------------------------------------------------
(* What happens around them.                                               *)

EditFixture ==
    /\ events < MaxEvents
    /\ fixture' = fixture + 1
    /\ events' = events + 1
    /\ UNCHANGED <<screen, installer, Files>>

(* Screens that begin later copy another installer.                        *)
EditInstaller ==
    /\ events < MaxEvents
    /\ installer' = installer + 1
    /\ events' = events + 1
    /\ UNCHANGED <<screen, fixture, Files>>

(* Something changes the copy of a running screen, and with it perhaps the *)
(* configuration that this installs and whether it installs hooks.         *)
Thaw(p) ==
    /\ screen[p].step = "matrix" /\ Harnessed(screen[p].plan)
    /\ events < MaxEvents
    /\ LET n == screen[p].copy.changes + 1
       IN  \E settings \in {screen[p].copy.settings, n}, hooks \in BOOLEAN :
              Become(p, [screen[p] EXCEPT
                  !.copy = [changes |-> n, settings |-> settings, hooks |-> hooks]])
    /\ events' = events + 1
    /\ UNCHANGED <<Sources, Files>>

(* The observation file is cut, corrected by hand, or extended with the    *)
(* observations of another screen.                                         *)
EditPayload ==
    /\ payload # None /\ payload # <<>>
    /\ events < MaxEvents
    /\ \/ payload' = Front(payload)
       \/ \E i \in DOMAIN payload :
             ~payload[i].captured /\ payload' = [payload EXCEPT ![i].captured = TRUE]
       \/ \E p \in Screens : screen[p].step = "done" /\ payload' = payload \o screen[p].log
    /\ events' = events + 1
    /\ UNCHANGED <<screen, Sources, key, sidecar, replay>>

Step(p) ==
    \/ Start(p) \/ PrepareRun(p) \/ FinishRun(p) \/ Judge(p)
    \/ LoadKey(p) \/ WriteKey(p) \/ WritePayload(p) \/ WriteSidecar(p)
    \/ Die(p) \/ Thaw(p)

Next ==
    \/ \E p \in Screens : Step(p)
    \/ ReadPayload
    \/ Replay
    \/ EditFixture
    \/ EditInstaller
    \/ EditPayload

Spec == Init /\ [][Next]_vars

----------------------------------------------------------------------------
(* Properties.                                                             *)

Steps == {"idle", "matrix", "key", "keying", "payload", "sidecar", "done", "failed"}
Decisions == {"none", "error", "unattested", "incomplete", "screen", "review"}
IsReport(r) == r.decision \in Decisions /\ r.flags \subseteq Names
IsTreatment(t) == t.variant \in Names /\ t.build \in Versions /\ t.settings \in Versions
IsObservation(o) ==
    /\ o.variant \in Names /\ o.repetition \in Nat /\ o.captured \in BOOLEAN
    /\ o.environment \in Versions /\ o.verified \in Versions \cup {None}
    /\ o.treatment # None => IsTreatment(o.treatment)

(* Screens, published files and reports keep their shape.                  *)
TypeOK ==
    /\ \A p \in Screens :
          /\ screen[p].step \in Steps
          /\ screen[p].plan \in Plans[p] \cup {None}
          /\ IsReport(screen[p].report)
          /\ \A o \in Range(screen[p].log) : IsObservation(o)
          /\ screen[p].plan # None => Len(screen[p].log) <= Total(screen[p].plan)
    /\ fixture \in Versions /\ installer \in Versions /\ events \in 0..MaxEvents
    /\ key \in {"absent", "empty", "usable"}
    /\ sidecar # None => key = "usable"
    /\ replay.step \in {"start", "read", "done"} /\ IsReport(replay.report)

(* A fair and finished matrix of one screen: every variant in every cell   *)
(* that was asked for, at least three times, each run captured and, where  *)
(* its scenario has required checks, checked by the host; a variant with   *)
(* one configuration, the variants of a cell (not of the matrix) on one    *)
(* fixture.  A run was prepared from the copy as the screen froze it where *)
(* somebody looks: where its scenario has checks, and where hooks that     *)
(* were installed are to be trusted.                                       *)
IsEvidence(obs) ==
    \E p \in Screens :
        LET s == screen[p]
        IN  /\ s.plan # None /\ obs = s.log
            /\ {RunId(obs[i]) : i \in DOMAIN obs} =
                  Range(s.plan.variants) \X Range(s.plan.scenarios) \X (1..s.plan.repetitions)
            /\ Len(obs) = Total(s.plan) /\ s.plan.repetitions >= 3
            /\ \A i \in DOMAIN obs :
                  /\ Complete(obs[i])
                  /\ obs[i].variant # "control"
                       /\ \/ obs[i].scenario \in Checked
                          \/ s.plan.trusted /\ s.copies[i].hooks
                         => s.copies[i].changes = 0
            /\ Judged(obs)

(* Whoever offers a variant for promotion, a screen or a replay, rests on  *)
(* such a matrix, whatever was published, mixed, edited or interrupted     *)
(* before (engine.compare and the checks before it).                       *)
ReviewIsEarned ==
    /\ \A p \in Screens :
          screen[p].report.decision = "review" => IsEvidence(screen[p].log)
    /\ replay.report.decision = "review" => IsEvidence(replay.text)

(* What a replay accepts as attested is the whole matrix of one screen     *)
(* that passed its checks, although the file and its sidecar are replaced  *)
(* one after the other and several screens may publish to one path.        *)
AttestedIsOneMatrix ==
    replay.verified =>
        \E p \in Screens : /\ screen[p].log = replay.text
                           /\ screen[p].report.decision \notin {"none", "error"}
                           /\ Len(replay.text) = Total(screen[p].plan)

(* An attested replay decides what the screen decided that published the   *)
(* matrix, and reports the same regressions when both compare with the     *)
(* same control and reference: without `stable', the screen's reference is *)
(* the variant that happened to run first, the replay's is its control.    *)
ReplayAgrees ==
    replay.verified /\ replay.report.decision # "error" =>
        \E p \in Screens :
            /\ screen[p].log = replay.text
            /\ screen[p].report.decision = replay.report.decision
            /\ screen[p].report.control = replay.report.control
                  /\ Reference(replay.text) \in {"stable", replay.report.control}
               => screen[p].report.flags = replay.report.flags

(* In a finished matrix no variant has run more than once more often than  *)
(* another at any position of any scenario.                                *)
OrderIsBalanced ==
    \A p \in Screens :
        LET s == screen[p]
            Count(v, i, k) == Cardinality({o \in Range(s.log) :
                                 o.variant = v /\ o.scenario = s.plan.scenarios[i] /\ o.order = k})
        IN  s.report.decision # "none" =>
            \A v, w \in Range(s.plan.variants), i \in DOMAIN s.plan.scenarios :
                \A k \in 1..Len(s.plan.variants) : Count(v, i, k) <= Count(w, i, k) + 1
=============================================================================
