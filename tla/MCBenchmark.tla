----------------------------- MODULE MCBenchmark -----------------------------
(***************************************************************************)
(* Values of Benchmark's constants for TLC.                                *)
(***************************************************************************)
EXTENDS Benchmark

Scores(c, s, r) == [n \in Names |-> IF n = "control" THEN c ELSE IF n = "stable" THEN s ELSE r]
Plan(v, s, n, scores, trusted) ==
    [variants |-> v, scenarios |-> s, repetitions |-> n, scores |-> scores, trusted |-> trusted]

(* The smallest matrix that can be offered for promotion, a screen of all  *)
(* arms, one arm whose hooks nobody vets over a scenario without checks    *)
(* and one with, one arm whose hooks are trusted and nothing else checked, *)
(* the shortest without a preferred control, and the control alone.        *)
Evaluation == Plan(<<"control", "stable">>, <<"code">>, 3, Scores(0, 1, 1), TRUE)
AllArms == Plan(<<"control", "stable", "research">>, <<"code">>, 1, Scores(0, 1, 0), FALSE)
Unvetted == Plan(<<"stable">>, <<"question", "code">>, 3, Scores(0, 1, 0), FALSE)
Trusting == Plan(<<"stable">>, <<"question">>, 3, Scores(0, 1, 0), TRUE)
NoControl == Plan(<<"research">>, <<"code">>, 1, Scores(0, 1, 0), TRUE)
ControlOnly == Plan(<<"control">>, <<"question">>, 1, Scores(1, 1, 1), FALSE)

(* One long matrix at a time, beside a short one.                          *)
LongAndShort == "s1" :> {Evaluation, AllArms, Unvetted, Trusting} @@ "s2" :> {NoControl, ControlOnly}
=============================================================================
