------------------------------- MODULE MCGate -------------------------------
(***************************************************************************)
(* Values of the constants of GatePolicy for TLC.                          *)
(***************************************************************************)
EXTENDS GateProperties, TLC

(* A source file, the manifest of a package, a secret in another spelling, *)
(* a file nobody leases, and the Harness configuration.                    *)
Source == <<"src", "a">>
Package == <<"src", "package.json">>
Secret == <<"src", ".ENV">>
Other == <<"lib", "b">>
ConfigFile == <<".agent-harness", "config.json">>
FiveFiles == {Source, Package, Secret, Other, ConfigFile}

Names == {"src", "a", "package.json", ".ENV", "lib", "b", ".agent-harness",
          "config.json", ".env", "*", "**", "."}
Casefold == [n \in Names |-> IF n = ".ENV" THEN ".env" ELSE n]
Protect == {<<"**", ".env">>, <<".agent-harness", "**">>, <<"**", "package.json">>}
Harness == {".agent-harness"}
Secrets == {".env"}
Manifests == {"package.json"}

SourceScope == {<<"src", "*">>}
TwoScopes == {SourceScope, {Source, Package}}
FewLinks == {<< >>, (Source :> Other), (<<"lib">> :> <<"src">>), (Source :> Outside)}

VerifyCommand == [python |-> "approved", broker |-> "verification", exact |-> TRUE, alone |-> TRUE]
RequestCommand == [VerifyCommand EXCEPT !.broker = "lifecycle"]
RawCommand == [VerifyCommand EXCEPT !.python = "other"]
Checks == {VerifyCommand}

NoPath == [Alone(Source) EXCEPT !.top = << >>]
Together(tool, p, q) == [NoPath EXCEPT !.tool = tool, !.items = <<p, q>>]
Shell(c) == [NoPath EXCEPT !.tool = "shell", !.command = c]
Both == <<Source, Other>>
Simple == {Alone(f) : f \in FiveFiles}
Several == {Together("multi-edit", <<Source>>, <<Other>>),
            Together("patch", <<Source>>, <<ConfigFile>>),
            [Together("multi-edit", << >>, << >>) EXCEPT !.top = <<Source>>],
            Together("multi-edit", <<Source>>, << >>), [NoPath EXCEPT !.tool = "patch"],
            [Together("multi-edit", << >>, <<Other>>) EXCEPT !.top = <<Source>>],
            [Alone(Source) EXCEPT !.cwd = Outside]}
TwoKeys == {[NoPath EXCEPT !.top = Both], Together("multi-edit", <<Source>>, Both),
            [Together("multi-edit", << >>, Both) EXCEPT !.top = <<Source>>],
            [Together("multi-edit", <<Source>>, <<Source>>) EXCEPT !.top = Both]}
Shells == {Shell(VerifyCommand), Shell(RequestCommand), Shell(RawCommand)}
ManyCalls == Simple \cup Several \cup TwoKeys \cup Shells
=============================================================================
