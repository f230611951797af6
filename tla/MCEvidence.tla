------------------------------ MODULE MCEvidence ------------------------------
(* Values for model checking DependencyEvidence.                             *)
EXTENDS DependencyEvidence

CONSTANTS Dashed, Scored, Evil, Good, Text, Manifest, Meta, Native,
          Question, Other, Symbol, Locked

(* Two names that differ in a separator only: another package to npm.        *)
OneNormal == [p \in Packages |-> Dashed]

(* A public HTTPS page of the allowlisted host, one of another host and a    *)
(* plain HTTP one.                                                           *)
ThreeUrls == {[host |-> Good, secure |-> TRUE], [host |-> Evil, secure |-> TRUE],
              [host |-> Good, secure |-> FALSE]}

(* The native file is below the package of the metadata.                     *)
Locations == [f \in Metadata \cup Natives |->
    IF f = Native THEN <<"node_modules", "a", "lib", "index.d.ts">>
    ELSE <<"node_modules", "a", "package.json">>]

(* Nothing of Python is installed here.                                      *)
Sites == [f \in Metadata |-> << >>]

OneClaim == {[package |-> Dashed, question |-> Question, version |-> 1, symbol |-> Symbol,
              metadata |-> Meta, native |-> Native]}
===============================================================================
