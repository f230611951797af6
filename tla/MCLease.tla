------------------------------ MODULE MCLease ------------------------------
(***************************************************************************)
(* Values of the constants of LeaseLifecycle for TLC.                      *)
(***************************************************************************)
EXTENDS LeaseProperties

OneClass == {[risk |-> "low", dep |-> FALSE]}
TwoClasses == OneClass \cup {[risk |-> "material", dep |-> FALSE]}
=============================================================================
