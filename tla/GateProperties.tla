--------------------------- MODULE GateProperties ---------------------------
(***************************************************************************)
(* What the PreToolUse hook promises about the writes it lets through.     *)
(***************************************************************************)
EXTENDS GatePolicy

Writing(s) == ProviderWrites(s) /\ hook[s].strict
Written(s, f) == Writing(s) /\ f \in Targets(hook[s].call)

(* In strict mode a call changes only files in the scope of the lease it   *)
(* was judged by, none of them protected unless the lease names that very  *)
(* manifest, whatever form the edit has and whatever spelling or symlink   *)
(* leads to the file, as long as no symlink moves after the decision and   *)
(* no object of the call names two paths: such a call may name a path that *)
(* nobody judges (FormsAgree), and what the provider does with it is not   *)
(* known here.                                                             *)
WritesStayInScope ==
    [][\A s \in Slots, f \in Files :
        Written(s, f) /\ links = hook[s].decidedOn /\ Plain(hook[s].call) =>
            /\ InScope(hook[s].lease.globs, f)
            /\ (\E g \in ProtectedGlobs : Matches(FoldAll(g), FoldAll(f)))
                   => f \in hook[s].lease.globs]_vars

(* A strict write rests on the tree its lease was issued on: what nobody   *)
(* changed since the hook decided is, outside the scope, as the lease      *)
(* recorded it, although the tree is read file by file.                    *)
WritesRestOnBase ==
    [][\A s \in Slots, f \in Files :
        Writing(s) /\ f \in Observed(hook[s].lease.globs) \ hook[s].changed
            => ViewOf(f) = hook[s].lease.binding.base[f]]_vars

(* A lease that was revoked, replaced, destroyed or has expired lets       *)
(* through only what was on its way when it ended.                         *)
LateWritesAreBounded == late <= Cardinality(Slots)

(* The agent's own leased writes never make its lease stale: while nobody  *)
(* else touches the tree, the attestation of the lease succeeds.           *)
OwnWorkKeepsLease ==
    state # None /\ state.lease # None /\ ~foreign =>
        /\ Observation(state.lease.globs) = state.base
        /\ \A e \in state.evidence : EvidenceHolds(e, state.lease.globs)

(* The three forms of an edit are judged alike in strict mode.  Every edit *)
(* must find its path in one place only, its item or the top of the call,  *)
(* and a call is allowed exactly when each path so found is allowed alone. *)
(* An object that names two paths counts as one that names none, so an     *)
(* edit that names two is refused unless there is a path at the top: then  *)
(* that path alone decides, whatever two paths the edit names.             *)
Alone(p) == [tool |-> "write", top |-> <<p>>, items |-> << >>, command |-> None, cwd |-> Root]
Found(call) == {OnePath(object) : object \in Objects(call)} \ {None}
OnePathEach(call) ==
    /\ ItemPaths(call) = {} => call.tool = "write"
    /\ \A i \in DOMAIN call.items : (TopPath(call) = None) # (OnePath(call.items[i]) = None)
FormsAgree ==
    \A s \in Slots : hook[s].pc = "decide" /\ Writes(hook[s].call) =>
        LET call == hook[s].call
            Allowed(c) == Allows(hook[s].seen, ActionFrom(c, hook[s].seen), now)
        IN  Allowed(call) <=> /\ Found(call) # {} /\ OnePathEach(call)
                              /\ \A p \in Found(call) :
                                     Allowed([Alone(p) EXCEPT !.cwd = call.cwd])
=============================================================================
