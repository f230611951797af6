------------------------------ MODULE GateProofs ------------------------------
(***************************************************************************)
(* Theorems about the PreToolUse hook, for any number of files, symlinks,  *)
(* tool calls on their way and events between two reads of a hook.         *)
(***************************************************************************)
EXTENDS GateProperties, FiniteSetTheorems, TLAPS

-----------------------------------------------------------------------------
(* The inductive invariant *)

LeaseShape(lease) == lease # None => lease.issued \in Nat

(* What a hook knows at each of its steps.                                 *)
HookShape(h) ==
    /\ DOMAIN h = {"pc", "call", "strict", "seen", "lease", "todo", "decidedOn", "changed"}
    /\ h.pc # "idle" => h.call \in Payloads
    /\ h.pc = "config" => ~h.strict
    /\ h.pc = "decide" => LeaseShape(h.seen.lease)
    /\ h.pc # "attest" => h.todo = {}

(* A strict hook that has decided to let an edit through.                  *)
Judged(h) == h.strict /\ h.pc \in {"attest", "allowed"} /\ Writes(h.call)

Shape ==
    /\ TypeOK
    /\ DOMAIN hook = Slots
    /\ \A s \in Slots :
        /\ HookShape(hook[s])
        /\ Judged(hook[s]) => LeaseShape(hook[s].lease) /\ hook[s].lease # None

(* Path.resolve with the symlinks of another moment.                       *)
ResolveOn(p, on) ==
    IF p = Outside \/ ~\E l \in DOMAIN on : IsBelow(p, l) THEN p
    ELSE LET l == CHOOSE l \in DOMAIN on : IsBelow(p, l)
         IN  IF on[l] = Outside THEN Outside
             ELSE on[l] \o SubSeq(p, Len(l) + 1, Len(p))

(* Every path of the edit was allowed by the lease the hook has kept.      *)
AllowedOn(call, lease, on) ==
    /\ EditPaths(call) # {}
    /\ \A p \in EditPaths(call) :
           PathAllowed(lease, [lexical |-> p, resolved |-> ResolveOn(p, on)])

ScopeHolds ==
    \A s \in Slots : Judged(hook[s]) =>
        AllowedOn(hook[s].call, hook[s].lease, hook[s].decidedOn)

(* What the hook has read of the tree, and nobody has changed since, is as *)
(* the lease recorded it.                                                  *)
ReadSoFar ==
    \A s \in Slots : Judged(hook[s]) =>
        \A f \in Observed(hook[s].lease.globs) \ (hook[s].todo \cup hook[s].changed) :
            ViewOf(f) = hook[s].lease.binding.base[f]

(* The hooks that may still let through an edit by a lease that has ended: *)
(* each of them was on its way when it ended.                              *)
MayBeLate(h) ==
    \/ Judged(h) /\ LeaseEnded(h.lease)
    \/ /\ h.strict /\ h.pc = "decide" /\ Writes(h.call) /\ h.seen.lease # None
       /\ LeaseEnded(h.seen.lease) /\ now < h.seen.lease.issued + LeaseTerm
OnTheWay == {s \in Slots : MayBeLate(hook[s])}
LateHolds == late + Cardinality(OnTheWay) <= Cardinality(Slots)

GateInv == Shape /\ ScopeHolds /\ ReadSoFar /\ LateHolds /\ OwnWorkKeepsLease

-----------------------------------------------------------------------------
(* Paths *)

LEMMA ResolveIs == \A p : Resolve(p) = ResolveOn(p, links)
  BY DEF Resolve, ResolveOn

(* Where no object names two paths, a call that is not refused is judged   *)
(* by every path it names.                                                 *)
LEMMA NamedAreEdited ==
    ASSUME NEW call \in Payloads, Writes(call), Plain(call), EditPaths(call) # {}
    PROVE  Named(call) \subseteq EditPaths(call)
<1> SUFFICES ASSUME NEW object \in Objects(call), NEW k \in DOMAIN object
             PROVE  object[k] \in EditPaths(call)
  BY DEF Named
<1>1. /\ k = 1 /\ Len(object) = 1 /\ object[k] # None
      /\ OnePath(object) = object[k] /\ OnePath(object) # None
  BY CallAssumption DEF Plain, OnePath
<1>2. OnePath(object) \in {TopPath(call)} \cup ItemPaths(call)
  BY DEF Objects, TopPath, ItemPaths
<1>3. call.tool = "write" => ItemPaths(call) = {}
  BY CallAssumption DEF ItemPaths
<1>4. call.tool = "patch" => TopPath(call) = None
  BY CallAssumption DEF TopPath, OnePath
<1>5. CASE call.tool = "write"
  BY <1>1, <1>2, <1>3, <1>5 DEF EditPaths
<1>6. CASE call.tool = "multi-edit"
  BY <1>1, <1>2, <1>6 DEF EditPaths
<1>7. CASE call.tool = "patch"
  BY <1>1, <1>2, <1>4, <1>7 DEF EditPaths
<1> QED
  BY <1>5, <1>6, <1>7 DEF Writes

(* What an allowed edit writes, while the symlinks are those it was judged *)
(* by, is in the scope of its lease.                                       *)
LEMMA TargetsAreAllowed ==
    ASSUME NEW s \in Slots, hook[s].call \in Payloads, Writes(hook[s].call),
           Plain(hook[s].call), AllowedOn(hook[s].call, hook[s].lease, links)
    PROVE  \A f \in Targets(hook[s].call) :
               /\ InScope(hook[s].lease.globs, f)
               /\ IsProtected(f) => f \in hook[s].lease.globs
<1> SUFFICES ASSUME NEW f \in Targets(hook[s].call)
             PROVE  /\ InScope(hook[s].lease.globs, f)
                    /\ IsProtected(f) => f \in hook[s].lease.globs
  OBVIOUS
<1>1. PICK p \in Named(hook[s].call) : f = Resolve(p) /\ f \in Files
  BY DEF Targets
<1>2. p \in EditPaths(hook[s].call)
  BY <1>1, NamedAreEdited DEF AllowedOn
<1>3. PathAllowed(hook[s].lease, [lexical |-> p, resolved |-> f])
  BY <1>1, <1>2, ResolveIs DEF AllowedOn
<1>4. Relative(f) = f
  BY <1>1, GatePolicyAssumption DEF Relative
<1> QED
  BY <1>3, <1>4 DEF PathAllowed

-----------------------------------------------------------------------------
(* Steps of a hook *)

LEMMA InitSound == Init => GateInv
<1> SUFFICES ASSUME Init PROVE GateInv
  OBVIOUS
<1>1. \A s \in Slots : hook[s] = IdleHook
  BY DEF Init
<1>2. Shape
  <2>1. \A f \in Files : tree[f] \in IF f = Config THEN Modes ELSE Contents
    BY DEF Init, Modes, Contents
  <2>2. HookShape(IdleHook) /\ ~Judged(IdleHook)
    BY DEF HookShape, IdleHook, Judged
  <2>3. \A s \in Slots : hook[s].pc = "idle" /\ hook[s].todo = {} /\ hook[s].changed = {}
    BY <1>1 DEF IdleHook
  <2>4. links \in LinkMaps /\ MaxEvents \in Nat /\ MaxCalls \in Nat
    BY GatePolicyAssumption DEF Init
  <2>5. state \in State
    BY DEF Init, State, Phases
  <2>6. now \in Nat /\ late \in Nat /\ foreign \in BOOLEAN /\ events = 0 /\ calls = 0
    BY DEF Init
  <2>7. TypeOK
    BY <2>1, <2>3, <2>4, <2>5, <2>6 DEF TypeOK
  <2> QED
    BY <1>1, <2>2, <2>7 DEF Init, Shape
<1>3. OnTheWay = {}
  BY <1>1 DEF OnTheWay, MayBeLate, Judged, IdleHook
<1>4. LateHolds
  BY <1>3, GatePolicyAssumption, FS_EmptySet, FS_CardinalityType DEF LateHolds, Init
<1> QED
  BY <1>1, <1>2, <1>4 DEF GateInv, ScopeHolds, ReadSoFar, Judged, IdleHook,
     OwnWorkKeepsLease, Init

(* Fewer hooks on their way leave room for as many late edits.             *)
LEMMA FewerOnTheWay ==
    ASSUME GateInv, late' = late, OnTheWay' \subseteq OnTheWay
    PROVE  LateHolds'
<1>1. IsFiniteSet(OnTheWay)
  BY FS_Subset, GatePolicyAssumption DEF OnTheWay
<1>2. Cardinality(OnTheWay') <= Cardinality(OnTheWay) /\ IsFiniteSet(OnTheWay')
  BY <1>1, FS_Subset
<1>3. /\ Cardinality(OnTheWay') \in Nat /\ Cardinality(OnTheWay) \in Nat
      /\ Cardinality(Slots) \in Nat /\ late \in Nat
  BY <1>1, <1>2, FS_CardinalityType, GatePolicyAssumption DEF GateInv, Shape, TypeOK
<1> QED
  BY <1>2, <1>3 DEF GateInv, LateHolds

(* The count starts again: the hooks on their way are some of all.         *)
LEMMA NoneLate ==
    ASSUME late' = 0 PROVE LateHolds'
<1>1. Cardinality(OnTheWay') <= Cardinality(Slots) /\ IsFiniteSet(OnTheWay')
  BY FS_Subset, GatePolicyAssumption DEF OnTheWay
<1>2. Cardinality(OnTheWay') \in Nat
  BY <1>1, FS_CardinalityType
<1> QED
  BY <1>1, <1>2 DEF LateHolds

(* A hook reads and decides; nothing else changes.                         *)
OwnStep(s) ==
    /\ UNCHANGED <<state, tree, links, now, late, foreign>>
    /\ events' = events /\ calls' \in 0..MaxCalls
    /\ DOMAIN hook' = Slots
    /\ \A t \in Slots \ {s} : hook'[t] = hook[t]

LEMMA HookGoesOn ==
    ASSUME GateInv, NEW s \in Slots, OwnStep(s),
           HookShape(hook'[s]),
           hook'[s].pc \in {"idle", "config", "state", "decide", "attest", "allowed"},
           hook'[s].todo \subseteq Files, hook'[s].changed \subseteq Files,
           Judged(hook'[s]) =>
             /\ LeaseShape(hook'[s].lease) /\ hook'[s].lease # None
             /\ AllowedOn(hook'[s].call, hook'[s].lease, hook'[s].decidedOn)
             /\ \A f \in Observed(hook'[s].lease.globs)
                            \ (hook'[s].todo \cup hook'[s].changed) :
                    ViewOf(f) = hook'[s].lease.binding.base[f],
           MayBeLate(hook'[s]) => MayBeLate(hook[s])
    PROVE  GateInv'
<1>1. TypeOK'
  BY DEF GateInv, Shape, TypeOK, OwnStep
<1>2. \A t \in Slots : HookShape(hook'[t])
  BY DEF GateInv, Shape, OwnStep
<1>3. \A t \in Slots : Judged(hook'[t]) => LeaseShape(hook'[t].lease) /\ hook'[t].lease # None
  BY DEF GateInv, Shape, OwnStep
<1>4. Shape'
  BY <1>1, <1>2, <1>3 DEF GateInv, Shape, OwnStep
<1>5. ScopeHolds'
  BY DEF GateInv, ScopeHolds, OwnStep
<1>6. \A f : ViewOf(f)' = ViewOf(f)
  BY DEF ViewOf, OwnStep
<1>7. ReadSoFar'
  BY <1>6 DEF GateInv, ReadSoFar, OwnStep
<1>8. OnTheWay' \subseteq OnTheWay
  BY DEF OnTheWay, MayBeLate, OwnStep, LeaseEnded
<1>9. LateHolds'
  BY <1>8, FewerOnTheWay DEF OwnStep
<1>10. OwnWorkKeepsLease'
  BY <1>6 DEF GateInv, OwnWorkKeepsLease, OwnStep, Observation, EvidenceHolds
<1> QED
  BY <1>4, <1>5, <1>7, <1>9, <1>10 DEF GateInv

LEMMA StateLease == TypeOK /\ state # None => LeaseShape(state.lease)
  BY DEF TypeOK, State, Lease, LeaseShape

(* A refused call, or one the provider did nothing for.                    *)
LEMMA DenyGoesOn ==
    ASSUME GateInv, NEW s \in Slots, Deny(s), Unread
    PROVE  GateInv'
<1>1. OwnStep(s) /\ hook'[s] = IdleHook
  BY DEF Deny, Unread, OwnStep, GateInv, Shape, TypeOK
<1>2. HookShape(IdleHook) /\ ~Judged(IdleHook) /\ ~MayBeLate(IdleHook)
  BY DEF HookShape, Judged, MayBeLate, IdleHook
<1>3. IdleHook.pc = "idle" /\ IdleHook.todo = {} /\ IdleHook.changed = {}
  BY DEF IdleHook
<1> QED
  BY <1>1, <1>2, <1>3, HookGoesOn

LEMMA CallGoesOn ==
    ASSUME GateInv, NEW s \in Slots, NEW call \in Payloads, CallTool(s, call)
    PROVE  GateInv'
<1> DEFINE new == [IdleHook EXCEPT !.pc = "config", !.call = call]
<1>1. hook' = [hook EXCEPT ![s] = new]
  BY DEF CallTool
<1>2. calls' \in 0..MaxCalls
  BY GatePolicyAssumption DEF CallTool, GateInv, Shape, TypeOK
<1>3. OwnStep(s) /\ hook'[s] = new
  BY <1>1, <1>2 DEF CallTool, OwnStep, GateInv, Shape
<1>4. HookShape(new) /\ ~Judged(new) /\ ~MayBeLate(new)
  BY DEF HookShape, Judged, MayBeLate, IdleHook
<1>5. new.pc = "config" /\ new.todo = {} /\ new.changed = {}
  BY DEF IdleHook
<1> HIDE DEF new
<1> QED
  BY <1>3, <1>4, <1>5, HookGoesOn

LEMMA ReadConfigGoesOn ==
    ASSUME GateInv, NEW s \in Slots, ReadConfig(s)
    PROVE  GateInv'
<1>1. hook[s].pc = "config" /\ Unread
  BY DEF ReadConfig
<1>2. tree[Config] \in Modes
  BY GatePolicyAssumption DEF GateInv, Shape, TypeOK
<1>3. CASE Deny(s)
  BY <1>1, <1>3, DenyGoesOn
<1>4. CASE hook' = [hook EXCEPT ![s].pc = "state", ![s].strict = TRUE]
  <2>1. OwnStep(s) /\ hook'[s].pc = "state"
    BY <1>1, <1>4 DEF Unread, OwnStep, GateInv, Shape, TypeOK, HookShape
  <2>2. /\ DOMAIN hook'[s] = DOMAIN hook[s] /\ hook'[s].call = hook[s].call
        /\ hook'[s].todo = hook[s].todo /\ hook'[s].changed = hook[s].changed
    BY <1>4 DEF GateInv, Shape, HookShape
  <2>3. HookShape(hook'[s]) /\ hook'[s].todo \subseteq Files /\ hook'[s].changed \subseteq Files
    BY <1>1, <2>1, <2>2 DEF GateInv, Shape, HookShape, TypeOK
  <2>4. ~Judged(hook'[s]) /\ ~MayBeLate(hook'[s])
    BY <2>1 DEF Judged, MayBeLate
  <2> QED
    BY <2>1, <2>3, <2>4, HookGoesOn
<1>5. CASE hook' = [hook EXCEPT ![s].pc = "allowed"]
  <2>1. OwnStep(s) /\ hook'[s].pc = "allowed"
    BY <1>1, <1>5 DEF Unread, OwnStep, GateInv, Shape, TypeOK, HookShape
  <2>2. /\ DOMAIN hook'[s] = DOMAIN hook[s] /\ hook'[s].call = hook[s].call
        /\ hook'[s].todo = hook[s].todo /\ hook'[s].changed = hook[s].changed
        /\ hook'[s].strict = hook[s].strict
    BY <1>5 DEF GateInv, Shape, HookShape
  <2>3. HookShape(hook'[s]) /\ hook'[s].todo \subseteq Files /\ hook'[s].changed \subseteq Files
    BY <1>1, <2>1, <2>2 DEF GateInv, Shape, HookShape, TypeOK
  <2>4. ~Judged(hook'[s]) /\ ~MayBeLate(hook'[s])
    BY <1>1, <2>1, <2>2 DEF Judged, MayBeLate, GateInv, Shape, HookShape
  <2> QED
    BY <2>1, <2>3, <2>4, HookGoesOn
<1> QED
  BY <1>1, <1>2, <1>3, <1>4, <1>5 DEF ReadConfig, Modes

LEMMA LoadStateGoesOn ==
    ASSUME GateInv, NEW s \in Slots, LoadState(s)
    PROVE  GateInv'
<1>1. hook[s].pc = "state" /\ Unread
  BY DEF LoadState
<1>2. CASE Deny(s)
  BY <1>1, <1>2, DenyGoesOn
<1>3. CASE state # None /\ hook' = [hook EXCEPT ![s].pc = "decide", ![s].seen = state]
  <2>1. OwnStep(s) /\ hook'[s].pc = "decide" /\ hook'[s].seen = state
    BY <1>1, <1>3 DEF Unread, OwnStep, GateInv, Shape, TypeOK, HookShape
  <2>2. /\ DOMAIN hook'[s] = DOMAIN hook[s] /\ hook'[s].call = hook[s].call
        /\ hook'[s].todo = hook[s].todo /\ hook'[s].changed = hook[s].changed
    BY <1>3 DEF GateInv, Shape, HookShape
  <2>3. HookShape(hook'[s]) /\ hook'[s].todo \subseteq Files /\ hook'[s].changed \subseteq Files
    BY <1>1, <1>3, <2>1, <2>2, StateLease DEF GateInv, Shape, HookShape, TypeOK
  <2>4. ~Judged(hook'[s]) /\ ~MayBeLate(hook'[s])
    <3>1. state.lease # None => state.lease.issued \in Nat
      BY <1>3, StateLease DEF GateInv, Shape, LeaseShape
    <3> QED
      BY <1>3, <2>1, <3>1, GatePolicyAssumption DEF Judged, MayBeLate, LeaseEnded, GateInv,
         Shape, TypeOK
  <2> QED
    BY <2>1, <2>3, <2>4, HookGoesOn
<1> QED
  BY <1>1, <1>2, <1>3 DEF LoadState

LEMMA ObserveGoesOn ==
    ASSUME GateInv, NEW s \in Slots, NEW f \in Files, Observe(s, f)
    PROVE  GateInv'
<1>1. hook[s].pc = "attest" /\ Unread
  BY DEF Observe
<1>2. CASE Deny(s)
  BY <1>1, <1>2, DenyGoesOn
<1>3. CASE /\ ViewOf(f) = hook[s].lease.binding.base[f]
           /\ hook' = [hook EXCEPT ![s].todo = @ \ {f}]
  <2>1. OwnStep(s) /\ hook'[s].todo = hook[s].todo \ {f}
    BY <1>1, <1>3 DEF Unread, OwnStep, GateInv, Shape, TypeOK, HookShape
  <2>2. /\ DOMAIN hook'[s] = DOMAIN hook[s]
        /\ hook'[s].pc = hook[s].pc /\ hook'[s].call = hook[s].call
        /\ hook'[s].strict = hook[s].strict /\ hook'[s].lease = hook[s].lease
        /\ hook'[s].seen = hook[s].seen
        /\ hook'[s].decidedOn = hook[s].decidedOn /\ hook'[s].changed = hook[s].changed
    BY <1>3 DEF GateInv, Shape, HookShape
  <2>3. HookShape(hook'[s]) /\ hook'[s].todo \subseteq Files /\ hook'[s].changed \subseteq Files
    BY <1>1, <2>1, <2>2 DEF GateInv, Shape, HookShape, TypeOK
  <2>4. /\ Judged(hook'[s]) <=> Judged(hook[s])
        /\ MayBeLate(hook'[s]) => MayBeLate(hook[s])
    BY <2>2 DEF Judged, MayBeLate
  <2>5. ASSUME Judged(hook'[s])
        PROVE  /\ LeaseShape(hook'[s].lease) /\ hook'[s].lease # None
               /\ AllowedOn(hook'[s].call, hook'[s].lease, hook'[s].decidedOn)
               /\ \A g \in Observed(hook'[s].lease.globs)
                              \ (hook'[s].todo \cup hook'[s].changed) :
                      ViewOf(g) = hook'[s].lease.binding.base[g]
    <3>1. LeaseShape(hook[s].lease) /\ hook[s].lease # None
      BY <2>4, <2>5 DEF GateInv, Shape
    <3>2. AllowedOn(hook[s].call, hook[s].lease, hook[s].decidedOn)
      BY <2>4, <2>5 DEF GateInv, ScopeHolds
    <3>3. \A g \in Observed(hook[s].lease.globs) \ (hook[s].todo \cup hook[s].changed) :
              ViewOf(g) = hook[s].lease.binding.base[g]
      BY <2>4, <2>5 DEF GateInv, ReadSoFar
    <3> QED
      BY <1>3, <2>1, <2>2, <3>1, <3>2, <3>3
  <2>6. hook'[s].pc \in {"idle", "config", "state", "decide", "attest", "allowed"}
    BY <1>1, <2>2
  <2> QED
    BY <2>1, <2>3, <2>4, <2>5, <2>6, HookGoesOn
<1> QED
  BY <1>1, <1>2, <1>3 DEF Observe

LEMMA AttestGoesOn ==
    ASSUME GateInv, NEW s \in Slots, Attest(s)
    PROVE  GateInv'
<1>1. hook[s].pc = "attest" /\ hook[s].todo = {} /\ Unread
  BY DEF Attest
<1>2. CASE Deny(s)
  BY <1>1, <1>2, DenyGoesOn
<1>3. CASE hook' = [hook EXCEPT ![s].pc = "allowed"]
  <2>1. OwnStep(s) /\ hook'[s].pc = "allowed"
    BY <1>1, <1>3 DEF Unread, OwnStep, GateInv, Shape, TypeOK, HookShape
  <2>2. /\ DOMAIN hook'[s] = DOMAIN hook[s]
        /\ hook'[s].call = hook[s].call /\ hook'[s].todo = hook[s].todo
        /\ hook'[s].strict = hook[s].strict /\ hook'[s].lease = hook[s].lease
        /\ hook'[s].decidedOn = hook[s].decidedOn /\ hook'[s].changed = hook[s].changed
    BY <1>3 DEF GateInv, Shape, HookShape
  <2>3. HookShape(hook'[s]) /\ hook'[s].todo \subseteq Files /\ hook'[s].changed \subseteq Files
    BY <1>1, <2>1, <2>2 DEF GateInv, Shape, HookShape, TypeOK
  <2>4. /\ Judged(hook'[s]) <=> Judged(hook[s])
        /\ MayBeLate(hook'[s]) => MayBeLate(hook[s])
    BY <1>1, <2>1, <2>2 DEF Judged, MayBeLate
  <2>5. ASSUME Judged(hook'[s])
        PROVE  /\ LeaseShape(hook'[s].lease) /\ hook'[s].lease # None
               /\ AllowedOn(hook'[s].call, hook'[s].lease, hook'[s].decidedOn)
               /\ \A g \in Observed(hook'[s].lease.globs)
                              \ (hook'[s].todo \cup hook'[s].changed) :
                      ViewOf(g) = hook'[s].lease.binding.base[g]
    BY <2>2, <2>4, <2>5 DEF GateInv, Shape, ScopeHolds, ReadSoFar
  <2> QED
    BY <2>1, <2>3, <2>4, <2>5, HookGoesOn
<1> QED
  BY <1>1, <1>2, <1>3 DEF Attest

(* An edit that is let through was allowed path by path, under a lease     *)
(* that was usable; whatever else is let through is no edit.               *)
LEMMA DecisionOnAnEdit ==
    ASSUME NEW s \in Slots, Writes(hook[s].call),
           Allows(hook[s].seen, ActionFrom(hook[s].call, hook[s].seen), now)
    PROVE  /\ ActionFrom(hook[s].call, hook[s].seen).kind = "native-write"
           /\ LeaseUsable(hook[s].seen, now)
           /\ AllowedOn(hook[s].call, hook[s].seen.lease, links)
<1> DEFINE call == hook[s].call
           action == ActionFrom(call, hook[s].seen)
<1>1. call.cwd # Outside
  BY DEF ActionFrom, Allows, NoAction
<1>2. action = [NoAction EXCEPT !.kind = "native-write",
                                !.facts = {PathFact(p) : p \in EditPaths(call)}]
  BY <1>1 DEF ActionFrom, Writes
<1>3. action.kind = "native-write" /\ action.facts = {PathFact(p) : p \in EditPaths(call)}
  BY <1>2 DEF NoAction
<1> HIDE DEF action
<1>4. /\ LeaseUsable(hook[s].seen, now) /\ action.facts # {}
      /\ \A fact \in action.facts : PathAllowed(hook[s].seen.lease, fact)
  BY <1>3 DEF Allows, action
<1>5. AllowedOn(call, hook[s].seen.lease, links)
  BY <1>3, <1>4, ResolveIs DEF AllowedOn, PathFact
<1> QED
  BY <1>3, <1>4, <1>5 DEF action

LEMMA DecideGoesOn ==
    ASSUME GateInv, NEW s \in Slots, Decide(s)
    PROVE  GateInv'
<1> DEFINE h == hook[s]
           action == ActionFrom(h.call, h.seen)
<1>1. h.pc = "decide" /\ Unread
  BY DEF Decide
<1>2. CASE Deny(s)
  BY <1>1, <1>2, DenyGoesOn
<1>3. CASE /\ Allows(h.seen, action, now)
           /\ hook' = [hook EXCEPT ![s].pc = "attest", ![s].seen = None,
                                   ![s].lease = h.seen.lease,
                                   ![s].decidedOn = links, ![s].changed = {},
                                   ![s].todo = Observed(h.seen.lease.globs)]
  <2>1. OwnStep(s)
    BY <1>1, <1>3 DEF Unread, OwnStep, GateInv, Shape, TypeOK, HookShape
  <2>2. /\ DOMAIN hook'[s] = DOMAIN h
        /\ hook'[s].call = h.call /\ hook'[s].strict = h.strict
        /\ hook'[s].pc = "attest" /\ hook'[s].lease = h.seen.lease
        /\ hook'[s].decidedOn = links /\ hook'[s].changed = {}
        /\ hook'[s].todo = Observed(h.seen.lease.globs)
    BY <1>3 DEF GateInv, Shape, HookShape
  <2>3. HookShape(hook'[s]) /\ hook'[s].todo \subseteq Files /\ hook'[s].changed \subseteq Files
    BY <1>1, <2>2 DEF GateInv, Shape, HookShape, Observed
  <2>4. ASSUME Judged(hook'[s])
        PROVE  /\ LeaseShape(hook'[s].lease) /\ hook'[s].lease # None
               /\ AllowedOn(hook'[s].call, hook'[s].lease, hook'[s].decidedOn)
               /\ LeaseUsable(h.seen, now)
    BY <1>1, <1>3, <2>2, <2>4, DecisionOnAnEdit, SMTT(20) DEF Judged, LeaseUsable, GateInv,
       Shape, HookShape
  <2>5. ASSUME MayBeLate(hook'[s]) PROVE MayBeLate(h)
    <3>1. Judged(hook'[s]) /\ LeaseEnded(h.seen.lease)
      BY <2>2, <2>5 DEF MayBeLate
    <3> QED
      BY <1>1, <2>2, <2>4, <3>1 DEF MayBeLate, Judged, LeaseUsable
  <2>6. \A f \in Observed(hook'[s].lease.globs) \ (hook'[s].todo \cup hook'[s].changed) : FALSE
    BY <2>2
  <2> QED
    BY <2>1, <2>2, <2>3, <2>4, <2>5, <2>6, HookGoesOn
<1>4. CASE /\ Allows(h.seen, action, now) /\ action.kind # "native-write"
           /\ hook' = [hook EXCEPT ![s].pc = "allowed", ![s].seen = None]
  <2>1. OwnStep(s)
    BY <1>1, <1>4 DEF Unread, OwnStep, GateInv, Shape, TypeOK, HookShape
  <2>2. /\ DOMAIN hook'[s] = DOMAIN h /\ hook'[s].pc = "allowed"
        /\ hook'[s].call = h.call /\ hook'[s].todo = h.todo /\ hook'[s].changed = h.changed
    BY <1>4 DEF GateInv, Shape, HookShape
  <2>3. HookShape(hook'[s]) /\ hook'[s].todo \subseteq Files /\ hook'[s].changed \subseteq Files
    BY <1>1, <2>2 DEF GateInv, Shape, HookShape, TypeOK
  <2>4. ~Judged(hook'[s]) /\ ~MayBeLate(hook'[s])
    BY <1>4, <2>2, DecisionOnAnEdit DEF Judged, MayBeLate
  <2> QED
    BY <2>1, <2>2, <2>3, <2>4, HookGoesOn
<1> QED
  BY <1>1, <1>2, <1>3, <1>4 DEF Decide

-----------------------------------------------------------------------------
(* Steps that change the tree *)

(* A hook learns that files have changed.                                  *)
Learns(t, files) ==
    /\ DOMAIN hook'[t] = DOMAIN hook[t]
    /\ hook'[t].pc = hook[t].pc /\ hook'[t].call = hook[t].call
    /\ hook'[t].strict = hook[t].strict /\ hook'[t].seen = hook[t].seen
    /\ hook'[t].lease = hook[t].lease /\ hook'[t].todo = hook[t].todo
    /\ hook'[t].decidedOn = hook[t].decidedOn
    /\ hook'[t].changed = hook[t].changed \cup files

LEMMA LearningKeeps ==
    ASSUME GateInv, NEW t \in Slots, NEW files \in SUBSET Files, Learns(t, files)
    PROVE  /\ HookShape(hook'[t])
           /\ hook'[t].pc \in {"idle", "config", "state", "decide", "attest", "allowed"}
           /\ hook'[t].todo \subseteq Files /\ hook'[t].changed \subseteq Files
           /\ Judged(hook'[t]) <=> Judged(hook[t])
           /\ Judged(hook'[t]) =>
                /\ LeaseShape(hook'[t].lease) /\ hook'[t].lease # None
                /\ AllowedOn(hook'[t].call, hook'[t].lease, hook'[t].decidedOn)
           /\ MayBeLate(hook'[t]) => MayBeLate(hook[t])
<1>1. HookShape(hook'[t])
  BY DEF GateInv, Shape, HookShape, Learns
<1>2. /\ hook'[t].pc \in {"idle", "config", "state", "decide", "attest", "allowed"}
      /\ hook'[t].todo \subseteq Files /\ hook'[t].changed \subseteq Files
  BY DEF GateInv, Shape, TypeOK, Learns
<1>3. Judged(hook'[t]) <=> Judged(hook[t])
  BY DEF Judged, Learns
<1>4. MayBeLate(hook'[t]) => MayBeLate(hook[t])
  BY <1>3 DEF MayBeLate, Learns
<1> QED
  BY <1>1, <1>2, <1>3, <1>4 DEF GateInv, Shape, ScopeHolds, Learns

(* The view of a file depends on nothing but its content and the symlinks. *)
LEMMA ViewStays ==
    ASSUME links' = links, NEW f, tree'[f] = tree[f]
    PROVE  ViewOf(f)' = ViewOf(f)
  BY DEF ViewOf

LEMMA WriteGoesOn ==
    ASSUME GateInv, NEW s \in Slots, ProviderWrites(s)
    PROVE  GateInv'
<1> DEFINE h == hook[s]
           targets == Targets(h.call)
           ended == h.strict /\ LeaseEnded(h.lease)
<1>1. /\ h.pc = "allowed" /\ Writes(h.call) /\ targets \in SUBSET Files
      /\ UNCHANGED <<state, links, now, events, calls>>
  BY DEF ProviderWrites, Targets
<1>2. \A f \in Files : /\ f \notin targets => tree'[f] = tree[f]
                       /\ f \in targets => tree'[f] = IF f = Config THEN "assistive" ELSE "agent"
  BY DEF ProviderWrites
<1>3. DOMAIN hook' = Slots /\ hook'[s] = IdleHook
  BY DEF ProviderWrites
<1>4. \A t \in Slots \ {s} : Learns(t, targets)
  <2> SUFFICES ASSUME NEW t \in Slots \ {s} PROVE Learns(t, targets)
    OBVIOUS
  <2>1. hook'[t] = [hook[t] EXCEPT !.changed = @ \cup targets]
    BY DEF ProviderWrites
  <2> HIDE DEF targets
  <2> QED
    BY <2>1 DEF Learns, GateInv, Shape, HookShape
<1>5. /\ HookShape(IdleHook) /\ ~Judged(IdleHook) /\ ~MayBeLate(IdleHook)
      /\ IdleHook.pc = "idle" /\ IdleHook.todo = {} /\ IdleHook.changed = {}
  BY DEF HookShape, Judged, MayBeLate, IdleHook
<1>6. /\ late' = IF ended THEN late + 1 ELSE late
      /\ foreign' = (foreign \/ ended \/ ~h.strict \/ links # h.decidedOn \/ ~Plain(h.call))
  BY DEF ProviderWrites
<1> HIDE DEF targets
<1>7. \A t \in Slots \ {s} :
          /\ HookShape(hook'[t])
          /\ hook'[t].pc \in {"idle", "config", "state", "decide", "attest", "allowed"}
          /\ hook'[t].todo \subseteq Files /\ hook'[t].changed \subseteq Files
          /\ Judged(hook'[t]) <=> Judged(hook[t])
          /\ Judged(hook'[t]) =>
               /\ LeaseShape(hook'[t].lease) /\ hook'[t].lease # None
               /\ AllowedOn(hook'[t].call, hook'[t].lease, hook'[t].decidedOn)
          /\ MayBeLate(hook'[t]) => MayBeLate(hook[t])
  BY <1>1, <1>4, LearningKeeps
<1>8. TypeOK'
  <2>1. \A f \in Files : tree'[f] \in IF f = Config THEN Modes ELSE Contents
    BY <1>2 DEF GateInv, Shape, TypeOK, Modes, Contents
  <2>2. late' \in Nat /\ foreign' \in BOOLEAN
    BY <1>6 DEF GateInv, Shape, TypeOK
  <2> QED
    BY <1>1, <1>3, <1>5, <1>7, <2>1, <2>2 DEF GateInv, Shape, TypeOK
<1>9. Shape'
  BY <1>1, <1>3, <1>5, <1>7, <1>8 DEF GateInv, Shape
<1>10. ScopeHolds'
  BY <1>3, <1>5, <1>7 DEF ScopeHolds
<1>11. \A f \in Files \ targets : ViewOf(f)' = ViewOf(f)
  BY <1>1, <1>2, ViewStays
<1>12. ReadSoFar'
  <2> SUFFICES ASSUME NEW t \in Slots \ {s}, Judged(hook'[t]),
                      NEW f \in Observed(hook'[t].lease.globs)
                                  \ (hook'[t].todo \cup hook'[t].changed)
               PROVE  ViewOf(f)' = hook'[t].lease.binding.base[f]
    BY <1>3, <1>5 DEF ReadSoFar, Observed
  <2>1. Judged(hook[t]) /\ f \in Files \ targets
        /\ f \in Observed(hook[t].lease.globs) \ (hook[t].todo \cup hook[t].changed)
    BY <1>4, <1>7 DEF Learns, Observed
  <2> QED
    BY <1>4, <1>11, <2>1 DEF GateInv, ReadSoFar, Learns
<1>13. LateHolds'
  <2>1. OnTheWay' \subseteq OnTheWay \ {s}
    <3> SUFFICES ASSUME NEW t \in Slots, MayBeLate(hook[t])' PROVE t \in OnTheWay /\ t # s
      BY DEF OnTheWay
    <3>1. MayBeLate(hook'[t])
      BY <1>1 DEF MayBeLate, LeaseEnded
    <3> QED
      BY <1>3, <1>5, <1>7, <3>1 DEF OnTheWay
  <2>2. CASE ~ended
    BY <1>6, <2>1, <2>2, FewerOnTheWay
  <2>3. CASE ended
    <3>1. s \in OnTheWay
      BY <1>1, <2>3 DEF OnTheWay, MayBeLate, Judged
    <3>2. IsFiniteSet(OnTheWay)
      BY FS_Subset, GatePolicyAssumption DEF OnTheWay
    <3>3. /\ IsFiniteSet(OnTheWay \ {s})
          /\ Cardinality(OnTheWay \ {s}) = Cardinality(OnTheWay) - 1
      BY <3>1, <3>2, FS_RemoveElement
    <3>4. Cardinality(OnTheWay') <= Cardinality(OnTheWay \ {s}) /\ IsFiniteSet(OnTheWay')
      BY <2>1, <3>3, FS_Subset
    <3>5. /\ Cardinality(OnTheWay) \in Nat /\ Cardinality(OnTheWay') \in Nat
          /\ Cardinality(Slots) \in Nat /\ late \in Nat
      BY <3>2, <3>4, FS_CardinalityType, GatePolicyAssumption DEF GateInv, Shape, TypeOK
    <3> QED
      BY <1>6, <2>3, <3>3, <3>4, <3>5 DEF LateHolds, GateInv
  <2> QED
    BY <2>2, <2>3
<1>14. OwnWorkKeepsLease'
  <2> SUFFICES ASSUME state # None, state.lease # None, ~foreign'
               PROVE  /\ Observation(state.lease.globs)' = state.base
                      /\ \A e \in state.evidence : EvidenceHolds(e, state.lease.globs)'
    BY <1>1 DEF OwnWorkKeepsLease
  <2>1. /\ ~foreign /\ h.strict /\ links = h.decidedOn /\ Plain(h.call)
        /\ state.lease = h.lease
    BY <1>6 DEF LeaseEnded
  <2>2. AllowedOn(h.call, h.lease, links) /\ h.call \in Payloads
    BY <1>1, <2>1 DEF GateInv, ScopeHolds, Judged, Shape, HookShape
  <2>3. \A f \in targets : InScope(state.lease.globs, f)
    BY <1>1, <2>1, <2>2, TargetsAreAllowed DEF targets
  <2>4. /\ Observation(state.lease.globs) = state.base
        /\ \A e \in state.evidence : EvidenceHolds(e, state.lease.globs)
    BY <2>1 DEF GateInv, OwnWorkKeepsLease
  <2>5. Observation(state.lease.globs)' = Observation(state.lease.globs)
    BY <1>1, <1>11, <2>3 DEF Observation, Observed
  <2>6. \A e \in state.evidence : e.path \in Files
    BY DEF GateInv, Shape, TypeOK, State, Evidence
  <2>7. ASSUME NEW e \in state.evidence PROVE EvidenceHolds(e, state.lease.globs)'
    <3>1. CASE InScope(state.lease.globs, e.path)
      BY <1>1, <3>1 DEF EvidenceHolds
    <3>2. CASE ~InScope(state.lease.globs, e.path)
      BY <1>1, <1>2, <2>3, <2>4, <2>6, <3>2 DEF EvidenceHolds
    <3> QED
      BY <3>1, <3>2
  <2> QED
    BY <2>4, <2>5, <2>7
<1> QED
  BY <1>9, <1>10, <1>12, <1>13, <1>14 DEF GateInv

(* The user edits a file or moves a symlink: every hook learns of it.      *)
LEMMA DisturbanceGoesOn ==
    ASSUME GateInv, NEW files \in SUBSET Files, Disturb(files),
           UNCHANGED <<state, now, calls, late>>, Event,
           links' \in LinkMaps, links' # links => files = Files,
           \A f \in Files : tree'[f] \in IF f = Config THEN Modes ELSE Contents,
           \A f \in Files \ files : tree'[f] = tree[f]
    PROVE  GateInv'
<1>1. DOMAIN hook' = Slots /\ foreign' = TRUE
  BY DEF Disturb
<1>2. \A t \in Slots : Learns(t, files)
  BY DEF Disturb, Learns, GateInv, Shape, HookShape
<1>3. \A t \in Slots :
          /\ HookShape(hook'[t])
          /\ hook'[t].pc \in {"idle", "config", "state", "decide", "attest", "allowed"}
          /\ hook'[t].todo \subseteq Files /\ hook'[t].changed \subseteq Files
          /\ Judged(hook'[t]) <=> Judged(hook[t])
          /\ Judged(hook'[t]) =>
               /\ LeaseShape(hook'[t].lease) /\ hook'[t].lease # None
               /\ AllowedOn(hook'[t].call, hook'[t].lease, hook'[t].decidedOn)
          /\ MayBeLate(hook'[t]) => MayBeLate(hook[t])
  BY <1>2, LearningKeeps
<1>4. events' \in 0..MaxEvents
  BY GatePolicyAssumption DEF Event, GateInv, Shape, TypeOK
<1>5. TypeOK'
  BY <1>1, <1>3, <1>4 DEF GateInv, Shape, TypeOK
<1>6. Shape'
  BY <1>1, <1>3, <1>5 DEF GateInv, Shape
<1>7. ScopeHolds'
  BY <1>3 DEF ScopeHolds
<1>8. ReadSoFar'
  <2> SUFFICES ASSUME NEW t \in Slots, Judged(hook'[t]),
                      NEW f \in Observed(hook'[t].lease.globs)
                                  \ (hook'[t].todo \cup hook'[t].changed)
               PROVE  ViewOf(f)' = hook'[t].lease.binding.base[f]
    BY DEF ReadSoFar, Observed
  <2>1. Judged(hook[t]) /\ f \in Files \ files
        /\ f \in Observed(hook[t].lease.globs) \ (hook[t].todo \cup hook[t].changed)
    BY <1>2, <1>3 DEF Learns, Observed
  <2>2. ViewOf(f)' = ViewOf(f)
    BY <2>1, ViewStays
  <2> QED
    BY <1>2, <2>1, <2>2 DEF GateInv, ReadSoFar, Learns
<1>9. OnTheWay' \subseteq OnTheWay
  <2> SUFFICES ASSUME NEW t \in Slots, MayBeLate(hook[t])' PROVE t \in OnTheWay
    BY DEF OnTheWay
  <2>1. MayBeLate(hook'[t])
    BY DEF MayBeLate, LeaseEnded
  <2> QED
    BY <1>3, <2>1 DEF OnTheWay
<1>10. LateHolds'
  BY <1>9, FewerOnTheWay
<1> QED
  BY <1>1, <1>6, <1>7, <1>8, <1>10 DEF GateInv, OwnWorkKeepsLease

LEMMA EditGoesOn ==
    ASSUME GateInv, NEW f \in Files, UserEdits(f)
    PROVE  GateInv'
<1>1. PICK c \in IF f = Config THEN Modes ELSE {"base", "user"} : tree' = [tree EXCEPT ![f] = c]
  BY DEF UserEdits
<1>2. /\ Disturb({f}) /\ Event /\ UNCHANGED <<state, now, calls, late>> /\ links' = links
      /\ {f} \in SUBSET Files
  BY DEF UserEdits
<1>3. \A g \in Files : /\ tree'[g] \in IF g = Config THEN Modes ELSE Contents
                       /\ g # f => tree'[g] = tree[g]
  BY <1>1 DEF GateInv, Shape, TypeOK, Contents
<1>4. links' \in LinkMaps
  BY <1>2 DEF GateInv, Shape, TypeOK
<1> QED
  BY <1>2, <1>3, <1>4, DisturbanceGoesOn

LEMMA LinkGoesOn ==
    ASSUME GateInv, NEW m \in LinkMaps, UserLinks(m)
    PROVE  GateInv'
<1>1. /\ Disturb(Files) /\ Event /\ UNCHANGED <<state, now, calls, late>>
      /\ tree' = tree /\ links' \in LinkMaps
  BY DEF UserLinks
<1>2. \A g \in Files : tree'[g] \in IF g = Config THEN Modes ELSE Contents
  BY <1>1 DEF GateInv, Shape, TypeOK
<1> QED
  BY <1>1, <1>2, DisturbanceGoesOn

-----------------------------------------------------------------------------
(* Steps that change the state or the time *)

(* What the hooks have read is not touched by them.                        *)
LEMMA HooksStay ==
    ASSUME GateInv, UNCHANGED <<tree, links, hook>>, TypeOK'
    PROVE  Shape' /\ ScopeHolds' /\ ReadSoFar'
<1>1. \A f : ViewOf(f)' = ViewOf(f)
  BY DEF ViewOf
<1> QED
  BY <1>1 DEF GateInv, Shape, ScopeHolds, ReadSoFar

LEMMA TurnGoesOn == ASSUME GateInv, Turn PROVE GateInv'
<1>1. /\ state' = [task |-> state.task + 1, phase |-> "received", base |-> None,
                   evidence |-> {}, lease |-> None]
      /\ state # None /\ Event /\ late' = 0
      /\ UNCHANGED <<tree, links, now, hook, calls, foreign>>
  BY DEF Turn
<1>2. state' \in State /\ state'.lease = None
  BY <1>1 DEF GateInv, Shape, TypeOK, Phases, State
<1>3. events' \in 0..MaxEvents
  BY <1>1, GatePolicyAssumption DEF Event, GateInv, Shape, TypeOK
<1>4. TypeOK'
  BY <1>1, <1>2, <1>3 DEF GateInv, Shape, TypeOK
<1>5. Shape' /\ ScopeHolds' /\ ReadSoFar'
  BY <1>1, <1>4, HooksStay
<1> QED
  BY <1>1, <1>2, <1>5, NoneLate DEF GateInv, OwnWorkKeepsLease

LEMMA DamageGoesOn == ASSUME GateInv, Damage PROVE GateInv'
<1>1. state' = None /\ Event /\ late' = 0 /\ UNCHANGED <<tree, links, now, hook, calls, foreign>>
  BY DEF Damage
<1>2. events' \in 0..MaxEvents
  BY <1>1, GatePolicyAssumption DEF Event, GateInv, Shape, TypeOK
<1>3. TypeOK'
  BY <1>1, <1>2 DEF GateInv, Shape, TypeOK
<1>4. Shape' /\ ScopeHolds' /\ ReadSoFar'
  BY <1>1, <1>3, HooksStay
<1> QED
  BY <1>1, <1>4, NoneLate DEF GateInv, OwnWorkKeepsLease

LEMMA VerifyingGoesOn == ASSUME GateInv, Verifying PROVE GateInv'
<1>1. /\ state' = [state EXCEPT !.phase = "verifying"] /\ state # None /\ Event
      /\ state.lease # None /\ UNCHANGED <<tree, links, now, hook, calls, late, foreign>>
  BY DEF Verifying
<1>2. /\ state \in State /\ state' \in State
      /\ state'.base = state.base /\ state'.evidence = state.evidence
      /\ state'.lease = state.lease
  BY <1>1 DEF GateInv, Shape, TypeOK, State, Phases
<1>3. events' \in 0..MaxEvents
  BY <1>1, GatePolicyAssumption DEF Event, GateInv, Shape, TypeOK
<1>4. TypeOK'
  BY <1>1, <1>2, <1>3 DEF GateInv, Shape, TypeOK
<1>5. Shape' /\ ScopeHolds' /\ ReadSoFar'
  BY <1>1, <1>4, HooksStay
<1>6. \A lease : LeaseEnded(lease)' <=> LeaseEnded(lease)
  BY <1>1, <1>2, StateAssumption DEF LeaseEnded
<1>7. OnTheWay' \subseteq OnTheWay
  BY <1>1, <1>6 DEF OnTheWay, MayBeLate
<1>8. LateHolds'
  BY <1>1, <1>7, FewerOnTheWay
<1>9. \A f : ViewOf(f)' = ViewOf(f)
  BY <1>1 DEF ViewOf
<1>10. OwnWorkKeepsLease'
  BY <1>1, <1>2, <1>9 DEF GateInv, OwnWorkKeepsLease, Observation, EvidenceHolds
<1> QED
  BY <1>5, <1>8, <1>10 DEF GateInv

(* A lease ends by its term when no edit by it was late before.            *)
LEMMA TickGoesOn == ASSUME GateInv, Tick PROVE GateInv'
<1>1. now' = now + 1 /\ Event /\ UNCHANGED <<state, tree, links, hook, calls, foreign>>
  BY DEF Tick
<1>2. late' = 0 \/ late' = late
  BY DEF Tick
<1>3. TypeOK'
  BY <1>1, <1>2, GatePolicyAssumption DEF Event, GateInv, Shape, TypeOK
<1>4. Shape' /\ ScopeHolds' /\ ReadSoFar'
  BY <1>1, <1>3, HooksStay
<1>5. \A f : ViewOf(f)' = ViewOf(f)
  BY <1>1 DEF ViewOf
<1>6. OwnWorkKeepsLease'
  BY <1>1, <1>5 DEF GateInv, OwnWorkKeepsLease, Observation, EvidenceHolds
<1>7. LateHolds'
  <2>1. CASE late' = 0
    BY <2>1, NoneLate
  <2>2. CASE late' = late /\ late' # 0
    <3>1. /\ now \in Nat /\ LeaseTerm \in Nat
          /\ state # None /\ state.lease # None =>
                state.lease.issued \in Nat /\ now + 1 # state.lease.issued + LeaseTerm
      BY <1>1, <2>2, GatePolicyAssumption, StateLease DEF Tick, GateInv, Shape, TypeOK,
         LeaseShape
    <3>2. ASSUME NEW s \in Slots, MayBeLate(hook[s])' PROVE s \in OnTheWay
      <4>1. CASE Judged(hook[s]) /\ LeaseEnded(hook[s].lease)'
        <5>1. hook[s].lease # None /\ hook[s].lease.issued \in Nat
          BY <4>1 DEF GateInv, Shape, LeaseShape
        <5>2. LeaseEnded(hook[s].lease)
          BY <1>1, <3>1, <4>1, <5>1 DEF LeaseEnded
        <5> QED
          BY <4>1, <5>2 DEF OnTheWay, MayBeLate
      <4>2. CASE /\ hook[s].strict /\ hook[s].pc = "decide" /\ Writes(hook[s].call)
                 /\ hook[s].seen.lease # None /\ LeaseEnded(hook[s].seen.lease)'
                 /\ now + 1 < hook[s].seen.lease.issued + LeaseTerm
        <5>1. hook[s].seen.lease.issued \in Nat
          BY <4>2 DEF GateInv, Shape, HookShape, LeaseShape
        <5>2. LeaseEnded(hook[s].seen.lease) /\ now < hook[s].seen.lease.issued + LeaseTerm
          BY <1>1, <3>1, <4>2, <5>1 DEF LeaseEnded
        <5> QED
          BY <4>2, <5>2 DEF OnTheWay, MayBeLate
      <4> QED
        BY <1>1, <3>2, <4>1, <4>2 DEF MayBeLate, Judged
    <3>3. OnTheWay' \subseteq OnTheWay
      BY <1>1, <3>2 DEF OnTheWay
    <3> QED
      BY <2>2, <3>3, FewerOnTheWay
  <2> QED
    BY <1>2, <2>1, <2>2
<1> QED
  BY <1>4, <1>6, <1>7 DEF GateInv

LEMMA ObservationIsBase == TypeOK => \A globs : Observation(globs) \in Base
<1> SUFFICES ASSUME TypeOK, NEW f \in Files PROVE ViewOf(f) \in View
  BY DEF Observation, Base, Observed
<1>1. links \in LinkMaps /\ tree[f] \in Contents \cup Modes
  BY DEF TypeOK
<1> QED
  BY <1>1 DEF ViewOf, View

(* The lease that is replaced has ended already.                           *)
LEMMA IssueGoesOn ==
    ASSUME GateInv, NEW globs \in Scopes, NEW e \in Files, Issue(globs, e)
    PROVE  GateInv'
<1> DEFINE evidence == {[path |-> e, digest |-> tree[e]]}
           bare == [state EXCEPT !.phase = "implementing", !.base = Observation(globs),
                                 !.evidence = evidence]
           lease == [globs |-> globs, commands |-> LeaseCommands, issued |-> now,
                     binding |-> StateBinding(bare)]
<1>1. /\ Event /\ state # None /\ CanBeEvidence(e)
      /\ state.lease # None => now >= state.lease.issued + LeaseTerm
      /\ state' = [bare EXCEPT !.lease = lease] /\ foreign' = FALSE
      /\ UNCHANGED <<tree, links, now, hook, calls, late>>
  BY DEF Issue
<1>2. evidence \in SUBSET Evidence
  <2>1. e # Config
    BY <1>1, GatePolicyAssumption DEF CanBeEvidence
  <2> QED
    BY <2>1 DEF GateInv, Shape, TypeOK, Evidence
<1>3. Observation(globs) \in Base
  BY ObservationIsBase DEF GateInv, Shape
<1> HIDE DEF evidence
<1>4. /\ bare \in State /\ bare.base = Observation(globs) /\ bare.evidence = evidence
  BY <1>1, <1>2, <1>3 DEF GateInv, Shape, TypeOK, State, Phases
<1> HIDE DEF bare
<1>5. StateBinding(bare) \in Binding
  BY <1>3, <1>4 DEF StateBinding, Binding, State
<1>6. lease \in Lease /\ lease.globs = globs
  BY <1>5 DEF Lease, GateInv, Shape, TypeOK
<1> HIDE DEF lease
<1>7. /\ state' \in State /\ state'.lease = lease /\ state'.base = Observation(globs)
      /\ state'.evidence = evidence
  BY <1>1, <1>4, <1>6 DEF State
<1>8. TypeOK'
  <2>1. events' \in 0..MaxEvents
    BY <1>1, GatePolicyAssumption DEF Event, GateInv, Shape, TypeOK
  <2>2. foreign' \in BOOLEAN
    BY <1>1
  <2> QED
    BY <1>1, <1>7, <2>1, <2>2 DEF GateInv, Shape, TypeOK
<1>9. Shape' /\ ScopeHolds' /\ ReadSoFar'
  BY <1>1, <1>8, HooksStay
<1>10. OnTheWay' \subseteq OnTheWay
  <2>1. ASSUME NEW l, LeaseEnded(l)', l # None PROVE LeaseEnded(l)
    BY <1>1, <1>7, <2>1, StateAssumption DEF LeaseEnded
  <2> QED
    BY <1>1, <2>1 DEF OnTheWay, MayBeLate, Judged, GateInv, Shape
<1>11. LateHolds'
  BY <1>1, <1>10, FewerOnTheWay
<1>12. Observation(state.lease.globs)' = state'.base
  BY <1>1, <1>6, <1>7 DEF Observation, ViewOf, Observed
<1>13. \A x \in state'.evidence : EvidenceHolds(x, globs)'
  BY <1>1, <1>7 DEF EvidenceHolds, CanBeEvidence, evidence
<1>14. OwnWorkKeepsLease'
  BY <1>6, <1>7, <1>12, <1>13 DEF OwnWorkKeepsLease, EvidenceHolds
<1> QED
  BY <1>9, <1>11, <1>14 DEF GateInv

-----------------------------------------------------------------------------

LEMMA GateInductive == GateInv /\ [Next]_vars => GateInv'
<1> SUFFICES ASSUME GateInv, [Next]_vars PROVE GateInv'
  OBVIOUS
<1>1. ASSUME NEW s \in Slots, Judge(s) PROVE GateInv'
  <2>1. CASE ReadConfig(s) \/ LoadState(s)
    BY <2>1, ReadConfigGoesOn, LoadStateGoesOn
  <2>2. CASE Decide(s)
    BY <2>2, DecideGoesOn
  <2>3. CASE \E f \in Files : Observe(s, f)
    BY <2>3, ObserveGoesOn
  <2>4. CASE Attest(s)
    BY <2>4, AttestGoesOn
  <2>5. CASE ProviderWrites(s)
    BY <2>5, WriteGoesOn
  <2>6. CASE ProviderReturns(s)
    BY <2>6, DenyGoesOn DEF ProviderReturns
  <2> QED
    BY <1>1, <2>1, <2>2, <2>3, <2>4, <2>5, <2>6 DEF Judge
<1>2. ASSUME NEW s \in Slots, NEW call \in Payloads, CallTool(s, call) PROVE GateInv'
  BY <1>2, CallGoesOn
<1>3. CASE \E globs \in Scopes, e \in Files : Issue(globs, e)
  BY <1>3, IssueGoesOn
<1>4. CASE Verifying
  BY <1>4, VerifyingGoesOn
<1>5. CASE Turn
  BY <1>5, TurnGoesOn
<1>6. CASE Damage
  BY <1>6, DamageGoesOn
<1>7. CASE Tick
  BY <1>7, TickGoesOn
<1>8. CASE \E f \in Files : UserEdits(f)
  BY <1>8, EditGoesOn
<1>9. CASE \E m \in LinkMaps : UserLinks(m)
  BY <1>9, LinkGoesOn
<1>10. CASE UNCHANGED vars
  <2>1. TypeOK' /\ Shape' /\ ScopeHolds' /\ ReadSoFar'
    BY <1>10, HooksStay DEF vars, GateInv, Shape, TypeOK
  <2>2. LateHolds'
    BY <1>10, FewerOnTheWay DEF vars, OnTheWay, MayBeLate, LeaseEnded
  <2>3. OwnWorkKeepsLease'
    BY <1>10 DEF vars, GateInv, OwnWorkKeepsLease, Observation, ViewOf, EvidenceHolds
  <2> QED
    BY <2>1, <2>2, <2>3 DEF GateInv
<1> QED
  BY <1>1, <1>2, <1>3, <1>4, <1>5, <1>6, <1>7, <1>8, <1>9, <1>10 DEF Next, World

LEMMA GateInvariant == Spec => []GateInv
<1> QED
  BY InitSound, GateInductive, PTL DEF Spec

-----------------------------------------------------------------------------
(* Theorems *)

(* The state the hook reads, the tree and every hook keep their shape.     *)
THEOREM GateTypes == Spec => []TypeOK
<1>1. GateInv => TypeOK
  BY DEF GateInv, Shape
<1> QED
  BY <1>1, GateInvariant, PTL

(* The agent's own leased edits never make its lease stale, although they  *)
(* change the very tree the lease is attested on.                          *)
THEOREM OwnWorkIsKept == Spec => []OwnWorkKeepsLease
<1>1. GateInv => OwnWorkKeepsLease
  BY DEF GateInv
<1> QED
  BY <1>1, GateInvariant, PTL

(* A lease that has ended lets through no more edits than there were tool  *)
(* calls on their way when it ended: late edits and hooks that may still   *)
(* be late are, together, no more than the slots.                          *)
THEOREM LateEditsAreBounded == Spec => []LateWritesAreBounded
<1>1. GateInv => LateWritesAreBounded
  <2> SUFFICES ASSUME GateInv PROVE late <= Cardinality(Slots)
    BY DEF LateWritesAreBounded
  <2>1. IsFiniteSet(OnTheWay)
    BY FS_Subset, GatePolicyAssumption DEF OnTheWay
  <2>2. /\ Cardinality(OnTheWay) \in Nat /\ Cardinality(Slots) \in Nat /\ late \in Nat
        /\ late + Cardinality(OnTheWay) <= Cardinality(Slots)
    BY <2>1, FS_CardinalityType, GatePolicyAssumption DEF GateInv, Shape, TypeOK, LateHolds
  <2> QED
    BY <2>2
<1> QED
  BY <1>1, GateInvariant, PTL

(* A strict edit changes only what is in the scope of the lease it was     *)
(* judged by, and nothing protected that the lease does not name, by any   *)
(* form of call, spelling or symlink.                                      *)
THEOREM EditsStayInScope == Spec => WritesStayInScope
<1> DEFINE Allowed(s, f) ==
             Written(s, f) /\ links = hook[s].decidedOn /\ Plain(hook[s].call) =>
               /\ InScope(hook[s].lease.globs, f)
               /\ (\E g \in ProtectedGlobs : Matches(FoldAll(g), FoldAll(f)))
                      => f \in hook[s].lease.globs
<1>1. GateInv => \A s \in Slots, f \in Files : Allowed(s, f)
  <2> SUFFICES ASSUME GateInv, NEW s \in Slots, NEW f \in Files,
                      Written(s, f), links = hook[s].decidedOn, Plain(hook[s].call)
               PROVE  /\ InScope(hook[s].lease.globs, f)
                      /\ IsProtected(f) => f \in hook[s].lease.globs
    BY DEF IsProtected
  <2>1. /\ hook[s].pc = "allowed" /\ hook[s].strict /\ Writes(hook[s].call)
        /\ f \in Targets(hook[s].call)
    BY DEF Written, Writing, ProviderWrites
  <2>2. hook[s].call \in Payloads /\ AllowedOn(hook[s].call, hook[s].lease, links)
    BY <2>1 DEF GateInv, Shape, HookShape, ScopeHolds, Judged
  <2> QED
    BY <2>1, <2>2, TargetsAreAllowed
<1>2. GateInv => [\A s \in Slots, f \in Files : Allowed(s, f)]_vars
  BY <1>1
<1> QED
  BY <1>2, GateInvariant, PTL DEF WritesStayInScope

(* A strict edit rests on the tree its lease was issued on, in everything  *)
(* that nobody changed while the hook read it file by file.                *)
THEOREM EditsRestOnBase == Spec => WritesRestOnBase
<1> DEFINE Rests(s, f) ==
             Writing(s) /\ f \in Observed(hook[s].lease.globs) \ hook[s].changed
                => ViewOf(f) = hook[s].lease.binding.base[f]
<1>1. GateInv => \A s \in Slots, f \in Files : Rests(s, f)
  <2> SUFFICES ASSUME GateInv, NEW s \in Slots, NEW f \in Files, Writing(s),
                      f \in Observed(hook[s].lease.globs) \ hook[s].changed
               PROVE  ViewOf(f) = hook[s].lease.binding.base[f]
    OBVIOUS
  <2>1. Judged(hook[s]) /\ hook[s].pc = "allowed"
    BY DEF Writing, ProviderWrites, Judged
  <2> QED
    BY <2>1 DEF GateInv, Shape, HookShape, ReadSoFar
<1>2. GateInv => [\A s \in Slots, f \in Files : Rests(s, f)]_vars
  BY <1>1
<1> QED
  BY <1>2, GateInvariant, PTL DEF WritesRestOnBase

-----------------------------------------------------------------------------
(* The three forms of an edit *)

LEMMA PathsOfForms ==
    ASSUME NEW call \in Payloads, Writes(call)
    PROVE  /\ EditPaths(call) # {} => EditPaths(call) = Found(call)
           /\ EditPaths(call) # {} <=> Found(call) # {} /\ OnePathEach(call)
<1> DEFINE ds == DOMAIN call.items
<1>1. ItemPaths(call) = {OnePath(call.items[i]) : i \in ds}
  BY DEF ItemPaths
<1>2. Found(call) = ({TopPath(call)} \cup ItemPaths(call)) \ {None}
  BY DEF Found, Objects, TopPath, ItemPaths
<1>3. call.items = << >> => ItemPaths(call) = {}
  BY <1>1
<1>4. OnePathEach(call) <=>
         /\ ItemPaths(call) = {} => call.tool = "write"
         /\ IF TopPath(call) = None THEN None \notin ItemPaths(call)
                                    ELSE \A q \in ItemPaths(call) : q = None
  BY <1>1 DEF OnePathEach
<1>5. CASE call.tool = "write"
  BY <1>2, <1>3, <1>4, <1>5, CallAssumption DEF EditPaths
<1>6. CASE call.tool = "multi-edit"
  <2>1. CASE ItemPaths(call) = {}
    BY <1>4, <1>6, <2>1 DEF EditPaths
  <2>2. CASE ItemPaths(call) # {} /\ TopPath(call) # None
    BY <1>2, <1>3, <1>4, <1>6, <2>2 DEF EditPaths
  <2>3. CASE ItemPaths(call) # {} /\ TopPath(call) = None
    BY <1>2, <1>3, <1>4, <1>6, <2>3 DEF EditPaths
  <2> QED
    BY <2>1, <2>2, <2>3
<1>7. CASE call.tool = "patch"
  <2>1. TopPath(call) = None /\ None \notin ItemPaths(call)
    BY <1>7, CallAssumption DEF TopPath, ItemPaths, OnePath, Objects
  <2> QED
    BY <1>2, <1>3, <1>4, <1>7, <2>1 DEF EditPaths
<1> QED
  BY <1>5, <1>6, <1>7 DEF Writes

(* What it takes to let an edit through, and one path of it.               *)
MayWrite(s, cwd) ==
    cwd # Outside /\ s.phase \in WritePhases /\ LeaseUsable(s, now)

LEMMA EditIsAllowed ==
    ASSUME NEW call, Writes(call), NEW s
    PROVE  Allows(s, ActionFrom(call, s), now) <=>
             /\ MayWrite(s, call.cwd) /\ EditPaths(call) # {}
             /\ \A p \in EditPaths(call) : PathAllowed(s.lease, PathFact(p))
<1> DEFINE action == ActionFrom(call, s)
<1>1. CASE call.cwd = Outside
  BY <1>1 DEF ActionFrom, Allows, NoAction, MayWrite
<1>2. CASE call.cwd # Outside
  <2>1. action = [NoAction EXCEPT !.kind = "native-write",
                                  !.facts = {PathFact(p) : p \in EditPaths(call)}]
    BY <1>2 DEF ActionFrom, Writes
  <2>2. action.kind = "native-write" /\ action.facts = {PathFact(p) : p \in EditPaths(call)}
    BY <2>1 DEF NoAction
  <2> HIDE DEF action
  <2>3. Allows(s, action, now) <=>
          /\ s.phase \in WritePhases /\ LeaseUsable(s, now) /\ action.facts # {}
          /\ \A fact \in action.facts : PathAllowed(s.lease, fact)
    BY <2>2 DEF Allows
  <2> QED
    BY <1>2, <2>2, <2>3 DEF action, MayWrite
<1> QED
  BY <1>1, <1>2

LEMMA PathIsAllowed ==
    ASSUME NEW p, NEW cwd, NEW s
    PROVE  LET one == [Alone(p) EXCEPT !.cwd = cwd]
           IN  Allows(s, ActionFrom(one, s), now) <=>
                 MayWrite(s, cwd) /\ p # None /\ PathAllowed(s.lease, PathFact(p))
<1> DEFINE one == [Alone(p) EXCEPT !.cwd = cwd]
<1>1. one.tool = "write" /\ one.top = <<p>> /\ one.cwd = cwd
  BY DEF Alone
<1> HIDE DEF one
<1>2. TopPath(one) = p
  BY <1>1 DEF TopPath, OnePath
<1>3. EditPaths(one) = {p} \ {None} /\ Writes(one)
  BY <1>1, <1>2 DEF EditPaths, Writes
<1>4. Allows(s, ActionFrom(one, s), now) <=>
         MayWrite(s, cwd) /\ p # None /\ PathAllowed(s.lease, PathFact(p))
  BY <1>1, <1>3, EditIsAllowed
<1> QED
  BY <1>4 DEF one

(* A call is let through exactly when each of its edits finds its path in  *)
(* one place only and each path so found would be let through alone; what  *)
(* an object with two paths names is not among them.                       *)
THEOREM FormsAreJudgedAlike == Spec => []FormsAgree
<1>1. GateInv => FormsAgree
  <2> SUFFICES ASSUME GateInv, NEW s \in Slots, hook[s].pc = "decide", Writes(hook[s].call)
               PROVE  LET call == hook[s].call
                          Allowed(c) == Allows(hook[s].seen, ActionFrom(c, hook[s].seen), now)
                      IN  Allowed(call) <=>
                             /\ Found(call) # {} /\ OnePathEach(call)
                             /\ \A p \in Found(call) :
                                    Allowed([Alone(p) EXCEPT !.cwd = call.cwd])
    BY DEF FormsAgree
  <2> DEFINE call == hook[s].call
             seen == hook[s].seen
             Allowed(c) == Allows(seen, ActionFrom(c, seen), now)
  <2>1. call \in Payloads
    BY DEF GateInv, Shape, HookShape
  <2>2. Allowed(call) <=>
          /\ MayWrite(seen, call.cwd) /\ EditPaths(call) # {}
          /\ \A p \in EditPaths(call) : PathAllowed(seen.lease, PathFact(p))
    BY EditIsAllowed
  <2>3. \A p : Allowed([Alone(p) EXCEPT !.cwd = call.cwd]) <=>
                 MayWrite(seen, call.cwd) /\ p # None /\ PathAllowed(seen.lease, PathFact(p))
    BY PathIsAllowed, ZenonT(40)
  <2>4. /\ EditPaths(call) # {} => EditPaths(call) = Found(call)
        /\ EditPaths(call) # {} <=> Found(call) # {} /\ OnePathEach(call)
        /\ None \notin Found(call)
    BY <2>1, PathsOfForms DEF Found
  <2> HIDE DEF call, seen, Allowed
  <2>5. Allowed(call) <=> /\ Found(call) # {} /\ OnePathEach(call)
                          /\ \A p \in Found(call) :
                                 Allowed([Alone(p) EXCEPT !.cwd = call.cwd])
    BY <2>2, <2>3, <2>4
  <2> QED
    BY <2>5 DEF call, seen, Allowed
<1> QED
  BY <1>1, GateInvariant, PTL
=============================================================================
