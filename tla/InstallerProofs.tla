---------------------------- MODULE InstallerProofs ----------------------------
(***************************************************************************)
(* Theorems about the installer, for any set of files it owns, any number  *)
(* of releases, commands, failures, kills, edits and turns.                *)
(***************************************************************************)
EXTENDS InstallerProperties, TLAPS

-----------------------------------------------------------------------------
(* The inductive invariant *)

Transactions == {"planned", "apply", "rollback"}
Reading == {"manifest", "status", "state", "sidecars"}
Verifications == Reading \cup {"canary", "restore", "judge"}
Replacing(p) == [path |-> p, save |-> FALSE]
Saving(p) == [path |-> p, save |-> TRUE]

(* Files, plans and copies have the content of their path.                 *)
DiskSound(d) ==
    /\ d = [x \in Paths \cup {"recovery"} |-> d[x]]
    /\ d["recovery"] = [p \in Paths |-> d["recovery"][p]]
    /\ \A p \in Paths : d[p] \in ContentOf(p)

Shape ==
    /\ TypeOK /\ DiskSound(disk)
    /\ mine = [p \in UserPaths |-> mine[p]]
    /\ pc \in Transactions => cmd \in {"install", "repair", "uninstall"}
    /\ \A p \in DOMAIN plan : plan[p] \in ContentOf(p)
    /\ \A p \in DOMAIN snap : snap[p] \in ContentOf(p)
    /\ pc \in {"apply", "rollback"} => DOMAIN snap = DOMAIN plan
    /\ pc \in {"apply", "rollback"} => todo \subseteq AllMutations

(* What a transaction leaves behind when it succeeds.                      *)
After(p) == IF p \in DOMAIN plan THEN plan[p] ELSE found[p]
Recovery(p) == disk["recovery"][p]
Copies(p) == {saves[q] : q \in DOMAIN saves \cap {p}}

(* Nobody else has changed the path since the plan was made.               *)
Untouched(p) ==
    \/ alone
    \/ p \in UserPaths /\ mine[p] # None
    \/ p = "manifest" /\ ~lost

(* A file that nobody else touches is as it was found, or as planned after *)
(* it was copied, and a rollback puts back what was found.                 *)
FilesSound ==
    /\ DiskSound(found)
    /\ \A p \in DOMAIN saves : saves[p] \notin found["recovery"][p]
    /\ pc = "planned" =>
        /\ disk["recovery"] = found["recovery"]
        /\ \A p \in Paths : Untouched(p) => disk[p] = found[p]
    /\ pc \in {"apply", "rollback"} =>
        \A p \in DOMAIN plan : Untouched(p) => snap[p] = found[p]
    /\ pc = "apply" =>
        \A p \in Paths :
          /\ Recovery(p) = found["recovery"][p]
                           \cup (IF Saving(p) \in todo THEN {} ELSE Copies(p))
          /\ Saving(p) \in todo /\ p \in DOMAIN plan => Replacing(p) \in todo
          /\ Untouched(p) => disk[p] = IF p \in DOMAIN plan /\ Replacing(p) \notin todo
                                       THEN plan[p] ELSE found[p]
    /\ pc = "rollback" /\ ~spoiled =>
        \A p \in Paths :
          /\ Recovery(p) \in {found["recovery"][p], found["recovery"][p] \cup Copies(p)}
          /\ Saving(p) \notin todo =>
                /\ Recovery(p) = found["recovery"][p]
                /\ p \in DOMAIN saves => Replacing(p) \notin todo
          /\ Untouched(p) =>
                \/ disk[p] = found[p]
                \/ /\ p \in DOMAIN plan /\ Replacing(p) \in todo /\ disk[p] = plan[p]
                   /\ Recovery(p) = found["recovery"][p] \cup Copies(p)

(* What an install or repair, and what an uninstall, leaves behind.        *)
AfterSetup ==
    /\ After("manifest") \in Manifest /\ After("manifest").release = release
    /\ After("bridge") \in Bridge /\ After("bridge").block = release
    /\ After("hooks") \in Hooks /\ \A i \in HookIds : After("hooks").ours[i] = release
    /\ After("seed") # None /\ After("state") \in State /\ After("status") \in Status
    /\ \A p \in Owned : After(p) = release
    /\ After("sidecar") = found["sidecar"] /\ After("evidence") = found["evidence"]
    /\ After("status").bound \/ (~found["status"].bound /\ ~found["status"].private)
    /\ found["state"] \notin Bad => /\ After("state").turn = found["state"].turn
                                    /\ After("state").lease = found["state"].lease

(* The line breaks around the managed block are those the manifest knows.  *)
Framed(b, m) ==
    b \in {None, Unsafe}
    \/ IF b.block = None THEN b.frame = 0
       ELSE /\ m \notin {None, Broken} /\ b.frame \in {0, 1}
            /\ b.frame = 1 => m.framed

BridgeLeft(b, m) == IF m.created /\ b.text = Blank THEN None
                    ELSE [text |-> b.text, block |-> None, frame |-> 0]
HooksLeft(h, m) == IF m.hooksCreated /\ h.other = Blank THEN None
                   ELSE [other |-> h.other, ours |-> [i \in HookIds |-> None]]

AfterUninstall ==
    LET b == found["bridge"]
        m == found["manifest"]
    IN  /\ \A p \in Owned \cup StatePaths \cup {"manifest"} : After(p) = None
        /\ After("seed") = found["seed"] /\ DOMAIN saves = {}
        /\ After("hooks") = HooksLeft(found["hooks"], m)
        /\ After("bridge") = None => m.created /\ b.text = Blank
        /\ After("bridge") # None => /\ After("bridge") \in Bridge
                                     /\ After("bridge").block = None
                                     /\ After("bridge").text = b.text
        /\ Framed(b, m) => After("bridge") = BridgeLeft(b, m)

(* The user's content m of a path, given what is in the path and in its    *)
(* recovery copies.                                                        *)
BridgeKeptIn(m, b, copies) ==
    LET Same(c) == c \notin {None, Unsafe} /\ c.block = m.block
    IN  IF m = None THEN TRUE
        ELSE IF m = Unsafe THEN b = Unsafe
        ELSE /\ IF b = None THEN m.text = Blank ELSE b.text = m.text
             /\ m.block \in {Edited, Broken} => Same(b) \/ \E c \in copies : Same(c)

HooksKeptIn(m, h, copies) ==
    IF m = None THEN TRUE
    ELSE IF m \in {Broken, Unsafe} THEN h = m
    ELSE /\ IF h = None THEN m.other = Blank ELSE h.other = m.other
         /\ \A i \in HookIds :
                LET Same(c) == c \notin Bad /\ c.ours[i] = m.ours[i]
                IN  m.ours[i] \in {Edited, Broken} => Same(h) \/ \E c \in copies : Same(c)

KeptIn(p, m, content, copies) ==
    CASE p = "bridge" -> BridgeKeptIn(m, content, copies)
      [] p = "hooks" -> HooksKeptIn(m, content, copies)
      [] p = "seed" -> m # None => content = m
      [] OTHER -> m \in {Edited, Unsafe} => content = m \/ m \in copies

KeptByPlan ==
    ~spoiled => \A p \in UserPaths :
        /\ KeptIn(p, mine[p], found[p], found["recovery"][p])
        /\ KeptIn(p, mine[p], After(p), found["recovery"][p] \cup Copies(p))

FramingSound ==
    ~lost /\ ~spoiled =>
        LET bridge == disk["bridge"]
            pending == pc = "planned" \/ Replacing("bridge") \in todo
        IN  /\ Framed(found["bridge"], found["manifest"])
            /\ Framed(After("bridge"), After("manifest"))
            /\ "bridge" \notin DOMAIN plan =>
                 /\ Framed(bridge, found["manifest"]) /\ Framed(bridge, After("manifest"))
            /\ "bridge" \in DOMAIN plan =>
                 /\ pc \in {"apply", "rollback"} => Framed(snap["bridge"], found["manifest"])
                 /\ pending /\ pc # "rollback" => Framed(bridge, found["manifest"])
                 /\ ~pending /\ pc = "apply" => Framed(bridge, After("manifest"))
                 /\ ~pending /\ pc = "rollback" => Framed(bridge, found["manifest"])

(* While the provider is verified, only the copied files change.           *)
VerificationSound ==
    /\ pc # "manifest" => seen.manifest \in Manifest
    /\ pc \notin {"manifest", "status"} => seen.status \in Status
    /\ pc = "sidecars" => DOMAIN snap = {"state"}
    /\ pc \notin Reading => DOMAIN snap = {"state", "sidecar"}
    /\ pc = "restore" => todo \subseteq {Replacing("state"), Replacing("sidecar")}
    /\ alone =>
        /\ pc \in Reading \cup {"canary"} => /\ disk["state"] = found["state"]
                                           /\ disk["sidecar"] = found["sidecar"]
        /\ pc \notin Reading \ {"sidecars"} => snap["state"] = found["state"]
        /\ pc \notin Reading => snap["sidecar"] = found["sidecar"]
        /\ pc \in {"restore", "judge"} =>
             \A p \in {"state", "sidecar"} : Replacing(p) \notin todo => disk[p] = found[p]
        /\ pc = "judge" => todo = {}

InstallerInv ==
    /\ Shape
    /\ pc \in Transactions =>
        /\ FilesSound /\ KeptByPlan /\ FramingSound
        /\ IF cmd = "uninstall" THEN AfterUninstall ELSE AfterSetup
    /\ pc \in Verifications => VerificationSound
    /\ pc \notin Transactions =>
        /\ UserContentKept
        /\ ~lost /\ ~spoiled => Framed(disk["bridge"], disk["manifest"])

-----------------------------------------------------------------------------
(* Paths, contents and mutations *)

Named == {"bridge", "hooks", "seed", "state", "status", "sidecar", "evidence", "manifest"}

LEMMA PathFacts ==
    /\ Paths = Named \cup Owned /\ Owned \cap Named = {} /\ "recovery" \notin Paths
    /\ UserPaths = {"bridge", "hooks", "seed"} \cup Owned
  BY InstallerAssumption DEF Paths, UserPaths, StatePaths, Named

LEMMA ContentFacts ==
    /\ ContentOf("bridge") = Bridge \cup {None, Unsafe}
    /\ ContentOf("hooks") = Hooks \cup Bad
    /\ ContentOf("seed") = Texts \cup {None}
    /\ ContentOf("state") = State \cup Bad
    /\ ContentOf("status") = Status \cup Bad
    /\ ContentOf("sidecar") = Nat \cup {None, Unsafe}
    /\ ContentOf("evidence") = Nat \cup {None, Unsafe}
    /\ ContentOf("manifest") = Manifest \cup {None, Broken}
    /\ \A p \in Owned : ContentOf(p) = Releases \cup {None, Edited, Unsafe}
<1>1. \A p \in Owned : ContentOf(p) = Releases \cup {None, Edited, Unsafe}
  BY InstallerAssumption DEF ContentOf
<1> QED
  BY <1>1 DEF ContentOf

LEMMA NothingFacts == DOMAIN Nothing = {}
  BY DEF Nothing

LEMMA MutationRecords ==
    ASSUME NEW flag, NEW S, NEW m \in [path : S, save : {flag}]
    PROVE  m.path \in S /\ m = [path |-> m.path, save |-> flag]
  OBVIOUS

(* A mutation replaces a path of the plan or saves one of the drifted ones.*)
LEMMA MutationFacts ==
    /\ \A m \in AllMutations : \/ m.path \in DOMAIN plan /\ m = Replacing(m.path)
                               \/ m.path \in DOMAIN saves /\ m = Saving(m.path)
    /\ \A p : Replacing(p) \in AllMutations <=> p \in DOMAIN plan
    /\ \A p : Saving(p) \in AllMutations <=> p \in DOMAIN saves
<1> DEFINE replacing == [path : DOMAIN plan, save : {FALSE}]
           saving == [path : DOMAIN saves, save : {TRUE}]
<1>1. \A m \in replacing : m.path \in DOMAIN plan /\ m = Replacing(m.path)
  BY MutationRecords, Zenon DEF Replacing
<1>2. \A m \in saving : m.path \in DOMAIN saves /\ m = Saving(m.path)
  BY MutationRecords, Zenon DEF Saving
<1>3. \A p : p \in DOMAIN plan => Replacing(p) \in replacing
  BY DEF Replacing
<1>4. \A p : p \in DOMAIN saves => Saving(p) \in saving
  BY DEF Saving
<1>5. \A p, q : /\ Replacing(p) # Saving(q) /\ Replacing(p).path = p /\ Saving(p).path = p
  BY DEF Replacing, Saving
<1>6. AllMutations = replacing \cup saving
  BY DEF AllMutations
<1> HIDE DEF replacing, saving
<1> QED
  BY <1>1, <1>2, <1>3, <1>4, <1>5, <1>6

LEMMA MutationFields ==
    /\ \A p : Replacing(p).path = p /\ ~Replacing(p).save
    /\ \A p : Saving(p).path = p /\ Saving(p).save
    /\ \A p, q : Replacing(p) # Saving(q)
    /\ \A p, q : (Replacing(p) = Replacing(q) => p = q) /\ (Saving(p) = Saving(q) => p = q)
<1>1. \A p : Replacing(p).path = p /\ ~Replacing(p).save
  BY DEF Replacing
<1>2. \A p : Saving(p).path = p /\ Saving(p).save
  BY DEF Saving
<1> QED
  BY <1>1, <1>2

(* A copy for recovery comes before what replaces the original.            *)
LEMMA SaveComesFirst ==
    \A p : /\ Place(Saving(p)) \in Int /\ Place(Replacing(p)) \in Int
           /\ Place(Saving(p)) < Place(Replacing(p))
<1> SUFFICES ASSUME NEW p
             PROVE  /\ Place(Saving(p)) \in Int /\ Place(Replacing(p)) \in Int
                    /\ Place(Saving(p)) < Place(Replacing(p))
  OBVIOUS
<1>1. Rank(p) \in 1..10
  BY DEF Rank
<1>2. Place(Replacing(p)) = 2 * Rank(p) + 1
  BY MutationFields DEF Place
<1>3. Place(Saving(p)) = IF p = "manifest" THEN 0 ELSE 2 * Rank(p)
  BY <1>1, MutationFields DEF Place
<1> QED
  BY <1>1, <1>2, <1>3

-----------------------------------------------------------------------------
(* The plan of each path, when it stops nothing: what it leaves there, and *)
(* that it keeps the user's content.                                       *)

Saved(planned, p) == IF planned.save THEN {disk[p]} ELSE {}

LEMMA DiskContent ==
    ASSUME TypeOK
    PROVE  /\ disk["bridge"] \in Bridge \cup {None, Unsafe}
           /\ disk["hooks"] \in Hooks \cup Bad /\ disk["seed"] \in Texts \cup {None}
           /\ disk["state"] \in State \cup Bad /\ disk["status"] \in Status \cup Bad
           /\ disk["sidecar"] \in Nat \cup {None, Unsafe}
           /\ disk["evidence"] \in Nat \cup {None, Unsafe}
           /\ disk["manifest"] \in Manifest \cup {None, Broken}
           /\ \A p \in Owned : disk[p] \in Releases \cup {None, Edited, Unsafe}
           /\ release \in Releases
  BY ContentFacts, PathFacts DEF TypeOK, Named

LEMMA BridgeUpdate ==
    ASSUME NEW b \in Bridge, NEW block \in Releases \cup {None}, NEW frame \in Nat
    PROVE  [b EXCEPT !.block = block, !.frame = frame] \in Bridge
  BY DEF Bridge

LEMMA BridgeChange ==
    ASSUME TypeOK, NEW repair, ~BridgePlan(repair).conflict
    PROVE  LET b == disk["bridge"]
               planned == BridgePlan(repair)
           IN  /\ b # Unsafe /\ planned.new \in Bridge /\ planned.new.block = release
               /\ planned.new.text = IF b = None THEN Blank ELSE b.text
               /\ planned.new.frame = IF b = None THEN 1
                                      ELSE IF b.block = None THEN b.frame + 1 ELSE b.frame
               /\ b # None /\ b.block \in {Edited, Broken} => planned.save
<1> DEFINE b == disk["bridge"]
           planned == BridgePlan(repair)
<1>1. b \in Bridge \cup {None, Unsafe} /\ release \in Releases
  BY DiskContent
<1>2. b # Unsafe
  BY DEF BridgePlan, Conflict
<1>3. CASE b = None
  <2>1. planned = Replace([text |-> Blank, block |-> release, frame |-> 1])
    BY <1>2, <1>3 DEF BridgePlan
  <2>2. planned.new = [text |-> Blank, block |-> release, frame |-> 1]
    BY <2>1 DEF Replace
  <2> QED
    BY <1>1, <1>2, <1>3, <2>2, InstallerAssumption DEF Bridge
<1>4. CASE b # None /\ b.block = None
  <2>1. planned = Replace([b EXCEPT !.block = release, !.frame = @ + 1])
    BY <1>2, <1>4 DEF BridgePlan
  <2>2. planned.new = [b EXCEPT !.block = release, !.frame = @ + 1]
    BY <2>1 DEF Replace
  <2>3. b \in Bridge
    BY <1>1, <1>2, <1>4
  <2>4. b.frame + 1 \in Nat
    BY <2>3 DEF Bridge
  <2> HIDE DEF planned
  <2>5. planned.new \in Bridge
    <3>1. [b EXCEPT !.block = release, !.frame = b.frame + 1] \in Bridge
      BY <1>1, <2>3, <2>4, BridgeUpdate
    <3>2. planned.new = [b EXCEPT !.block = release, !.frame = b.frame + 1]
      BY <2>2, <2>3 DEF Bridge
    <3> QED
      BY <3>1, <3>2
  <2>6. /\ planned.new.text = b.text /\ planned.new.block = release
        /\ planned.new.frame = b.frame + 1
    BY <2>2, <2>3 DEF Bridge
  <2> QED
    BY <1>2, <1>4, <2>5, <2>6, MarkAssumption DEF planned
<1>5. CASE b # None /\ b.block # None
  <2>1. b.block # Broken
    BY <1>2, <1>5 DEF BridgePlan, Conflict
  <2>2. CASE b.block = release
    <3>1. planned.new = b
      BY <1>2, <1>5, <2>1, <2>2 DEF BridgePlan, Keep
    <3> QED
      BY <1>1, <1>2, <1>5, <2>2, <3>1, MarkAssumption DEF Bridge
  <2>3. CASE b.block # release
    <3>1. /\ planned.new = [b EXCEPT !.block = release]
          /\ b.block = Edited => planned.save
      <4>1. CASE b.block = PreviousRelease
        <5>1. planned = Replace([b EXCEPT !.block = release])
          BY <1>2, <1>5, <2>1, <2>3, <4>1 DEF BridgePlan
        <5>2. PreviousRelease \in Releases \cup {None}
          BY DiskContent DEF PreviousRelease, Previous, Manifest
        <5> QED
          BY <4>1, <5>1, <5>2, MarkAssumption DEF Replace
      <4>2. CASE b.block # PreviousRelease
        <5>1. planned = SaveAndReplace([b EXCEPT !.block = release])
          BY <1>2, <1>5, <2>1, <2>3, <4>2 DEF BridgePlan, Conflict
        <5> QED
          BY <5>1 DEF SaveAndReplace
      <4> QED
        BY <4>1, <4>2
    <3> QED
      BY <1>1, <1>2, <1>5, <2>1, <2>3, <3>1, MarkAssumption DEF Bridge
  <2> QED
    BY <2>2, <2>3
<1> QED
  BY <1>3, <1>4, <1>5

LEMMA BridgePlanKeeps ==
    ASSUME TypeOK, NEW repair, ~BridgePlan(repair).conflict,
           NEW m, NEW copies, BridgeKeptIn(m, disk["bridge"], copies)
    PROVE  LET planned == BridgePlan(repair)
           IN  BridgeKeptIn(m, planned.new, copies \cup Saved(planned, "bridge"))
<1> DEFINE b == disk["bridge"]
           planned == BridgePlan(repair)
<1>1. /\ b # Unsafe /\ planned.new \in Bridge /\ planned.new.block = release
      /\ planned.new.text = IF b = None THEN Blank ELSE b.text
      /\ b # None /\ b.block \in {Edited, Broken} => planned.save
  BY BridgeChange
<1>2. planned.new \notin {None, Unsafe}
  BY <1>1, MarkAssumption
<1> HIDE DEF planned
<1> QED
  BY <1>1, <1>2 DEF BridgeKeptIn, Saved, planned

LEMMA NewManifestIs ==
    ASSUME TypeOK
    PROVE  /\ NewManifest \in Manifest /\ NewManifest.release = release
           /\ NewManifest.framed = Framing.framed
<1>1. Previous \in Manifest \cup {None}
  BY DiskContent DEF Previous
<1>2. Framing.created \in BOOLEAN /\ Framing.framed \in BOOLEAN
  BY <1>1 DEF Framing, Manifest
<1>3. release \in Releases
  BY DiskContent
<1> DEFINE hooksCreated == IF Previous = None THEN disk["hooks"] = None
                           ELSE Previous.hooksCreated
<1>4. hooksCreated \in BOOLEAN
  BY <1>1 DEF Manifest
<1> HIDE DEF hooksCreated
<1>5. NewManifest = [release |-> release, created |-> Framing.created,
                     framed |-> Framing.framed, hooksCreated |-> hooksCreated]
  BY DEF NewManifest, hooksCreated
<1> QED
  BY <1>2, <1>3, <1>4, <1>5 DEF Manifest

LEMMA BridgePlanFrames ==
    ASSUME TypeOK, NEW repair, ~BridgePlan(repair).conflict,
           Framed(disk["bridge"], disk["manifest"])
    PROVE  Framed(BridgePlan(repair).new, NewManifest)
<1> DEFINE b == disk["bridge"]
           new == BridgePlan(repair).new
<1>1. /\ b # Unsafe /\ new \in Bridge /\ new.block = release
      /\ new.frame = IF b = None THEN 1 ELSE IF b.block = None THEN b.frame + 1 ELSE b.frame
  BY BridgeChange
<1>2. new.block # None /\ NewManifest \notin {None, Broken}
  BY <1>1, DiskContent, NewManifestIs, MarkAssumption
<1>3. new.frame \in {0, 1} /\ (new.frame = 1 => Framing.framed)
  <2>1. CASE b = None \/ b.block = None
    BY <1>1, <2>1 DEF Framed, Framing
  <2>2. CASE b # None /\ b.block # None
    <3>1. Previous = disk["manifest"] /\ Previous # None
      BY <1>1, <2>2 DEF Framed, Previous
    <3> QED
      BY <1>1, <2>2, <3>1 DEF Framed, Framing
  <2> QED
    BY <2>1, <2>2
<1> HIDE DEF new
<1> QED
  BY <1>2, <1>3, NewManifestIs DEF Framed, new

LEMMA HooksChange ==
    ASSUME TypeOK, NEW repair, ~HooksPlan(repair).conflict
    PROVE  LET h == disk["hooks"]
               planned == HooksPlan(repair)
           IN  /\ h \notin {Broken, Unsafe} /\ planned.new \in Hooks
               /\ planned.new.other = IF h = None THEN Blank ELSE h.other
               /\ planned.new.ours = [i \in HookIds |-> release]
               /\ h # None /\ (\E i \in HookIds : h.ours[i] \in {Edited, Broken})
                    => planned.save
<1> DEFINE h == disk["hooks"]
           planned == HooksPlan(repair)
           ours == IF h \in Bad THEN [i \in HookIds |-> None] ELSE h.ours
           drifted == \E i \in HookIds : EntryDrifted(ours[i])
           new == [other |-> IF h \in Bad THEN Blank ELSE h.other,
                   ours |-> [i \in HookIds |-> release]]
<1>1. h \in Hooks \cup Bad /\ release \in Releases
  BY DiskContent
<1>2. planned = IF h \in {Broken, Unsafe} \/ (drifted /\ ~repair) THEN Conflict("hooks")
                ELSE IF drifted THEN SaveAndReplace(new) ELSE Replace(new)
  BY DEF HooksPlan
<1> HIDE DEF planned, new, drifted
<1>3. /\ h \notin {Broken, Unsafe}
      /\ planned.new = new
      /\ drifted => planned.save
  BY <1>2 DEF Conflict, SaveAndReplace, Replace, planned
<1>4. /\ new.other = IF h = None THEN Blank ELSE h.other
      /\ new.ours = [i \in HookIds |-> release]
  BY <1>3 DEF new, Bad
<1>5. new \in Hooks
  BY <1>1, <1>3, InstallerAssumption DEF new, Hooks, Bad
<1>6. h # None /\ (\E i \in HookIds : h.ours[i] \in {Edited, Broken}) => drifted
  <2> SUFFICES ASSUME h # None, NEW i \in HookIds, h.ours[i] \in {Edited, Broken}
               PROVE  EntryDrifted(h.ours[i]) /\ ours[i] = h.ours[i]
    BY DEF drifted
  <2>1. ours[i] = h.ours[i]
    BY <1>3 DEF Bad
  <2>2. PreviousRelease \in Releases \cup {None}
    BY DiskContent DEF PreviousRelease, Previous, Manifest
  <2> QED
    BY <1>1, <2>1, <2>2, MarkAssumption DEF EntryDrifted
<1> QED
  BY <1>3, <1>4, <1>5, <1>6 DEF planned

LEMMA HooksPlanKeeps ==
    ASSUME TypeOK, NEW repair, ~HooksPlan(repair).conflict,
           NEW m, NEW copies, HooksKeptIn(m, disk["hooks"], copies)
    PROVE  LET planned == HooksPlan(repair)
           IN  HooksKeptIn(m, planned.new, copies \cup Saved(planned, "hooks"))
<1> DEFINE h == disk["hooks"]
           planned == HooksPlan(repair)
<1>1. /\ h \notin {Broken, Unsafe} /\ planned.new \in Hooks
      /\ planned.new.other = IF h = None THEN Blank ELSE h.other
      /\ h # None /\ (\E i \in HookIds : h.ours[i] \in {Edited, Broken}) => planned.save
  BY HooksChange
<1>2. planned.new \notin Bad
  BY <1>1, MarkAssumption DEF Bad
<1> HIDE DEF planned
<1>3. SUFFICES ASSUME m # None PROVE HooksKeptIn(m, planned.new, copies \cup Saved(planned, "hooks"))
  BY DEF HooksKeptIn, planned
<1>4. m \notin {Broken, Unsafe}
  BY <1>1, <1>3 DEF HooksKeptIn
<1>5. IF h = None THEN m.other = Blank ELSE h.other = m.other
  BY <1>3, <1>4 DEF HooksKeptIn
<1>6. ASSUME NEW i \in HookIds, m.ours[i] \in {Edited, Broken}
      PROVE  \E c \in copies \cup Saved(planned, "hooks") :
                 c \notin Bad /\ c.ours[i] = m.ours[i]
  <2>1. \/ h \notin Bad /\ h.ours[i] = m.ours[i]
        \/ \E c \in copies : c \notin Bad /\ c.ours[i] = m.ours[i]
    BY <1>3, <1>4, <1>6 DEF HooksKeptIn
  <2> QED
    BY <1>1, <1>6, <2>1 DEF Saved, Bad
<1> QED
  BY <1>1, <1>2, <1>3, <1>4, <1>5, <1>6 DEF HooksKeptIn, Bad

LEMMA OwnedPlanKeeps ==
    ASSUME TypeOK, NEW repair, NEW p \in Owned, ~OwnedPlan(p, repair).conflict
    PROVE  LET planned == OwnedPlan(p, repair)
           IN  /\ planned.new = release /\ disk[p] # Unsafe
               /\ disk[p] = Edited => planned.save
<1>1. disk[p] \in Releases \cup {None, Edited, Unsafe} /\ release \in Releases
  BY DiskContent
<1>2. PreviousRelease \in Releases \cup {None}
  BY DiskContent DEF PreviousRelease, Previous, Manifest
<1> QED
  BY <1>1, <1>2, MarkAssumption DEF OwnedPlan, Conflict, Replace, SaveAndReplace

LEMMA StatePlanKeeps ==
    ASSUME TypeOK, NEW repair, ~StatePlan(repair).conflict
    PROVE  LET new == StatePlan(repair).new
           IN  /\ new \in State
               /\ disk["state"] \notin Bad => /\ new.turn = disk["state"].turn
                                              /\ new.lease = disk["state"].lease
<1> DEFINE s == disk["state"]
           new == StatePlan(repair).new
<1>1. s \in State \cup Bad
  BY DiskContent
<1>2. InitialState \in State
  BY DEF InitialState, State
<1>3. CASE s \in Bad
  <2>1. new = InitialState
    BY <1>3 DEF StatePlan, Conflict, Replace, SaveAndReplace, Bad
  <2> QED
    BY <1>2, <1>3, <2>1
<1>4. CASE s \notin Bad
  <2>1. new = [s EXCEPT !.private = TRUE]
    BY <1>4 DEF StatePlan, Replace, Bad
  <2>2. s \in State
    BY <1>1, <1>4
  <2>3. [s EXCEPT !.private = TRUE] \in State
    BY <2>2 DEF State
  <2> QED
    BY <2>1, <2>2, <2>3 DEF State
<1> QED
  BY <1>3, <1>4

LEMMA StatusUpdate ==
    ASSUME NEW s \in Status
    PROVE  /\ [s EXCEPT !.private = TRUE] \in Status
           /\ [s EXCEPT !.private = TRUE].bound = s.bound
           /\ [s EXCEPT !.bound = FALSE] \in Status
           /\ [s EXCEPT !.private = FALSE] \in Status
           /\ [s EXCEPT !.bound = TRUE, !.verified = None] \in Status
           /\ [s EXCEPT !.bound = TRUE, !.verified = None].bound
           /\ \A m \in Manifest :
                [s EXCEPT !.verified = m, !.private = TRUE, !.bound = TRUE] \in Status
<1>1. PICK yes \in BOOLEAN, no \in BOOLEAN : yes = TRUE /\ no = FALSE
  OBVIOUS
<1>2. /\ [s EXCEPT !.private = yes] \in Status
      /\ [s EXCEPT !.private = yes].bound = s.bound
      /\ [s EXCEPT !.bound = no] \in Status
      /\ [s EXCEPT !.private = no] \in Status
  BY DEF Status
<1>3. /\ [s EXCEPT !.bound = yes, !.verified = None] \in Status
      /\ [s EXCEPT !.bound = yes, !.verified = None].bound = yes
  BY DEF Status
<1>4. \A m \in Manifest :
         [s EXCEPT !.verified = m, !.private = yes, !.bound = yes] \in Status
  BY DEF Status
<1> QED
  BY <1>1, <1>2, <1>3, <1>4, Zenon

LEMMA StatusPlanKeeps ==
    ASSUME TypeOK, NEW repair, ~StatusPlan(repair).conflict
    PROVE  LET s == disk["status"]
               new == StatusPlan(repair).new
           IN  new \in Status /\ (new.bound \/ (~s.bound /\ ~s.private))
<1> DEFINE s == disk["status"]
           new == StatusPlan(repair).new
<1>1. s \in Status \cup Bad /\ release \in Releases
  BY DiskContent
<1>2. InitialStatus \in Status /\ InitialStatus.bound
  BY <1>1 DEF InitialStatus, Status
<1>3. CASE s \in Bad
  <2>1. new = InitialStatus
    BY <1>3 DEF StatusPlan, Conflict, Replace, SaveAndReplace, Bad
  <2> QED
    BY <1>2, <2>1
<1>4. CASE s \notin Bad /\ ~s.private
  <2>1. new = [s EXCEPT !.private = TRUE]
    BY <1>4 DEF StatusPlan, Replace, Bad
  <2>2. s \in Status
    BY <1>1, <1>4
  <2> HIDE DEF s, new
  <2> QED
    BY <1>4, <2>1, <2>2, StatusUpdate DEF new, s
<1>5. CASE s \notin Bad /\ s.private
  <2>1. s \in Status
    BY <1>1, <1>5
  <2>2. new = IF s.bound THEN s ELSE [s EXCEPT !.bound = TRUE, !.verified = None]
    BY <1>5 DEF StatusPlan, Replace, Keep, Bad
  <2> HIDE DEF s, new
  <2> QED
    BY <2>1, <2>2, StatusUpdate DEF new, s
<1> QED
  BY <1>3, <1>4, <1>5

LEMMA ManifestPlanIs ==
    ASSUME TypeOK, NEW repair, ~ManifestPlan(repair).conflict
    PROVE  ManifestPlan(repair).new = NewManifest
  BY DEF ManifestPlan, Conflict, Replace, SaveAndReplace

LEMMA BridgeRemovalKeeps ==
    ASSUME TypeOK, disk["manifest"] \in Manifest, ~BridgeRemoval(disk["manifest"]).conflict
    PROVE  LET b == disk["bridge"]
               m == disk["manifest"]
               new == BridgeRemoval(m).new
           IN  /\ b \in Bridge /\ b.block \in Releases
               /\ \/ new = None /\ m.created /\ b.text = Blank
                  \/ new \in Bridge /\ new.block = None /\ new.text = b.text
               /\ Framed(b, m) => Framed(new, None) /\ new = BridgeLeft(b, m)
<1> DEFINE b == disk["bridge"]
           m == disk["manifest"]
           rest == [b EXCEPT !.block = None, !.frame = IF m.framed THEN @ - 1 ELSE @]
           frame == IF m.framed THEN b.frame - 1 ELSE b.frame
           new == BridgeRemoval(m).new
<1>1. b \in Bridge
  BY DiskContent DEF BridgeRemoval, Conflict
<1>2. b.block = m.release /\ ~(m.framed /\ b.frame = 0)
  BY DEF BridgeRemoval, Conflict
<1>3. new = IF m.created /\ rest.text = Blank /\ rest.frame = 0 THEN None ELSE rest
  BY DEF BridgeRemoval, Conflict, Replace
<1>4. m.release \in Releases
  BY DEF Manifest
<1>5. frame \in Nat
  BY <1>1, <1>2 DEF Bridge
<1>6. rest = [b EXCEPT !.block = None, !.frame = frame]
  BY <1>1 DEF Bridge
<1>7. rest \in Bridge
  <2> HIDE DEF frame, rest
  <2> QED
    BY <1>1, <1>5, <1>6, BridgeUpdate
<1>8. rest.block = None /\ rest.text = b.text /\ rest.frame = frame
  <2> HIDE DEF frame
  <2> QED
    BY <1>1, <1>6 DEF Bridge
<1> HIDE DEF rest, new
<1>9. Framed(b, m) => frame = 0
  <2> SUFFICES ASSUME Framed(b, m) PROVE frame = 0
    OBVIOUS
  <2>1. b \notin {None, Unsafe} /\ b.block # None
    BY <1>1, <1>2, <1>4, MarkAssumption
  <2> QED
    BY <1>2, <2>1 DEF Framed
<1> HIDE DEF frame
<1>10. Framed(b, m) => Framed(new, None)
  BY <1>3, <1>8, <1>9 DEF Framed
<1>11. Framed(b, m) => new = BridgeLeft(b, m)
  <2>1. Framed(b, m) => rest = [text |-> b.text, block |-> None, frame |-> 0]
    BY <1>7, <1>8, <1>9 DEF Bridge
  <2> QED
    BY <1>3, <1>8, <1>9, <2>1 DEF BridgeLeft
<1> QED
  BY <1>1, <1>2, <1>3, <1>4, <1>7, <1>8, <1>10, <1>11 DEF new

LEMMA HooksRemovalKeeps ==
    ASSUME TypeOK, disk["manifest"] \in Manifest, ~HooksRemoval(disk["manifest"]).conflict
    PROVE  LET h == disk["hooks"]
               new == HooksRemoval(disk["manifest"]).new
           IN  /\ h \in Hooks /\ \A i \in HookIds : h.ours[i] \in Releases
               /\ \/ new = None /\ h.other = Blank
                  \/ new \in Hooks /\ new.other = h.other
               /\ new = HooksLeft(h, disk["manifest"])
<1> DEFINE h == disk["hooks"]
           m == disk["manifest"]
           none == [i \in HookIds |-> None]
           new == HooksRemoval(m).new
<1>1. h \in Hooks
  BY DiskContent DEF HooksRemoval, Conflict
<1>2. \A i \in HookIds : h.ours[i] = m.release
  BY DEF HooksRemoval, Conflict
<1>3. new = IF m.hooksCreated /\ h.other = Blank THEN None ELSE [h EXCEPT !.ours = none]
  BY DEF HooksRemoval, Conflict, Replace
<1>4. m.release \in Releases
  BY DEF Manifest
<1>5. [h EXCEPT !.ours = none] \in Hooks /\ [h EXCEPT !.ours = none].other = h.other
  BY <1>1 DEF Hooks
<1>6. [h EXCEPT !.ours = none] = [other |-> h.other, ours |-> none]
  BY <1>1 DEF Hooks
<1>7. new = HooksLeft(h, m)
  BY <1>3, <1>6 DEF HooksLeft
<1> HIDE DEF new
<1> QED
  BY <1>1, <1>2, <1>3, <1>4, <1>5, <1>7 DEF new

LEMMA BridgeRemoved ==
    ASSUME TypeOK, disk["manifest"] \in Manifest, ~BridgeRemoval(disk["manifest"]).conflict,
           NEW m, NEW copies, BridgeKeptIn(m, disk["bridge"], copies)
    PROVE  BridgeKeptIn(m, BridgeRemoval(disk["manifest"]).new, copies)
<1> DEFINE b == disk["bridge"]
           new == BridgeRemoval(disk["manifest"]).new
<1>1. /\ b \in Bridge /\ b.block \in Releases
      /\ \/ new = None /\ b.text = Blank
         \/ new \in Bridge /\ new.block = None /\ new.text = b.text
  BY BridgeRemovalKeeps
<1>2. b \notin {None, Unsafe} /\ b.block \notin {Edited, Broken}
  BY <1>1, MarkAssumption
<1> HIDE DEF new
<1> QED
  BY <1>1, <1>2, MarkAssumption DEF BridgeKeptIn, new

LEMMA HooksRemoved ==
    ASSUME TypeOK, disk["manifest"] \in Manifest, ~HooksRemoval(disk["manifest"]).conflict,
           NEW m, NEW copies, HooksKeptIn(m, disk["hooks"], copies)
    PROVE  HooksKeptIn(m, HooksRemoval(disk["manifest"]).new, copies)
<1> DEFINE h == disk["hooks"]
           new == HooksRemoval(disk["manifest"]).new
<1>1. /\ h \in Hooks /\ \A i \in HookIds : h.ours[i] \in Releases
      /\ \/ new = None /\ h.other = Blank
         \/ new \in Hooks /\ new.other = h.other
  BY HooksRemovalKeeps
<1>2. /\ h \notin Bad /\ (new # None => new \notin Bad)
      /\ \A i \in HookIds : h.ours[i] \notin {Edited, Broken}
  BY <1>1, MarkAssumption DEF Bad
<1> HIDE DEF new
<1>3. CASE m = None
  BY <1>3 DEF HooksKeptIn
<1>4. CASE m # None
  <2>1. m \notin {Broken, Unsafe}
    BY <1>2, <1>4 DEF HooksKeptIn, Bad
  <2>2. h.other = m.other
    BY <1>2, <1>4, <2>1 DEF HooksKeptIn, Bad
  <2>3. \A i \in HookIds : m.ours[i] \in {Edited, Broken} =>
            \E c \in copies : c \notin Bad /\ c.ours[i] = m.ours[i]
    BY <1>2, <1>4, <2>1 DEF HooksKeptIn
  <2>4. IF new = None THEN m.other = Blank ELSE new.other = m.other
    BY <1>1, <2>2, MarkAssumption
  <2> QED
    BY <1>4, <2>1, <2>3, <2>4 DEF HooksKeptIn, new
<1> QED
  BY <1>3, <1>4

LEMMA SetupPlanIs ==
    ASSUME NEW repair
    PROVE  LET planned == SetupPlan(repair)
           IN  /\ planned["bridge"] = BridgePlan(repair) /\ planned["hooks"] = HooksPlan(repair)
               /\ planned["seed"] = IF disk["seed"] = None THEN Replace(Blank) ELSE Keep("seed")
               /\ planned["state"] = StatePlan(repair) /\ planned["status"] = StatusPlan(repair)
               /\ planned["sidecar"] = Keep("sidecar")
               /\ planned["evidence"] = Keep("evidence")
               /\ planned["manifest"] = ManifestPlan(repair)
               /\ \A p \in Owned : planned[p] = OwnedPlan(p, repair)
<1>1. \A p \in Owned : p \in Paths /\ p \notin Named
  BY PathFacts
<1>2. Named \subseteq Paths
  BY PathFacts
<1> QED
  BY <1>1, <1>2 DEF SetupPlan, Named

LEMMA UninstallPlanIs ==
    ASSUME TypeOK, ~IsRefused(UninstallPlan)
    PROVE  LET planned == UninstallPlan
               m == disk["manifest"]
           IN  /\ m \in Manifest
               /\ planned["bridge"] = BridgeRemoval(m) /\ planned["hooks"] = HooksRemoval(m)
               /\ planned["seed"] = Keep("seed")
               /\ \A p \in StatePaths \cup {"manifest"} : planned[p].new = None
               /\ \A p \in Owned : planned[p] = Replace(None) /\ disk[p] = m.release
               /\ \A p \in Paths : ~planned[p].save
<1> DEFINE planned == UninstallPlan
           m == disk["manifest"]
<1>1. \A p \in Paths : ~planned[p].conflict
  BY DEF IsRefused
<1>2. \A p \in Owned : p \in Paths /\ p \notin Named
  BY PathFacts
<1>3. {"bridge", "hooks", "seed", "state", "status", "sidecar", "evidence", "manifest"}
        \subseteq Paths
  BY PathFacts DEF Named
<1>4. m \in Manifest
  <2>1. m \notin {None, Broken} \/ planned["bridge"] = Conflict("bridge")
    BY <1>3 DEF UninstallPlan
  <2> QED
    BY <1>1, <1>3, <2>1, DiskContent DEF Conflict
<1>5. m \notin {None, Broken}
  BY <1>4, MarkAssumption
<1>6. /\ planned["bridge"] = BridgeRemoval(m) /\ planned["hooks"] = HooksRemoval(m)
      /\ planned["seed"] = Keep("seed")
  BY <1>3, <1>5 DEF UninstallPlan
<1>7. \A p \in StatePaths \cup {"manifest"} : planned[p].new = None
  <2>1. planned["manifest"] = Replace(None)
    BY <1>3, <1>5 DEF UninstallPlan
  <2>2. \A p \in StatePaths : planned[p] \in {Conflict(p), Replace(None)}
    BY <1>3, <1>5 DEF UninstallPlan, StatePaths
  <2>3. \A p \in StatePaths : p \in Paths /\ planned[p] = Replace(None)
    BY <1>1, <1>3, <2>2 DEF Conflict, StatePaths
  <2> QED
    BY <2>1, <2>3 DEF Replace
<1>8. \A p \in Owned : planned[p] = Replace(None) /\ disk[p] = m.release
  <2>1. \A p \in Owned : planned[p] = IF disk[p] = m.release THEN Replace(None) ELSE Conflict(p)
    BY <1>2, <1>5 DEF UninstallPlan, Named
  <2>2. \A p \in Owned : disk[p] = m.release
    <3>1. \A p : Conflict(p).conflict
      BY DEF Conflict
    <3> QED
      BY <1>1, <1>2, <2>1, <3>1
  <2> QED
    BY <2>1, <2>2
<1>9. ASSUME NEW p \in Paths PROVE ~planned[p].save
  <2>1. \A q, content : /\ ~Replace(content).save /\ ~Keep(q).save /\ ~Conflict(q).save
    BY DEF Replace, Keep, Conflict
  <2>2. ~BridgeRemoval(m).save /\ ~HooksRemoval(m).save
    BY <2>1 DEF BridgeRemoval, HooksRemoval
  <2>3. CASE p \in Owned
    BY <1>8, <2>1, <2>3
  <2>4. CASE p \in Named
    BY <1>5, <2>1, <2>2, <2>4 DEF UninstallPlan, Named
  <2> QED
    BY <2>3, <2>4, PathFacts
<1> QED
  BY <1>4, <1>6, <1>7, <1>8, <1>9

LEMMA KeptInMore ==
    ASSUME NEW p, NEW m, NEW content, NEW copies, NEW more, copies \subseteq more,
           KeptIn(p, m, content, copies)
    PROVE  KeptIn(p, m, content, more)
<1>1. CASE p = "bridge"
  BY <1>1 DEF KeptIn, BridgeKeptIn
<1>2. CASE p = "hooks"
  BY <1>2 DEF KeptIn, HooksKeptIn
<1>3. CASE p \notin {"bridge", "hooks"}
  BY <1>3 DEF KeptIn
<1> QED
  BY <1>1, <1>2, <1>3

LEMMA KeptInIs ==
    /\ \A m, content, copies :
          KeptIn("bridge", m, content, copies) <=> BridgeKeptIn(m, content, copies)
    /\ \A m, content, copies :
          KeptIn("hooks", m, content, copies) <=> HooksKeptIn(m, content, copies)
    /\ \A m, content, copies : KeptIn("seed", m, content, copies) <=> (m # None => content = m)
    /\ \A p \in Owned : \A m, content, copies :
          KeptIn(p, m, content, copies)
            <=> (m \in {Edited, Unsafe} => content = m \/ m \in copies)
<1>1. \A p \in Owned : p \notin {"bridge", "hooks", "seed"}
  BY InstallerAssumption
<1> QED
  BY <1>1 DEF KeptIn

(* The user's content is kept when that of every path is.                  *)
LEMMA AllKeptIs ==
    AllKept <=> \A p \in UserPaths : KeptIn(p, mine[p], disk[p], Recovery(p))
<1>1. BridgeKept <=> KeptIn("bridge", mine["bridge"], disk["bridge"], Recovery("bridge"))
  BY DEF BridgeKept, BridgeKeptIn, InRecovery, Recovery, KeptIn
<1>2. HooksKept <=> KeptIn("hooks", mine["hooks"], disk["hooks"], Recovery("hooks"))
  BY DEF HooksKept, HooksKeptIn, InRecovery, Recovery, KeptIn
<1>3. \A p \in Owned : OwnedKept(p) <=> KeptIn(p, mine[p], disk[p], Recovery(p))
  BY KeptInIs DEF OwnedKept, InRecovery, Recovery
<1>4. (mine["seed"] # None => disk["seed"] = mine["seed"])
        <=> KeptIn("seed", mine["seed"], disk["seed"], Recovery("seed"))
  BY KeptInIs
<1>5. \A p : p \in UserPaths <=> p \in {"bridge", "hooks", "seed"} \/ p \in Owned
  BY PathFacts
<1> QED
  BY <1>1, <1>2, <1>3, <1>4, <1>5 DEF AllKept

-----------------------------------------------------------------------------
(* The plan of a whole command *)

Transacting == {"install", "repair", "uninstall"}

LEMMA NoConflict ==
    ASSUME NEW c, ~IsRefused(PlanOf(c)), NEW p \in Paths
    PROVE  ~PlanOf(c)[p].conflict
  BY DEF IsRefused

LEMMA SetupRefuses ==
    ASSUME NEW c, c # "uninstall", ~IsRefused(PlanOf(c))
    PROVE  LET repair == c = "repair"
           IN  /\ PlanOf(c) = SetupPlan(repair)
               /\ ~BridgePlan(repair).conflict /\ ~HooksPlan(repair).conflict
               /\ ~StatePlan(repair).conflict /\ ~StatusPlan(repair).conflict
               /\ ~ManifestPlan(repair).conflict
               /\ \A p \in Owned : ~OwnedPlan(p, repair).conflict
<1> DEFINE repair == c = "repair"
<1>1. PlanOf(c) = SetupPlan(repair)
  BY DEF PlanOf
<1>2. \A p \in Paths : ~SetupPlan(repair)[p].conflict
  BY <1>1, NoConflict
<1> HIDE DEF repair
<1>3. {"bridge", "hooks", "state", "status", "manifest"} \cup Owned \subseteq Paths
  BY PathFacts DEF Named
<1> QED
  BY <1>1, <1>2, <1>3, SetupPlanIs DEF repair

(* What an install or repair plans.                                        *)
LEMMA SetupPlanned ==
    ASSUME TypeOK, NEW c, c # "uninstall", ~IsRefused(PlanOf(c))
    PROVE  LET new(p) == PlanOf(c)[p].new
           IN  /\ new("manifest") \in Manifest /\ new("manifest").release = release
               /\ new("bridge") \in Bridge /\ new("bridge").block = release
               /\ new("hooks") \in Hooks /\ \A i \in HookIds : new("hooks").ours[i] = release
               /\ new("seed") \in Texts /\ new("state") \in State /\ new("status") \in Status
               /\ \A p \in Owned : new(p) = release
               /\ new("sidecar") = disk["sidecar"] /\ new("evidence") = disk["evidence"]
               /\ new("status").bound \/ (~disk["status"].bound /\ ~disk["status"].private)
               /\ disk["state"] \notin Bad => /\ new("state").turn = disk["state"].turn
                                              /\ new("state").lease = disk["state"].lease
<1> DEFINE repair == c = "repair"
           planned == SetupPlan(repair)
<1>1. /\ PlanOf(c) = planned
      /\ ~BridgePlan(repair).conflict /\ ~HooksPlan(repair).conflict
      /\ ~StatePlan(repair).conflict /\ ~StatusPlan(repair).conflict
      /\ ~ManifestPlan(repair).conflict
      /\ \A p \in Owned : ~OwnedPlan(p, repair).conflict
  BY SetupRefuses
<1>2. /\ planned["bridge"] = BridgePlan(repair) /\ planned["hooks"] = HooksPlan(repair)
      /\ planned["seed"] = IF disk["seed"] = None THEN Replace(Blank) ELSE Keep("seed")
      /\ planned["state"] = StatePlan(repair) /\ planned["status"] = StatusPlan(repair)
      /\ planned["sidecar"] = Keep("sidecar") /\ planned["evidence"] = Keep("evidence")
      /\ planned["manifest"] = ManifestPlan(repair)
      /\ \A p \in Owned : planned[p] = OwnedPlan(p, repair)
  BY SetupPlanIs
<1> HIDE DEF planned, repair
<1>3. planned["manifest"].new \in Manifest /\ planned["manifest"].new.release = release
  BY <1>1, <1>2, ManifestPlanIs, NewManifestIs
<1>4. planned["bridge"].new \in Bridge /\ planned["bridge"].new.block = release
  BY <1>1, <1>2, BridgeChange
<1>5. /\ planned["hooks"].new \in Hooks
      /\ \A i \in HookIds : planned["hooks"].new.ours[i] = release
  <2>1. HooksPlan(repair).new \in Hooks /\ HooksPlan(repair).new.ours = [i \in HookIds |-> release]
    BY <1>1, HooksChange
  <2> QED
    BY <1>2, <2>1
<1>6. planned["seed"].new \in Texts
  BY <1>2, DiskContent, InstallerAssumption DEF Replace, Keep
<1>7. planned["state"].new \in State
      /\ (disk["state"] \notin Bad => /\ planned["state"].new.turn = disk["state"].turn
                                      /\ planned["state"].new.lease = disk["state"].lease)
  BY <1>1, <1>2, StatePlanKeeps
<1>8. /\ planned["status"].new \in Status
      /\ planned["status"].new.bound \/ (~disk["status"].bound /\ ~disk["status"].private)
  BY <1>1, <1>2, StatusPlanKeeps
<1>9. \A p \in Owned : planned[p].new = release
  BY <1>1, <1>2, OwnedPlanKeeps
<1>10. planned["sidecar"].new = disk["sidecar"] /\ planned["evidence"].new = disk["evidence"]
  BY <1>2 DEF Keep
<1> QED
  BY <1>1, <1>3, <1>4, <1>5, <1>6, <1>7, <1>8, <1>9, <1>10

LEMMA PlanContent ==
    ASSUME TypeOK, NEW c, ~IsRefused(PlanOf(c)), NEW p \in Paths
    PROVE  PlanOf(c)[p].new \in ContentOf(p)
<1>1. CASE c # "uninstall"
  <2> DEFINE new(q) == PlanOf(c)[q].new
  <2>1. /\ new("manifest") \in Manifest /\ new("bridge") \in Bridge
        /\ new("hooks") \in Hooks
        /\ new("seed") \in Texts /\ new("state") \in State /\ new("status") \in Status
        /\ \A q \in Owned : new(q) = release
        /\ new("sidecar") = disk["sidecar"] /\ new("evidence") = disk["evidence"]
    BY <1>1, SetupPlanned
  <2> HIDE DEF new
  <2>2. new(p) \in ContentOf(p)
    BY <2>1, PathFacts, ContentFacts, DiskContent DEF Named
  <2> QED
    BY <2>2 DEF new
<1>2. CASE c = "uninstall"
  <2> DEFINE m == disk["manifest"]
             new(q) == UninstallPlan[q].new
  <2>1. PlanOf(c) = UninstallPlan
    BY <1>2 DEF PlanOf
  <2>2. \A q \in Paths : ~UninstallPlan[q].conflict
    BY <2>1, NoConflict
  <2>3. /\ m \in Manifest
        /\ UninstallPlan["bridge"] = BridgeRemoval(m) /\ UninstallPlan["hooks"] = HooksRemoval(m)
        /\ UninstallPlan["seed"] = Keep("seed")
        /\ \A q \in StatePaths \cup {"manifest"} : UninstallPlan[q].new = None
        /\ \A q \in Owned : UninstallPlan[q] = Replace(None)
    BY <2>1, UninstallPlanIs
  <2>4. {"bridge", "hooks"} \subseteq Paths
    BY PathFacts DEF Named
  <2>5. new("bridge") \in Bridge \cup {None}
    BY <2>2, <2>3, <2>4, BridgeRemovalKeeps
  <2>6. new("hooks") \in Hooks \cup {None}
    BY <2>2, <2>3, <2>4, HooksRemovalKeeps
  <2>7. new("seed") = disk["seed"] /\ \A q \in Owned : new(q) = None
    BY <2>3 DEF Keep, Replace
  <2>8. /\ new("state") = None /\ new("status") = None /\ new("sidecar") = None
        /\ new("evidence") = None /\ new("manifest") = None
    BY <2>3 DEF StatePaths
  <2> HIDE DEF new
  <2>9. new(p) \in ContentOf(p)
    BY <2>5, <2>6, <2>7, <2>8, PathFacts, ContentFacts, DiskContent DEF Named, Bad
  <2> QED
    BY <2>1, <2>9 DEF new
<1> QED
  BY <1>1, <1>2

(* Whatever a command plans keeps the user's content, and the framing.     *)
LEMMA PlanKeeps ==
    ASSUME TypeOK, NEW c, ~IsRefused(PlanOf(c)), NEW p \in UserPaths, NEW m, NEW copies,
           KeptIn(p, m, disk[p], copies)
    PROVE  LET planned == PlanOf(c)[p]
           IN  KeptIn(p, m, planned.new, copies \cup Saved(planned, p))
<1>1. CASE c # "uninstall"
  <2> DEFINE repair == c = "repair"
  <2>1. /\ PlanOf(c) = SetupPlan(repair)
        /\ ~BridgePlan(repair).conflict /\ ~HooksPlan(repair).conflict
        /\ \A q \in Owned : ~OwnedPlan(q, repair).conflict
    BY <1>1, SetupRefuses
  <2>2. /\ PlanOf(c)["bridge"] = BridgePlan(repair) /\ PlanOf(c)["hooks"] = HooksPlan(repair)
        /\ PlanOf(c)["seed"] = IF disk["seed"] = None THEN Replace(Blank) ELSE Keep("seed")
        /\ \A q \in Owned : PlanOf(c)[q] = OwnedPlan(q, repair)
    BY <2>1, SetupPlanIs
  <2> HIDE DEF repair
  <2>3. CASE p = "bridge"
    BY <2>1, <2>2, <2>3, BridgePlanKeeps, KeptInIs
  <2>4. CASE p = "hooks"
    BY <2>1, <2>2, <2>4, HooksPlanKeeps, KeptInIs
  <2>5. CASE p = "seed"
    <3>1. PlanOf(c)[p].new = disk[p] \/ disk[p] = None
      BY <2>2, <2>5 DEF Keep
    <3> QED
      BY <2>5, <3>1, KeptInIs
  <2>6. CASE p \in Owned
    <3>1. PlanOf(c)[p].new = release /\ disk[p] # Unsafe
          /\ (disk[p] = Edited => PlanOf(c)[p].save)
      BY <2>1, <2>2, <2>6, OwnedPlanKeeps
    <3> QED
      BY <2>6, <3>1, KeptInIs DEF Saved
  <2> QED
    BY <2>3, <2>4, <2>5, <2>6, PathFacts
<1>2. CASE c = "uninstall"
  <2> DEFINE manifest == disk["manifest"]
  <2>1. PlanOf(c) = UninstallPlan
    BY <1>2 DEF PlanOf
  <2>2. /\ manifest \in Manifest
        /\ UninstallPlan["bridge"] = BridgeRemoval(manifest) /\ UninstallPlan["hooks"] = HooksRemoval(manifest)
        /\ UninstallPlan["seed"] = Keep("seed")
        /\ \A q \in Owned : UninstallPlan[q] = Replace(None) /\ disk[q] = manifest.release
    BY <2>1, UninstallPlanIs
  <2>3. {"bridge", "hooks"} \subseteq Paths
    BY PathFacts DEF Named
  <2>4. ~BridgeRemoval(manifest).conflict /\ ~HooksRemoval(manifest).conflict
    BY <2>1, <2>2, <2>3, NoConflict
  <2>5. KeptIn(p, m, PlanOf(c)[p].new, copies)
    <3>1. CASE p = "bridge"
      BY <2>1, <2>2, <2>4, <3>1, BridgeRemoved, KeptInIs
    <3>2. CASE p = "hooks"
      BY <2>1, <2>2, <2>4, <3>2, HooksRemoved, KeptInIs
    <3>3. CASE p = "seed"
      BY <2>1, <2>2, <3>3, KeptInIs DEF Keep
    <3>4. CASE p \in Owned
      <4>1. manifest.release \in Releases
        BY <2>2 DEF Manifest
      <4> QED
        BY <2>2, <3>4, <4>1, KeptInIs, MarkAssumption
    <3> QED
      BY <3>1, <3>2, <3>3, <3>4, PathFacts
  <2> QED
    BY <2>5, KeptInMore
<1> QED
  BY <1>1, <1>2

LEMMA PlanFrames ==
    ASSUME TypeOK, NEW c, ~IsRefused(PlanOf(c)), Framed(disk["bridge"], disk["manifest"])
    PROVE  Framed(PlanOf(c)["bridge"].new, PlanOf(c)["manifest"].new)
<1>1. CASE c # "uninstall"
  <2> DEFINE repair == c = "repair"
  <2>1. PlanOf(c) = SetupPlan(repair) /\ ~BridgePlan(repair).conflict /\ ~ManifestPlan(repair).conflict
    BY <1>1, SetupRefuses
  <2>2. PlanOf(c)["bridge"] = BridgePlan(repair) /\ PlanOf(c)["manifest"] = ManifestPlan(repair)
    BY <2>1, SetupPlanIs
  <2> HIDE DEF repair
  <2> QED
    BY <2>1, <2>2, BridgePlanFrames, ManifestPlanIs
<1>2. CASE c = "uninstall"
  <2> DEFINE m == disk["manifest"]
  <2>1. PlanOf(c) = UninstallPlan
    BY <1>2 DEF PlanOf
  <2>2. /\ m \in Manifest /\ UninstallPlan["bridge"] = BridgeRemoval(m)
        /\ \A q \in StatePaths \cup {"manifest"} : UninstallPlan[q].new = None
    BY <2>1, UninstallPlanIs
  <2>3. "bridge" \in Paths
    BY PathFacts DEF Named
  <2>4. ~BridgeRemoval(m).conflict
    BY <2>1, <2>2, <2>3, NoConflict
  <2> QED
    BY <2>1, <2>2, <2>4, BridgeRemovalKeeps
<1> QED
  BY <1>1, <1>2

LEMMA UninstallPlanned ==
    ASSUME TypeOK, ~IsRefused(UninstallPlan)
    PROVE  LET new(p) == UninstallPlan[p].new
               b == disk["bridge"]
               m == disk["manifest"]
           IN  /\ \A p \in Owned \cup StatePaths \cup {"manifest"} : new(p) = None
               /\ new("seed") = disk["seed"] /\ \A p \in Paths : ~UninstallPlan[p].save
               /\ new("hooks") = HooksLeft(disk["hooks"], m)
               /\ new("bridge") = None => m.created /\ b.text = Blank
               /\ new("bridge") # None => /\ new("bridge") \in Bridge
                                          /\ new("bridge").block = None
                                          /\ new("bridge").text = b.text
               /\ Framed(b, m) => new("bridge") = BridgeLeft(b, m)
<1> DEFINE b == disk["bridge"]
           m == disk["manifest"]
           left == BridgeRemoval(m).new
<1>1. /\ m \in Manifest
      /\ UninstallPlan["bridge"] = BridgeRemoval(m) /\ UninstallPlan["hooks"] = HooksRemoval(m)
      /\ UninstallPlan["seed"] = Keep("seed")
      /\ \A p \in StatePaths \cup {"manifest"} : UninstallPlan[p].new = None
      /\ \A p \in Owned : UninstallPlan[p] = Replace(None)
      /\ \A p \in Paths : ~UninstallPlan[p].save
  BY UninstallPlanIs
<1>2. ~BridgeRemoval(m).conflict /\ ~HooksRemoval(m).conflict
  BY <1>1, PathFacts DEF IsRefused, Named
<1>3. /\ \/ left = None /\ m.created /\ b.text = Blank
         \/ left \in Bridge /\ left.block = None /\ left.text = b.text
      /\ Framed(b, m) => left = BridgeLeft(b, m)
  BY <1>1, <1>2, BridgeRemovalKeeps
<1>4. HooksRemoval(m).new = HooksLeft(disk["hooks"], m)
  BY <1>1, <1>2, HooksRemovalKeeps
<1>5. None \notin Bridge
  BY MarkAssumption
<1> HIDE DEF left
<1>6. /\ left = None => m.created /\ b.text = Blank
      /\ left # None => left \in Bridge /\ left.block = None /\ left.text = b.text
  BY <1>3, <1>5
<1>7. /\ \A p \in Owned \cup StatePaths \cup {"manifest"} : UninstallPlan[p].new = None
      /\ UninstallPlan["seed"].new = disk["seed"]
      /\ UninstallPlan["bridge"].new = left
      /\ UninstallPlan["hooks"].new = HooksLeft(disk["hooks"], m)
  BY <1>1, <1>4 DEF Replace, Keep, left
<1> QED
  BY <1>1, <1>3, <1>6, <1>7

-----------------------------------------------------------------------------
(* A command starts *)

LEMMA StartPlans ==
    ASSUME InstallerInv, NEW c \in Transacting, Start(c)
    PROVE  /\ ~IsRefused(PlanOf(c))
           /\ \A p \in Paths : After(p)' = PlanOf(c)[p].new
           /\ \A p \in Paths : Saved(PlanOf(c)[p], p) \subseteq disk["recovery"][p] \cup Copies(p)'
           /\ DOMAIN plan' \subseteq Paths /\ DOMAIN saves' \subseteq Paths
           /\ \A p \in DOMAIN plan' : plan'[p] = PlanOf(c)[p].new
           /\ \A p \in DOMAIN saves' : /\ saves'[p] \notin disk["recovery"][p]
                                       /\ PlanOf(c)[p].save
<1> DEFINE planned == PlanOf(c)
<1>1. /\ ~IsRefused(planned)
      /\ plan' = [p \in {q \in Paths : planned[q].new # disk[q]} |-> planned[p].new]
      /\ saves' = [p \in {q \in Paths : /\ planned[q].save
                                       /\ disk[q] \notin disk["recovery"][q]} |-> disk[p]]
      /\ found' = disk
  BY DEF Start
<1> HIDE DEF planned
<1>2. \A p \in Paths : After(p)' = planned[p].new
  BY <1>1 DEF After
<1>3. \A p \in Paths : Saved(planned[p], p) \subseteq disk["recovery"][p] \cup Copies(p)'
  <2> SUFFICES ASSUME NEW p \in Paths, planned[p].save, disk[p] \notin disk["recovery"][p]
               PROVE  disk[p] \in Copies(p)'
    BY DEF Saved
  <2>1. p \in DOMAIN saves' /\ saves'[p] = disk[p]
    BY <1>1
  <2> QED
    BY <2>1 DEF Copies
<1> QED
  BY <1>1, <1>2, <1>3 DEF planned

LEMMA StartShape ==
    ASSUME InstallerInv, NEW c \in Transacting, Start(c)
    PROVE  Shape'
<1>1. TypeOK /\ Shape
  BY DEF InstallerInv, Shape
<1>2. TypeOK'
  <2>1. DOMAIN plan' \subseteq Paths /\ DOMAIN saves' \subseteq Paths
    BY StartPlans
  <2>2. /\ UNCHANGED <<disk, canary, denied, snap, release, events, spoiled, lost, revoked>>
        /\ pc' = "planned" /\ cmd' = c /\ alone' = TRUE /\ last' = "none"
    BY DEF Start
  <2>3. commands' \in 0..MaxCommands
    BY <1>1, InstallerAssumption DEF Start, TypeOK
  <2> QED
    BY <1>1, <2>1, <2>2, <2>3 DEF TypeOK, Transacting, Commands
<1>3. \A p \in DOMAIN plan' : plan'[p] \in ContentOf(p)
  BY <1>1, StartPlans, PlanContent
<1>4. pc' = "planned" /\ cmd' = c /\ UNCHANGED <<disk, snap, todo, mine>>
  BY DEF Start
<1> QED
  BY <1>1, <1>2, <1>3, <1>4 DEF Shape, Transactions, Transacting

LEMMA StartKeeps ==
    ASSUME InstallerInv, NEW c \in Transacting, Start(c)
    PROVE  InstallerInv'
<1>1. TypeOK /\ Shape /\ UserContentKept
  BY DEF InstallerInv, Shape, Start, Transactions
<1>2. /\ pc = "idle" /\ pc' = "planned" /\ cmd' = c /\ found' = disk /\ alone' = TRUE
      /\ UNCHANGED <<disk, mine, spoiled, lost, todo, snap, release>>
  BY DEF Start
<1>3. Shape'
  BY StartShape
<1>4. FilesSound'
  <2>1. DiskSound(disk)
    BY <1>1 DEF Shape
  <2> QED
    BY <1>2, <2>1, StartPlans DEF FilesSound
<1>5. KeptByPlan'
  <2> SUFFICES ASSUME ~spoiled, NEW p \in UserPaths
               PROVE  /\ KeptIn(p, mine[p], disk[p], disk["recovery"][p])
                      /\ KeptIn(p, mine[p], After(p)', disk["recovery"][p] \cup Copies(p)')
    BY <1>2 DEF KeptByPlan
  <2>1. KeptIn(p, mine[p], disk[p], disk["recovery"][p])
    BY <1>1, AllKeptIs DEF UserContentKept, Recovery
  <2>2. p \in Paths
    BY PathFacts DEF Named
  <2>3. KeptIn(p, mine[p], PlanOf(c)[p].new, disk["recovery"][p] \cup Saved(PlanOf(c)[p], p))
    BY <1>1, <2>1, StartPlans, PlanKeeps
  <2>4. /\ After(p)' = PlanOf(c)[p].new
        /\ Saved(PlanOf(c)[p], p) \subseteq disk["recovery"][p] \cup Copies(p)'
    BY <2>2, StartPlans
  <2> QED
    BY <2>1, <2>3, <2>4, KeptInMore
<1>6. FramingSound'
  <2> SUFFICES ASSUME ~lost, ~spoiled
               PROVE  /\ Framed(disk["bridge"], disk["manifest"])
                      /\ Framed(After("bridge")', After("manifest")')
    <3>1. "bridge" \notin DOMAIN plan' => After("bridge")' = disk["bridge"]
      BY <1>2 DEF After
    <3> QED
      BY <1>2, <3>1 DEF FramingSound
  <2>1. Framed(disk["bridge"], disk["manifest"])
    BY <1>2 DEF InstallerInv, Transactions
  <2> QED
    BY <1>1, <2>1, StartPlans, PlanFrames, PathFacts DEF Named
<1>7. c # "uninstall" => AfterSetup'
  <2> SUFFICES ASSUME c # "uninstall" PROVE AfterSetup'
    OBVIOUS
  <2>1. \A p \in Paths : After(p)' = PlanOf(c)[p].new
    BY StartPlans
  <2> DEFINE new(p) == PlanOf(c)[p].new
  <2>2. /\ new("manifest") \in Manifest /\ new("manifest").release = release
        /\ new("bridge") \in Bridge /\ new("bridge").block = release
        /\ new("hooks") \in Hooks /\ \A i \in HookIds : new("hooks").ours[i] = release
        /\ new("seed") \in Texts /\ new("state") \in State /\ new("status") \in Status
        /\ \A p \in Owned : new(p) = release
        /\ new("sidecar") = disk["sidecar"] /\ new("evidence") = disk["evidence"]
        /\ new("status").bound \/ (~disk["status"].bound /\ ~disk["status"].private)
        /\ disk["state"] \notin Bad => /\ new("state").turn = disk["state"].turn
                                       /\ new("state").lease = disk["state"].lease
    BY <1>1, StartPlans, SetupPlanned
  <2>3. /\ After("manifest")' = new("manifest") /\ After("bridge")' = new("bridge")
        /\ After("hooks")' = new("hooks") /\ After("seed")' = new("seed")
        /\ After("state")' = new("state") /\ After("status")' = new("status")
        /\ After("sidecar")' = new("sidecar") /\ After("evidence")' = new("evidence")
        /\ \A p \in Owned : After(p)' = new(p)
    BY <2>1, PathFacts DEF Named
  <2>4. new("seed") # None
    BY <2>2, MarkAssumption
  <2> HIDE DEF new
  <2> QED
    BY <1>2, <2>2, <2>3, <2>4 DEF AfterSetup
<1>8. c = "uninstall" => AfterUninstall'
  <2> SUFFICES ASSUME c = "uninstall" PROVE AfterUninstall'
    OBVIOUS
  <2>1. PlanOf(c) = UninstallPlan
    BY DEF PlanOf
  <2>2. \A p \in Paths : After(p)' = UninstallPlan[p].new
    BY <2>1, StartPlans
  <2>3. {"bridge", "hooks", "seed"} \cup Owned \cup StatePaths \cup {"manifest"} \subseteq Paths
    BY PathFacts DEF Named, Paths
  <2>4. DOMAIN saves' = {}
    BY <1>1, <2>1, StartPlans, UninstallPlanned
  <2> DEFINE new(p) == UninstallPlan[p].new
             b == disk["bridge"]
             m == disk["manifest"]
  <2>5. /\ \A p \in Owned \cup StatePaths \cup {"manifest"} : new(p) = None
        /\ new("seed") = disk["seed"]
        /\ new("hooks") = HooksLeft(disk["hooks"], m)
        /\ new("bridge") = None => m.created /\ b.text = Blank
        /\ new("bridge") # None => /\ new("bridge") \in Bridge
                                   /\ new("bridge").block = None
                                   /\ new("bridge").text = b.text
        /\ Framed(b, m) => new("bridge") = BridgeLeft(b, m)
    BY <1>1, <2>1, StartPlans, UninstallPlanned
  <2>6. /\ \A p \in Owned \cup StatePaths \cup {"manifest"} : After(p)' = new(p)
        /\ After("seed")' = new("seed") /\ After("hooks")' = new("hooks")
        /\ After("bridge")' = new("bridge")
    BY <2>2, <2>3
  <2> HIDE DEF new
  <2> QED
    BY <1>2, <2>4, <2>5, <2>6 DEF AfterUninstall
<1> QED
  BY <1>2, <1>3, <1>4, <1>5, <1>6, <1>7, <1>8
     DEF InstallerInv, Transactions, Verifications, Reading

-----------------------------------------------------------------------------
(* What the steps of a transaction have in common *)

LEMMA DiskUpdate ==
    ASSUME NEW d, DiskSound(d), NEW p \in Paths, NEW content \in ContentOf(p)
    PROVE  DiskSound([d EXCEPT ![p] = content])
<1>1. p # "recovery"
  BY PathFacts
<1> QED
  BY <1>1 DEF DiskSound

LEMMA CopyUpdate ==
    ASSUME NEW d, DiskSound(d), NEW p \in Paths, NEW copies
    PROVE  DiskSound([d EXCEPT !["recovery"][p] = copies])
<1>1. "recovery" \notin Paths
  BY PathFacts
<1> QED
  BY <1>1 DEF DiskSound

LEMMA KeptNothing ==
    \A p \in UserPaths : \A content, copies : KeptIn(p, None, content, copies)
  BY MarkAssumption DEF KeptIn, BridgeKeptIn, HooksKeptIn

LEMMA KeptItself ==
    \A p \in UserPaths : \A content, copies : KeptIn(p, content, content, copies)
  BY DEF KeptIn, BridgeKeptIn, HooksKeptIn, Bad

(* While a transaction runs, the user's content is in the file or in a     *)
(* copy.                                                                   *)
LEMMA KeptNow ==
    ASSUME FilesSound, KeptByPlan, pc \in Transactions
    PROVE  UserContentKept
<1> SUFFICES ASSUME ~spoiled, NEW p \in UserPaths, mine[p] # None
             PROVE  KeptIn(p, mine[p], disk[p], Recovery(p))
  BY AllKeptIs, KeptNothing DEF UserContentKept
<1>1. Untouched(p) /\ p \in Paths
  BY PathFacts DEF Untouched, Named
<1>2. /\ KeptIn(p, mine[p], found[p], found["recovery"][p])
      /\ KeptIn(p, mine[p], After(p), found["recovery"][p] \cup Copies(p))
  BY DEF KeptByPlan
<1>3. \/ disk[p] = found[p] /\ found["recovery"][p] \subseteq Recovery(p)
      \/ disk[p] = After(p) /\ found["recovery"][p] \cup Copies(p) = Recovery(p)
  <2>1. CASE pc = "planned"
    BY <1>1, <2>1 DEF FilesSound, Recovery
  <2>2. CASE pc = "apply"
    <3>1. /\ Recovery(p) = found["recovery"][p]
                           \cup (IF Saving(p) \in todo THEN {} ELSE Copies(p))
          /\ Saving(p) \in todo /\ p \in DOMAIN plan => Replacing(p) \in todo
          /\ disk[p] = IF p \in DOMAIN plan /\ Replacing(p) \notin todo
                       THEN plan[p] ELSE found[p]
      BY <1>1, <2>2 DEF FilesSound
    <3> QED
      BY <3>1 DEF After
  <2>3. CASE pc = "rollback"
    <3>1. /\ Recovery(p) \in {found["recovery"][p], found["recovery"][p] \cup Copies(p)}
          /\ \/ disk[p] = found[p]
             \/ /\ p \in DOMAIN plan /\ disk[p] = plan[p]
                /\ Recovery(p) = found["recovery"][p] \cup Copies(p)
      BY <1>1, <2>3 DEF FilesSound
    <3> QED
      BY <3>1 DEF After
  <2> QED
    BY <2>1, <2>2, <2>3 DEF Transactions
<1> QED
  BY <1>2, <1>3, KeptInMore

(* What does not depend on how far the transaction is.                     *)
LEMMA PlanStays ==
    ASSUME UNCHANGED <<plan, saves, found, release>>
    PROVE  /\ AfterSetup' <=> AfterSetup
           /\ AfterUninstall' <=> AfterUninstall
           /\ \A p : After(p)' = After(p) /\ Copies(p)' = Copies(p)
  BY DEF AfterSetup, AfterUninstall, After, Copies

LEMMA KeptByPlanStays ==
    ASSUME UNCHANGED <<plan, saves, found, release, mine>>, spoiled => spoiled', KeptByPlan
    PROVE  KeptByPlan'
<1>1. \A p : After(p)' = After(p) /\ Copies(p)' = Copies(p)
  BY PlanStays
<1> QED
  BY <1>1 DEF KeptByPlan

LEMMA InTransaction ==
    ASSUME InstallerInv, pc \in Transactions
    PROVE  /\ Shape /\ TypeOK /\ FilesSound /\ KeptByPlan /\ FramingSound
           /\ IF cmd = "uninstall" THEN AfterUninstall ELSE AfterSetup
           /\ UserContentKept
  BY KeptNow DEF InstallerInv, Shape

LEMMA StillInTransaction ==
    ASSUME InstallerInv, pc \in Transactions, pc' \in Transactions,
           UNCHANGED <<cmd, plan, saves, found, release>>,
           Shape', FilesSound', KeptByPlan', FramingSound'
    PROVE  InstallerInv'
  BY InTransaction, PlanStays DEF InstallerInv, Transactions, Verifications, Reading

-----------------------------------------------------------------------------
(* The steps of a transaction *)

LEMMA BeginKeeps ==
    ASSUME InstallerInv, Begin
    PROVE  InstallerInv'
<1>1. /\ pc = "planned" /\ pc' = "apply" /\ pc \in Transactions /\ pc' \in Transactions
      /\ snap' = [p \in DOMAIN plan |-> disk[p]]
      /\ todo' = AllMutations
      /\ UNCHANGED <<disk, canary, cmd, plan, saves, seen, denied, release, commands, events,
                     mine, found, alone, spoiled, lost, last, revoked>>
  BY DEF Begin, bounds, history, Transactions
<1>2. /\ Shape /\ TypeOK /\ FilesSound /\ KeptByPlan /\ FramingSound
  BY <1>1, InTransaction
<1>3. AllMutations' = AllMutations
  BY <1>1 DEF AllMutations
<1>4. Shape'
  <2>1. DOMAIN plan \subseteq Paths
    BY <1>2 DEF TypeOK
  <2>2. \A p \in DOMAIN snap' : snap'[p] \in ContentOf(p)
    BY <1>1, <1>2, <2>1 DEF Shape, DiskSound
  <2>3. TypeOK'
    BY <1>1, <1>2, <2>1 DEF TypeOK
  <2> QED
    BY <1>1, <1>2, <1>3, <2>2, <2>3 DEF Shape, Transactions
<1>5. FilesSound'
  <2>1. \A p \in DOMAIN plan : Untouched(p) => snap'[p] = found[p]
    BY <1>1, <1>2 DEF FilesSound, TypeOK
  <2>2. \A p : Untouched(p)' <=> Untouched(p)
    BY <1>1 DEF Untouched
  <2>3. \A p \in Paths :
          /\ Recovery(p)' = found["recovery"][p]
                            \cup (IF Saving(p) \in todo' THEN {} ELSE Copies(p)')
          /\ Saving(p) \in todo' /\ p \in DOMAIN plan => Replacing(p) \in todo'
          /\ Untouched(p) => disk[p] = IF p \in DOMAIN plan /\ Replacing(p) \notin todo'
                                       THEN plan[p] ELSE found[p]
    BY <1>1, <1>2, MutationFacts DEF FilesSound, Recovery, Copies
  <2> QED
    BY <1>1, <1>2, <2>1, <2>2, <2>3 DEF FilesSound
<1>6. KeptByPlan'
  BY <1>1, <1>2, KeptByPlanStays
<1>7. FramingSound'
  <2>1. \A p : After(p)' = After(p)
    BY <1>1, PlanStays
  <2>2. "bridge" \in DOMAIN plan => snap'["bridge"] = disk["bridge"] /\ Replacing("bridge") \in todo'
    BY <1>1, MutationFacts
  <2> QED
    BY <1>1, <1>2, <2>1, <2>2 DEF FramingSound
<1> QED
  BY <1>1, <1>4, <1>5, <1>6, <1>7, StillInTransaction

(* A mutation is of a path of the plan, or saves one of the drifted ones.  *)
LEMMA MutationIs ==
    ASSUME TypeOK, todo \subseteq AllMutations, NEW m \in todo
    PROVE  /\ m.path \in Paths /\ m.path # "recovery"
           /\ \/ m.path \in DOMAIN plan /\ m = Replacing(m.path) /\ ~m.save
              \/ m.path \in DOMAIN saves /\ m = Saving(m.path) /\ m.save
<1>1. \/ m.path \in DOMAIN plan /\ m = Replacing(m.path)
      \/ m.path \in DOMAIN saves /\ m = Saving(m.path)
  BY MutationFacts
<1>2. ~Replacing(m.path).save /\ Saving(m.path).save
  BY MutationFields
<1> QED
  BY <1>1, <1>2, PathFacts DEF TypeOK

LEMMA MutateShape ==
    ASSUME InstallerInv, NEW m, Mutate(m) \/ RollBack(m)
    PROVE  /\ Shape' /\ todo' = todo \ {m} /\ pc' = pc /\ pc \in {"apply", "rollback"}
           /\ m \in todo /\ todo \subseteq AllMutations
           /\ UNCHANGED <<canary, cmd, plan, saves, snap, seen, denied, release, commands,
                          events, mine, found, alone, spoiled, lost, last, revoked>>
           /\ \A p \in Paths : p # m.path => disk'[p] = disk[p]
           /\ \A p \in Paths : Saving(p) # m => Recovery(p)' = Recovery(p)
<1>1. /\ pc \in {"apply", "rollback"} /\ m \in todo /\ todo' = todo \ {m}
      /\ UNCHANGED <<canary, pc, cmd, plan, saves, snap, seen, denied, release, commands,
                     events, mine, found, alone, spoiled, lost, last, revoked>>
  BY DEF Mutate, RollBack, IsLast, bounds, history
<1>2. Shape /\ TypeOK
  BY DEF InstallerInv, Shape
<1>3. todo \subseteq AllMutations /\ DOMAIN snap = DOMAIN plan
  BY <1>1, <1>2 DEF Shape
<1>4. m.path \in Paths /\ m.path # "recovery"
  BY <1>1, <1>2, <1>3, MutationIs
<1>5. DiskSound(disk)
  BY <1>2 DEF Shape
<1>6. /\ DiskSound(disk')
      /\ \A p \in Paths : p # m.path => disk'[p] = disk[p]
      /\ \A p \in Paths : Saving(p) # m => Recovery(p)' = Recovery(p)
  <2>1. CASE ~m.save
    <3>1. m = Replacing(m.path) /\ m.path \in DOMAIN plan
      BY <1>1, <1>2, <1>3, <2>1, MutationIs
    <3>2. PICK content \in ContentOf(m.path) : disk' = [disk EXCEPT ![m.path] = content]
      BY <1>2, <1>3, <2>1, <3>1 DEF Mutate, RollBack, Shape
    <3>3. DiskSound(disk')
      BY <1>4, <1>5, <3>2, DiskUpdate
    <3>4. \A p \in Paths : (p # m.path => disk'[p] = disk[p]) /\ Recovery(p)' = Recovery(p)
      BY <1>4, <1>5, <3>2 DEF DiskSound, Recovery
    <3> QED
      BY <3>3, <3>4
  <2>2. CASE m.save
    <3>1. m = Saving(m.path)
      BY <1>1, <1>2, <1>3, <2>2, MutationIs
    <3>2. PICK copies : disk' = [disk EXCEPT !["recovery"][m.path] = copies]
      <4>1. CASE Mutate(m)
        <5>1. disk' = [disk EXCEPT !["recovery"][m.path] = @ \cup {saves[m.path]}]
          BY <2>2, <4>1 DEF Mutate
        <5> QED
          BY <1>4, <1>5, <5>1 DEF DiskSound
      <4>2. CASE RollBack(m)
        <5>1. disk' = [disk EXCEPT !["recovery"][m.path] = @ \ {saves[m.path]}]
          BY <2>2, <4>2 DEF RollBack
        <5> QED
          BY <1>4, <1>5, <5>1 DEF DiskSound
      <4> QED
        BY <4>1, <4>2
    <3>3. DiskSound(disk')
      BY <1>4, <1>5, <3>2, CopyUpdate
    <3>4. \A p \in Paths : disk'[p] = disk[p] /\ (Saving(p) # m => Recovery(p)' = Recovery(p))
      BY <1>4, <1>5, <3>1, <3>2, PathFacts DEF DiskSound, Recovery
    <3> QED
      BY <3>3, <3>4
  <2> QED
    BY <2>1, <2>2
<1>7. TypeOK'
  <2>1. /\ \A p \in Paths : disk'[p] \in ContentOf(p)
        /\ DOMAIN disk' = Paths \cup {"recovery"} /\ DOMAIN disk'["recovery"] = Paths
    BY <1>6 DEF DiskSound
  <2>2. DOMAIN disk = Paths \cup {"recovery"}
    BY <1>2 DEF TypeOK
  <2> QED
    BY <1>1, <1>2, <2>1, <2>2 DEF TypeOK
<1>8. AllMutations' = AllMutations
  BY <1>1 DEF AllMutations
<1> QED
  BY <1>1, <1>2, <1>3, <1>6, <1>7, <1>8 DEF Shape

LEMMA MutateKeeps ==
    ASSUME InstallerInv, NEW m, Mutate(m)
    PROVE  InstallerInv'
<1>1. /\ Shape' /\ todo' = todo \ {m} /\ pc' = pc
      /\ m \in todo /\ todo \subseteq AllMutations
      /\ UNCHANGED <<cmd, plan, saves, snap, release, mine, found, alone, spoiled, lost>>
      /\ \A p \in Paths : p # m.path => disk'[p] = disk[p]
      /\ \A p \in Paths : Saving(p) # m => Recovery(p)' = Recovery(p)
  BY MutateShape
<1>2. pc = "apply" /\ (\A n \in todo : Place(m) <= Place(n)) /\ pc \in Transactions
  BY DEF Mutate, Transactions
<1>3. /\ Shape /\ TypeOK /\ FilesSound /\ KeptByPlan /\ FramingSound
  BY <1>2, InTransaction
<1>4. /\ m.path \in Paths /\ m.path # "recovery"
      /\ \/ m.path \in DOMAIN plan /\ m = Replacing(m.path) /\ ~m.save
         \/ m.path \in DOMAIN saves /\ m = Saving(m.path) /\ m.save
  BY <1>1, <1>3, MutationIs
<1>5. DiskSound(disk)
  BY <1>3 DEF Shape
<1>6. \A p : (Untouched(p)' <=> Untouched(p)) /\ After(p)' = After(p) /\ Copies(p)' = Copies(p)
  BY <1>1, PlanStays DEF Untouched
<1>7. ASSUME NEW p \in Paths
      PROVE  /\ Recovery(p) = found["recovery"][p]
                              \cup (IF Saving(p) \in todo THEN {} ELSE Copies(p))
             /\ Saving(p) \in todo /\ p \in DOMAIN plan => Replacing(p) \in todo
             /\ Untouched(p) => disk[p] = IF p \in DOMAIN plan /\ Replacing(p) \notin todo
                                          THEN plan[p] ELSE found[p]
  BY <1>2, <1>3 DEF FilesSound
<1>8. ASSUME NEW p \in Paths
      PROVE  /\ Recovery(p)' = found["recovery"][p]
                               \cup (IF Saving(p) \in todo' THEN {} ELSE Copies(p))
             /\ Saving(p) \in todo' /\ p \in DOMAIN plan => Replacing(p) \in todo'
             /\ Untouched(p) => disk'[p] = IF p \in DOMAIN plan /\ Replacing(p) \notin todo'
                                           THEN plan[p] ELSE found[p]
  <2>1. CASE p # m.path
    <3>1. Saving(p) # m /\ Replacing(p) # m
      BY <2>1, MutationFields
    <3> QED
      BY <1>1, <1>7, <2>1, <3>1
  <2>2. CASE m = Replacing(p)
    <3>1. Saving(p) # m /\ ~m.save /\ m.path = p
      BY <2>2, MutationFields
    <3>2. Saving(p) \notin todo
      BY <1>2, <2>2, SaveComesFirst
    <3>3. p \in DOMAIN plan /\ disk'[p] = plan[p]
      <4>1. disk' = [disk EXCEPT ![p] = plan[p]]
        BY <3>1 DEF Mutate
      <4> QED
        BY <1>4, <1>5, <3>1, <4>1 DEF DiskSound
    <3> QED
      BY <1>1, <1>7, <2>2, <3>1, <3>2, <3>3
  <2>3. CASE m = Saving(p)
    <3>1. Replacing(p) # m /\ m.save /\ m.path = p /\ p \in DOMAIN saves
      BY <1>4, <2>3, MutationFields
    <3>2. disk' = [disk EXCEPT !["recovery"][p] = @ \cup {saves[p]}]
      BY <3>1 DEF Mutate
    <3>3. disk'[p] = disk[p] /\ Recovery(p)' = Recovery(p) \cup {saves[p]}
      BY <1>4, <1>5, <3>1, <3>2, PathFacts DEF DiskSound, Recovery
    <3>4. Copies(p) = {saves[p]}
      BY <3>1 DEF Copies
    <3> QED
      BY <1>1, <1>7, <2>3, <3>1, <3>3, <3>4
  <2> QED
    BY <1>4, <2>1, <2>2, <2>3
<1>9. FilesSound'
  BY <1>1, <1>2, <1>3, <1>6, <1>8 DEF FilesSound
<1>10. KeptByPlan'
  BY <1>1, <1>3, KeptByPlanStays
<1>11. FramingSound'
  <2>1. CASE m = Replacing("bridge")
    <3>1. m.path = "bridge" /\ ~m.save
      BY <2>1, MutationFields
    <3>2. /\ "bridge" \in DOMAIN plan /\ disk'["bridge"] = After("bridge")
          /\ Replacing("bridge") \notin todo'
      <4>1. disk' = [disk EXCEPT !["bridge"] = plan["bridge"]] /\ "bridge" \in DOMAIN plan
        BY <1>4, <2>1, <3>1, MutationFields DEF Mutate
      <4> QED
        BY <1>1, <1>4, <1>5, <2>1, <3>1, <4>1 DEF DiskSound, After
    <3> QED
      BY <1>1, <1>2, <1>3, <1>6, <3>2 DEF FramingSound
  <2>2. CASE m # Replacing("bridge")
    <3>1. disk'["bridge"] = disk["bridge"]
      <4>1. CASE m = Saving("bridge")
        <5>1. disk' = [disk EXCEPT !["recovery"][m.path] = @ \cup {saves[m.path]}]
          BY <4>1, MutationFields DEF Mutate
        <5> QED
          BY <1>5, <5>1, PathFacts DEF DiskSound, Named
      <4>2. CASE m # Saving("bridge")
        BY <1>1, <1>4, <2>2, <4>2, PathFacts DEF Named
      <4> QED
        BY <4>1, <4>2
    <3>2. Replacing("bridge") \in todo' <=> Replacing("bridge") \in todo
      BY <1>1, <2>2
    <3> QED
      BY <1>1, <1>2, <1>3, <1>6, <3>1, <3>2 DEF FramingSound
  <2> QED
    BY <2>1, <2>2
<1> QED
  BY <1>1, <1>2, <1>9, <1>10, <1>11, StillInTransaction

LEMMA WriteFailsKeeps ==
    ASSUME InstallerInv, WriteFails
    PROVE  InstallerInv'
<1>1. /\ pc = "apply" /\ pc' = "rollback" /\ pc \in Transactions /\ pc' \in Transactions
      /\ todo' = AllMutations
      /\ UNCHANGED <<disk, canary, cmd, plan, saves, snap, seen, denied, release, commands,
                     mine, found, alone, spoiled, lost, last, revoked>>
  BY DEF WriteFails, history, Transactions
<1>2. /\ Shape /\ TypeOK /\ FilesSound /\ KeptByPlan /\ FramingSound
  BY <1>1, InTransaction
<1>3. AllMutations' = AllMutations
  BY <1>1 DEF AllMutations
<1>4. Shape'
  <2>1. events' \in 0..MaxEvents
    BY <1>2, InstallerAssumption DEF WriteFails, TypeOK
  <2>2. TypeOK'
    BY <1>1, <1>2, <2>1 DEF TypeOK
  <2> QED
    BY <1>1, <1>2, <1>3, <2>2 DEF Shape, Transactions
<1>5. \A p : (Untouched(p)' <=> Untouched(p)) /\ After(p)' = After(p) /\ Copies(p)' = Copies(p)
  BY <1>1, PlanStays DEF Untouched
<1>6. FilesSound'
  <2>1. ASSUME NEW p \in Paths
        PROVE  /\ Recovery(p)' \in {found["recovery"][p], found["recovery"][p] \cup Copies(p)}
               /\ Saving(p) \notin todo' =>
                     /\ Recovery(p)' = found["recovery"][p]
                     /\ p \in DOMAIN saves => Replacing(p) \notin todo'
               /\ Untouched(p) =>
                     \/ disk'[p] = found[p]
                     \/ /\ p \in DOMAIN plan /\ Replacing(p) \in todo' /\ disk'[p] = plan[p]
                        /\ Recovery(p)' = found["recovery"][p] \cup Copies(p)
    <3>1. /\ Recovery(p) = found["recovery"][p]
                           \cup (IF Saving(p) \in todo THEN {} ELSE Copies(p))
          /\ Saving(p) \in todo /\ p \in DOMAIN plan => Replacing(p) \in todo
          /\ Untouched(p) => disk[p] = IF p \in DOMAIN plan /\ Replacing(p) \notin todo
                                       THEN plan[p] ELSE found[p]
      BY <1>1, <1>2 DEF FilesSound
    <3>2. Recovery(p)' = Recovery(p)
      BY <1>1 DEF Recovery
    <3>3. p \notin DOMAIN saves => Copies(p) = {}
      BY DEF Copies
    <3>4. /\ Saving(p) \in todo' <=> p \in DOMAIN saves
          /\ Replacing(p) \in todo' <=> p \in DOMAIN plan
      BY <1>1, MutationFacts
    <3> QED
      BY <1>1, <3>1, <3>2, <3>3, <3>4
  <2> QED
    BY <1>1, <1>2, <1>5, <2>1 DEF FilesSound
<1>7. KeptByPlan'
  BY <1>1, <1>2, KeptByPlanStays
<1>8. FramingSound'
  <2>1. "bridge" \in DOMAIN plan => Replacing("bridge") \in todo'
    BY <1>1, MutationFacts
  <2> QED
    BY <1>1, <1>2, <1>5, <2>1 DEF FramingSound
<1> QED
  BY <1>1, <1>4, <1>6, <1>7, <1>8, StillInTransaction

(* A copy is taken away only after its original is back.                   *)
LEMMA RollBackKeeps ==
    ASSUME InstallerInv, NEW m, RollBack(m)
    PROVE  InstallerInv'
<1>1. /\ Shape' /\ todo' = todo \ {m} /\ pc' = pc
      /\ m \in todo /\ todo \subseteq AllMutations
      /\ UNCHANGED <<cmd, plan, saves, snap, release, mine, found, alone, spoiled, lost>>
      /\ \A p \in Paths : p # m.path => disk'[p] = disk[p]
      /\ \A p \in Paths : Saving(p) # m => Recovery(p)' = Recovery(p)
  BY MutateShape
<1>2. pc = "rollback" /\ (\A n \in todo : Place(m) >= Place(n)) /\ pc \in Transactions
  BY DEF RollBack, IsLast, Transactions
<1>3. /\ Shape /\ TypeOK /\ FilesSound /\ KeptByPlan /\ FramingSound
  BY <1>2, InTransaction
<1>4. /\ m.path \in Paths /\ m.path # "recovery"
      /\ \/ m.path \in DOMAIN plan /\ m = Replacing(m.path) /\ ~m.save
         \/ m.path \in DOMAIN saves /\ m = Saving(m.path) /\ m.save
  BY <1>1, <1>3, MutationIs
<1>5. DiskSound(disk)
  BY <1>3 DEF Shape
<1>6. \A p : (Untouched(p)' <=> Untouched(p)) /\ After(p)' = After(p) /\ Copies(p)' = Copies(p)
  BY <1>1, PlanStays DEF Untouched
<1>7. ASSUME ~spoiled, NEW p \in Paths
      PROVE  /\ Recovery(p) \in {found["recovery"][p], found["recovery"][p] \cup Copies(p)}
             /\ Saving(p) \notin todo =>
                   /\ Recovery(p) = found["recovery"][p]
                   /\ p \in DOMAIN saves => Replacing(p) \notin todo
             /\ Untouched(p) =>
                   \/ disk[p] = found[p]
                   \/ /\ p \in DOMAIN plan /\ Replacing(p) \in todo /\ disk[p] = plan[p]
                      /\ Recovery(p) = found["recovery"][p] \cup Copies(p)
  BY <1>2, <1>3, <1>7 DEF FilesSound
<1>8. ASSUME ~spoiled, NEW p \in Paths
      PROVE  /\ Recovery(p)' \in {found["recovery"][p], found["recovery"][p] \cup Copies(p)}
             /\ Saving(p) \notin todo' =>
                   /\ Recovery(p)' = found["recovery"][p]
                   /\ p \in DOMAIN saves => Replacing(p) \notin todo'
             /\ Untouched(p) =>
                   \/ disk'[p] = found[p]
                   \/ /\ p \in DOMAIN plan /\ Replacing(p) \in todo' /\ disk'[p] = plan[p]
                      /\ Recovery(p)' = found["recovery"][p] \cup Copies(p)
  <2>1. CASE p # m.path
    <3>1. Saving(p) # m /\ Replacing(p) # m
      BY <2>1, MutationFields
    <3> QED
      BY <1>1, <1>7, <1>8, <2>1, <3>1
  <2>2. CASE m = Replacing(p)
    <3>1. Saving(p) # m /\ ~m.save /\ m.path = p /\ p \in DOMAIN plan
      BY <1>4, <2>2, MutationFields
    <3>2. disk'[p] = snap[p]
      <4>1. disk' = [disk EXCEPT ![p] = snap[p]]
        BY <3>1 DEF RollBack
      <4> QED
        BY <1>4, <1>5, <3>1, <4>1 DEF DiskSound
    <3>3. Untouched(p) => disk'[p] = found[p]
      BY <1>2, <1>3, <3>1, <3>2 DEF FilesSound
    <3> QED
      BY <1>1, <1>7, <1>8, <2>2, <3>1, <3>3
  <2>3. CASE m = Saving(p)
    <3>1. Replacing(p) # m /\ m.save /\ m.path = p /\ p \in DOMAIN saves
      BY <1>4, <2>3, MutationFields
    <3>2. Replacing(p) \notin todo
      BY <1>2, <2>3, SaveComesFirst
    <3>3. disk' = [disk EXCEPT !["recovery"][p] = @ \ {saves[p]}]
      BY <3>1 DEF RollBack
    <3>4. disk'[p] = disk[p] /\ Recovery(p)' = Recovery(p) \ {saves[p]}
      BY <1>4, <1>5, <3>1, <3>3, PathFacts DEF DiskSound, Recovery
    <3>5. Copies(p) = {saves[p]} /\ saves[p] \notin found["recovery"][p]
      BY <1>3, <3>1 DEF Copies, FilesSound
    <3>6. Recovery(p)' = found["recovery"][p]
      BY <1>7, <1>8, <3>4, <3>5
    <3> QED
      BY <1>1, <1>7, <1>8, <3>1, <3>2, <3>4, <3>6
  <2> QED
    BY <1>4, <2>1, <2>2, <2>3
<1>9. FilesSound'
  BY <1>1, <1>2, <1>3, <1>6, <1>8 DEF FilesSound
<1>10. KeptByPlan'
  BY <1>1, <1>3, KeptByPlanStays
<1>11. FramingSound'
  <2>1. CASE m = Replacing("bridge")
    <3>1. m.path = "bridge" /\ ~m.save
      BY <2>1, MutationFields
    <3>2. /\ "bridge" \in DOMAIN plan /\ disk'["bridge"] = snap["bridge"]
          /\ Replacing("bridge") \notin todo'
      <4>1. disk' = [disk EXCEPT !["bridge"] = snap["bridge"]] /\ "bridge" \in DOMAIN plan
        BY <1>4, <2>1, <3>1, MutationFields DEF RollBack
      <4> QED
        BY <1>1, <1>4, <1>5, <2>1, <3>1, <4>1 DEF DiskSound
    <3> QED
      BY <1>1, <1>2, <1>3, <1>6, <3>2 DEF FramingSound
  <2>2. CASE m # Replacing("bridge")
    <3>1. disk'["bridge"] = disk["bridge"]
      <4>1. CASE m = Saving("bridge")
        <5>1. disk' = [disk EXCEPT !["recovery"][m.path] = @ \ {saves[m.path]}]
          BY <4>1, MutationFields DEF RollBack
        <5> QED
          BY <1>5, <5>1, PathFacts DEF DiskSound, Named
      <4>2. CASE m # Saving("bridge")
        BY <1>1, <1>4, <2>2, <4>2, PathFacts DEF Named
      <4> QED
        BY <4>1, <4>2
    <3>2. Replacing("bridge") \in todo' <=> Replacing("bridge") \in todo
      BY <1>1, <2>2
    <3> QED
      BY <1>1, <1>2, <1>3, <1>6, <3>1, <3>2 DEF FramingSound
  <2> QED
    BY <2>1, <2>2
<1> QED
  BY <1>1, <1>2, <1>9, <1>10, <1>11, StillInTransaction

LEMMA RollBackFailsKeeps ==
    ASSUME InstallerInv, NEW m, RollBackFails(m)
    PROVE  InstallerInv'
<1>1. /\ pc = "rollback" /\ pc \in Transactions /\ spoiled' = TRUE /\ todo' \subseteq todo
      /\ UNCHANGED <<disk, canary, pc, cmd, plan, saves, snap, seen, denied, release, commands,
                     mine, found, alone, lost, last, revoked>>
  BY DEF RollBackFails, Transactions
<1>2. /\ Shape /\ TypeOK /\ FilesSound /\ KeptByPlan
  BY <1>1, InTransaction
<1>3. AllMutations' = AllMutations
  BY <1>1 DEF AllMutations
<1>4. Shape'
  <2>1. events' \in 0..MaxEvents
    BY <1>2, InstallerAssumption DEF RollBackFails, TypeOK
  <2>2. TypeOK'
    BY <1>1, <1>2, <2>1 DEF TypeOK
  <2> QED
    BY <1>1, <1>2, <1>3, <2>2 DEF Shape
<1>5. \A p : Untouched(p)' <=> Untouched(p)
  BY <1>1 DEF Untouched
<1>6. FilesSound' /\ FramingSound'
  BY <1>1, <1>2, <1>5 DEF FilesSound, FramingSound
<1>7. KeptByPlan'
  BY <1>1, <1>2, KeptByPlanStays
<1> QED
  BY <1>1, <1>4, <1>6, <1>7, StillInTransaction

(* The end of a command, with the files as they are.                       *)
LEMMA RestKeeps ==
    ASSUME InstallerInv, Rest,
           UNCHANGED <<disk, canary, release, commands, mine, revoked>>,
           alone' \in BOOLEAN, spoiled' \in BOOLEAN, lost' \in BOOLEAN,
           spoiled => spoiled', events' \in 0..MaxEvents,
           last' \in {"none", "ok", "failed", "killed", "incomplete"},
           UserContentKept,
           ~lost' /\ ~spoiled' => Framed(disk["bridge"], disk["manifest"])
    PROVE  InstallerInv'
<1>1. Shape /\ TypeOK
  BY DEF InstallerInv, Shape
<1>2. /\ pc' = "idle" /\ cmd' = None /\ plan' = Nothing /\ saves' = Nothing /\ todo' = {}
      /\ snap' = Nothing /\ denied' = FALSE
  BY DEF Rest
<1>3. TypeOK'
  BY <1>1, <1>2, NothingFacts DEF TypeOK
<1>4. Shape'
  BY <1>1, <1>2, <1>3, NothingFacts DEF Shape, Transactions
<1>5. UserContentKept'
  BY Zenon DEF UserContentKept, AllKept, BridgeKept, HooksKept, OwnedKept, InRecovery
<1> QED
  BY <1>2, <1>4, <1>5 DEF InstallerInv, Transactions, Verifications, Reading

LEMMA CommitKeeps ==
    ASSUME InstallerInv, Commit
    PROVE  InstallerInv'
<1>1. /\ pc = "apply" /\ todo = {} /\ pc \in Transactions
      /\ UNCHANGED <<disk, canary, release, commands, events, mine, alone, spoiled, lost, revoked>>
      /\ last' = "ok" /\ Rest
  BY DEF Commit, bounds, Transactions
<1>2. /\ TypeOK /\ FilesSound /\ FramingSound /\ UserContentKept
  BY <1>1, InTransaction
<1>3. ~lost /\ ~spoiled => Framed(disk["bridge"], disk["manifest"])
  <2> SUFFICES ASSUME ~lost, ~spoiled PROVE Framed(disk["bridge"], disk["manifest"])
    OBVIOUS
  <2>1. Untouched("manifest") /\ "manifest" \in Paths
    BY PathFacts DEF Untouched, Named
  <2>2. disk["manifest"] = After("manifest")
    BY <1>1, <1>2, <2>1 DEF FilesSound, After
  <2> QED
    BY <1>1, <1>2, <2>2 DEF FramingSound
<1> QED
  BY <1>1, <1>2, <1>3, RestKeeps DEF TypeOK

LEMMA RolledBackKeeps ==
    ASSUME InstallerInv, RolledBack
    PROVE  InstallerInv'
<1>1. /\ pc = "rollback" /\ todo = {} /\ pc \in Transactions
      /\ UNCHANGED <<disk, canary, release, commands, events, mine, alone, spoiled, lost, revoked>>
      /\ last' = "failed" /\ Rest
  BY DEF RolledBack, bounds, Transactions
<1>2. /\ TypeOK /\ FilesSound /\ FramingSound /\ UserContentKept
  BY <1>1, InTransaction
<1>3. ~lost /\ ~spoiled => Framed(disk["bridge"], disk["manifest"])
  <2> SUFFICES ASSUME ~lost, ~spoiled PROVE Framed(disk["bridge"], disk["manifest"])
    OBVIOUS
  <2>1. Untouched("manifest") /\ "manifest" \in Paths
    BY PathFacts DEF Untouched, Named
  <2>2. disk["manifest"] = found["manifest"]
    BY <1>1, <1>2, <2>1 DEF FilesSound
  <2> QED
    BY <1>1, <1>2, <2>2 DEF FramingSound
<1> QED
  BY <1>1, <1>2, <1>3, RestKeeps DEF TypeOK

LEMMA KilledKeeps ==
    ASSUME InstallerInv, Killed
    PROVE  InstallerInv'
<1>1. /\ UNCHANGED <<disk, canary, release, commands, mine, alone, spoiled, revoked>>
      /\ lost' = TRUE /\ last' = "killed" /\ Rest
  BY DEF Killed
<1>2. TypeOK
  BY DEF InstallerInv, Shape
<1>3. UserContentKept
  BY InTransaction DEF InstallerInv
<1>4. events' \in 0..MaxEvents
  BY <1>2, InstallerAssumption DEF Killed, TypeOK
<1> QED
  BY <1>1, <1>2, <1>3, <1>4, RestKeeps DEF TypeOK

-----------------------------------------------------------------------------
(* Provider verification *)

(* A step outside a transaction that changes no file of the user, no copy  *)
(* and no manifest keeps what the user has.                                *)
LEMMA OutsideKeeps ==
    ASSUME InstallerInv, pc \notin Transactions, pc' \notin Transactions,
           UNCHANGED <<mine, spoiled, lost>>,
           \A p \in UserPaths \cup {"recovery", "manifest"} : disk'[p] = disk[p],
           Shape', pc' \in Verifications => VerificationSound'
    PROVE  InstallerInv'
<1>1. UserContentKept
  BY DEF InstallerInv
<1>2. /\ disk'["bridge"] = disk["bridge"] /\ disk'["hooks"] = disk["hooks"]
      /\ disk'["seed"] = disk["seed"] /\ disk'["recovery"] = disk["recovery"]
      /\ disk'["manifest"] = disk["manifest"]
      /\ \A p \in Owned : disk'[p] = disk[p]
  BY PathFacts
<1>3. UserContentKept'
  BY <1>1, <1>2, Zenon DEF UserContentKept, AllKept, BridgeKept, HooksKept, OwnedKept, InRecovery
<1> QED
  BY <1>2, <1>3 DEF InstallerInv

LEMMA ShapeStays ==
    ASSUME Shape, TypeOK', DiskSound(disk'), UNCHANGED <<plan, snap, mine>>,
           pc' \notin Transactions
    PROVE  Shape'
  BY DEF Shape, Transactions

LEMMA VerifyProviderKeeps ==
    ASSUME InstallerInv, VerifyProvider
    PROVE  InstallerInv'
<1>1. /\ pc = "idle" /\ pc' = "manifest" /\ cmd' = "verify-provider"
      /\ found' = disk /\ alone' = TRUE /\ last' = "none"
      /\ UNCHANGED <<disk, canary, plan, saves, todo, snap, seen, denied, release, events,
                     mine, spoiled, lost, revoked>>
  BY DEF VerifyProvider
<1>2. Shape /\ TypeOK /\ DiskSound(disk)
  BY DEF InstallerInv, Shape
<1>3. TypeOK'
  <2>1. commands' \in 0..MaxCommands
    BY <1>2, InstallerAssumption DEF VerifyProvider, TypeOK
  <2> QED
    BY <1>1, <1>2, <2>1 DEF TypeOK, Commands
<1>4. Shape'
  BY <1>1, <1>2, <1>3, ShapeStays DEF Transactions
<1>5. VerificationSound'
  BY <1>1 DEF VerificationSound, Reading
<1> QED
  BY <1>1, <1>4, <1>5, OutsideKeeps DEF Transactions

(* It reads the manifest, then the status, and copies the gate state.      *)
LEMMA ReadingKeeps ==
    ASSUME InstallerInv, ReadManifest \/ ReadStatus
    PROVE  InstallerInv'
<1>1. /\ \/ pc = "manifest" /\ pc' = "status"
         \/ pc = "status" /\ pc' = "state"
      /\ UNCHANGED <<disk, canary, cmd, plan, saves, todo, snap, denied, release, commands,
                     events, mine, found, alone, spoiled, lost, last, revoked>>
  BY DEF ReadManifest, ReadStatus, bounds, history
<1>2. Shape /\ TypeOK /\ DiskSound(disk) /\ VerificationSound
  BY <1>1 DEF InstallerInv, Shape, Verifications, Reading
<1>3. TypeOK'
  BY <1>1, <1>2 DEF TypeOK
<1>4. Shape'
  BY <1>1, <1>2, <1>3, ShapeStays DEF Transactions
<1>5. pc' \in {"status", "state"} /\ seen'.manifest \in Manifest
  <2>1. CASE ReadManifest
    BY <1>2, <2>1, DiskContent DEF ReadManifest, Previous
  <2>2. CASE ReadStatus
    BY <1>2, <2>2 DEF ReadStatus, VerificationSound, Reading
  <2> QED
    BY <2>1, <2>2
<1>6. pc' = "state" => seen'.status \in Status
  <2>1. CASE ReadManifest
    BY <2>1 DEF ReadManifest
  <2>2. CASE ReadStatus
    <3>1. disk["status"] \in Status
      BY <1>2, <2>2, DiskContent DEF ReadStatus, IsReadable
    <3> QED
      BY <2>2, <3>1 DEF ReadStatus
  <2> QED
    BY <2>1, <2>2
<1>7. VerificationSound'
  BY <1>1, <1>2, <1>5, <1>6 DEF VerificationSound, Reading
<1> QED
  BY <1>1, <1>4, <1>7, OutsideKeeps DEF Transactions

LEMMA CopyStateKeeps ==
    ASSUME InstallerInv, CopyState
    PROVE  InstallerInv'
<1>1. /\ pc = "state" /\ pc' = "sidecars"
      /\ snap' = [p \in {"state"} |-> disk[p]]
      /\ UNCHANGED <<disk, canary, cmd, plan, saves, todo, seen, denied, release, commands,
                     events, mine, found, alone, spoiled, lost, last, revoked>>
  BY DEF CopyState, bounds, history
<1>2. Shape /\ TypeOK /\ DiskSound(disk) /\ VerificationSound
  BY <1>1 DEF InstallerInv, Shape, Verifications, Reading
<1>3. "state" \in Paths /\ DOMAIN snap' = {"state"} /\ snap'["state"] = disk["state"]
  BY <1>1, PathFacts DEF Named
<1>4. TypeOK'
  BY <1>1, <1>2, <1>3 DEF TypeOK
<1>5. Shape'
  BY <1>1, <1>2, <1>3, <1>4 DEF Shape, DiskSound, Transactions
<1>6. VerificationSound'
  BY <1>1, <1>2, <1>3 DEF VerificationSound, Reading
<1> QED
  BY <1>1, <1>5, <1>6, OutsideKeeps DEF Transactions

LEMMA VerifyStopsKeeps ==
    ASSUME InstallerInv, VerifyStops
    PROVE  InstallerInv'
<1>1. /\ pc \in Reading /\ Rest /\ last' = "failed"
      /\ UNCHANGED <<disk, canary, release, commands, events, mine, alone, spoiled, lost,
                     revoked>>
  BY DEF VerifyStops, Reading, bounds
<1>2. /\ TypeOK /\ UserContentKept
      /\ ~lost /\ ~spoiled => Framed(disk["bridge"], disk["manifest"])
  BY <1>1 DEF InstallerInv, Shape, Transactions, Reading
<1> QED
  BY <1>1, <1>2, RestKeeps DEF TypeOK

LEMMA CopySidecarsKeeps ==
    ASSUME InstallerInv, CopySidecars
    PROVE  InstallerInv'
<1>1. /\ pc = "sidecars" /\ pc' = "canary"
      /\ snap' = [p \in {"state", "sidecar"} |-> IF p = "state" THEN snap[p] ELSE disk[p]]
      /\ UNCHANGED <<disk, canary, cmd, plan, saves, todo, seen, denied, release, commands,
                     events, mine, found, alone, spoiled, lost, last, revoked>>
  BY DEF CopySidecars, bounds, history
<1>2. Shape /\ TypeOK /\ DiskSound(disk) /\ VerificationSound
  BY <1>1 DEF InstallerInv, Shape, Verifications, Reading
<1>3. {"state", "sidecar"} \subseteq Paths
  BY PathFacts DEF Named
<1>4. /\ DOMAIN snap' = {"state", "sidecar"} /\ snap'["state"] = snap["state"]
      /\ snap'["sidecar"] = disk["sidecar"]
  BY <1>1
<1>5. TypeOK'
  BY <1>1, <1>2, <1>3, <1>4 DEF TypeOK
<1>6. \A p \in DOMAIN snap' : snap'[p] \in ContentOf(p)
  BY <1>1, <1>2, <1>3, <1>4 DEF Shape, DiskSound, VerificationSound, Reading
<1>7. Shape'
  BY <1>1, <1>2, <1>5, <1>6 DEF Shape, Transactions
<1>8. VerificationSound'
  BY <1>1, <1>2, <1>4 DEF VerificationSound, Reading
<1> QED
  BY <1>1, <1>7, <1>8, OutsideKeeps DEF Transactions

(* A user turn changes the gate state and the sidecar only.                *)
LEMMA TurnChanges ==
    ASSUME DiskSound(disk), disk["state"] \notin Bad
    PROVE  /\ DiskSound(TurnOn(disk))
           /\ \A p \in (Paths \cup {"recovery"}) \ {"state", "sidecar"} : TurnOn(disk)[p] = disk[p]
<1> DEFINE s == [disk["state"] EXCEPT !.turn = @ + 1, !.lease = FALSE]
           t == disk["state"].turn + 1
<1>1. {"state", "sidecar"} \subseteq Paths
  BY PathFacts DEF Named
<1>2. disk["state"] \in State
  BY <1>1, ContentFacts DEF DiskSound
<1>3. t \in Nat
  BY <1>2 DEF State
<1>4. PICK no \in BOOLEAN : no = FALSE
  OBVIOUS
<1>5. s = [disk["state"] EXCEPT !.turn = t, !.lease = no]
  BY <1>2, <1>4 DEF State
<1>6. s \in State
  <2> HIDE DEF t, s
  <2>1. [disk["state"] EXCEPT !.turn = t, !.lease = no] \in State
    BY <1>2, <1>3, <1>4 DEF State
  <2> QED
    BY <1>5, <2>1
<1>7. TurnOn(disk) = [disk EXCEPT !["state"] = s, !["sidecar"] = t]
  BY Zenon DEF TurnOn
<1>8. TurnOn(disk) = [[disk EXCEPT !["state"] = s] EXCEPT !["sidecar"] = t]
  <2> HIDE DEF s, t
  <2> QED
    BY <1>1, <1>7 DEF DiskSound
<1> HIDE DEF s, t
<1>9. DiskSound([disk EXCEPT !["state"] = s])
  BY <1>1, <1>6, ContentFacts, DiskUpdate
<1>10. DiskSound(TurnOn(disk))
  <2> DEFINE d == [disk EXCEPT !["state"] = s]
  <2>1. t \in ContentOf("sidecar") /\ "sidecar" \in Paths
    BY <1>1, <1>3, ContentFacts
  <2>2. DiskSound(d) /\ TurnOn(disk) = [d EXCEPT !["sidecar"] = t]
    BY <1>8, <1>9
  <2> HIDE DEF d
  <2>3. DiskSound([d EXCEPT !["sidecar"] = t])
    BY <2>1, <2>2, DiskUpdate, Zenon
  <2> QED
    BY <2>2, <2>3, Zenon
<1> QED
  BY <1>7, <1>10 DEF DiskSound

LEMMA CanaryKeeps ==
    ASSUME InstallerInv, NEW turn \in BOOLEAN, NEW outcome, Canary(turn, outcome)
    PROVE  InstallerInv'
<1>1. /\ pc = "canary" /\ pc' = "restore"
      /\ turn => disk["state"] \notin Bad
      /\ disk' = IF turn THEN TurnOn(disk) ELSE disk
      /\ canary' \in BOOLEAN /\ denied' \in BOOLEAN
      /\ todo' = [path : DOMAIN snap, save : {FALSE}]
      /\ UNCHANGED <<cmd, plan, saves, snap, seen, release, commands, events, mine, found,
                     alone, spoiled, lost, last, revoked>>
  BY DEF Canary, bounds, history
<1>2. Shape /\ TypeOK /\ DiskSound(disk) /\ VerificationSound
  BY <1>1 DEF InstallerInv, Shape, Verifications, Reading
<1>3. /\ DiskSound(disk')
      /\ \A p \in (Paths \cup {"recovery"}) \ {"state", "sidecar"} : disk'[p] = disk[p]
  BY <1>1, <1>2, TurnChanges
<1>4. TypeOK'
  <2>1. /\ \A p \in Paths : disk'[p] \in ContentOf(p)
        /\ DOMAIN disk' = Paths \cup {"recovery"} /\ DOMAIN disk'["recovery"] = Paths
    BY <1>3 DEF DiskSound
  <2>2. DOMAIN disk = Paths \cup {"recovery"}
    BY <1>2 DEF TypeOK
  <2> QED
    BY <1>1, <1>2, <2>1, <2>2 DEF TypeOK
<1>5. Shape'
  BY <1>1, <1>2, <1>3, <1>4, ShapeStays DEF Transactions
<1>6. DOMAIN snap = {"state", "sidecar"}
  BY <1>1, <1>2 DEF VerificationSound, Reading
<1>7. \A m \in todo' : m \in {Replacing("state"), Replacing("sidecar")}
  <2> SUFFICES ASSUME NEW m \in todo' PROVE m \in {Replacing("state"), Replacing("sidecar")}
    OBVIOUS
  <2>1. m.path \in DOMAIN snap /\ m = Replacing(m.path)
    BY <1>1, MutationRecords, Zenon DEF Replacing
  <2> QED
    BY <1>6, <2>1
<1>8. Replacing("state") \in todo' /\ Replacing("sidecar") \in todo'
  BY <1>1, <1>6, Zenon DEF Replacing
<1>9. VerificationSound'
  BY <1>1, <1>2, <1>7, <1>8 DEF VerificationSound, Reading
<1>10. \A p \in UserPaths \cup {"recovery", "manifest"} : disk'[p] = disk[p]
  BY <1>3, PathFacts DEF Named
<1> QED
  BY <1>1, <1>5, <1>9, <1>10, OutsideKeeps DEF Transactions

(* One file is replaced by a content it may have; the shape remains.       *)
LEMMA OneFile ==
    ASSUME Shape, NEW p \in Paths, NEW content \in ContentOf(p), disk' = [disk EXCEPT ![p] = content]
    PROVE  /\ DiskSound(disk') /\ disk'[p] = content
           /\ \A q \in (Paths \cup {"recovery"}) \ {p} : disk'[q] = disk[q]
           /\ DOMAIN disk' = DOMAIN disk
<1>1. DiskSound(disk)
  BY DEF Shape
<1>2. DiskSound(disk')
  BY <1>1, DiskUpdate
<1> QED
  BY <1>1, <1>2 DEF DiskSound

LEMMA FilesTyped ==
    ASSUME DiskSound(disk')
    PROVE  /\ \A p \in Paths : disk'[p] \in ContentOf(p)
           /\ DOMAIN disk' = Paths \cup {"recovery"} /\ DOMAIN disk'["recovery"] = Paths
  BY DEF DiskSound

LEMMA RestoreKeeps ==
    ASSUME InstallerInv, NEW m, Restore(m)
    PROVE  InstallerInv'
<1>1. /\ pc = "restore" /\ m \in todo
      /\ disk' = [disk EXCEPT ![m.path] = snap[m.path]]
      /\ todo' = todo \ {m}
      /\ pc' = IF todo' = {} THEN "judge" ELSE pc
      /\ UNCHANGED <<canary, cmd, plan, saves, snap, seen, denied, release, commands, events,
                     mine, found, alone, spoiled, lost, last, revoked>>
  BY DEF Restore, bounds, history
<1>2. Shape /\ TypeOK /\ VerificationSound
  BY <1>1 DEF InstallerInv, Shape, Verifications, Reading
<1>3. m.path \in {"state", "sidecar"} /\ m = Replacing(m.path)
  BY <1>1, <1>2, MutationFields DEF VerificationSound, Reading
<1>4. m.path \in Paths /\ m.path \in DOMAIN snap
  BY <1>1, <1>2, <1>3, PathFacts DEF VerificationSound, Reading, Named
<1>5. snap[m.path] \in ContentOf(m.path)
  BY <1>2, <1>4 DEF Shape
<1>6. /\ DiskSound(disk') /\ disk'[m.path] = snap[m.path]
      /\ \A q \in (Paths \cup {"recovery"}) \ {m.path} : disk'[q] = disk[q]
      /\ DOMAIN disk' = DOMAIN disk
  BY <1>1, <1>2, <1>4, <1>5, OneFile
<1>7. pc' \in {"restore", "judge"}
  BY <1>1
<1>8. TypeOK'
  BY <1>1, <1>2, <1>6, <1>7, FilesTyped DEF TypeOK
<1>9. Shape'
  BY <1>1, <1>2, <1>6, <1>7, <1>8, ShapeStays DEF Transactions
<1>10. ASSUME alone, NEW p \in {"state", "sidecar"}, Replacing(p) \notin todo'
       PROVE  disk'[p] = found[p]
  <2>1. CASE p = m.path
    BY <1>1, <1>2, <1>6, <1>10, <2>1 DEF VerificationSound, Reading
  <2>2. CASE p # m.path
    <3>1. Replacing(p) \notin todo
      BY <1>1, <1>3, <1>10, <2>2, MutationFields
    <3>2. disk'[p] = disk[p]
      BY <1>6, <2>2, PathFacts DEF Named
    <3> QED
      BY <1>1, <1>2, <1>10, <3>1, <3>2 DEF VerificationSound, Reading
  <2> QED
    BY <2>1, <2>2
<1>11. VerificationSound'
  BY <1>1, <1>2, <1>7, <1>10 DEF VerificationSound, Reading
<1>12. \A p \in UserPaths \cup {"recovery", "manifest"} : disk'[p] = disk[p]
  BY <1>3, <1>6, PathFacts DEF Named
<1> QED
  BY <1>1, <1>7, <1>9, <1>11, <1>12, OutsideKeeps DEF Transactions

LEMMA RestoreFailsKeeps ==
    ASSUME InstallerInv, RestoreFails
    PROVE  InstallerInv'
<1>1. /\ pc = "restore" /\ Rest /\ spoiled' = TRUE /\ last' = "failed"
      /\ UNCHANGED <<disk, canary, release, commands, mine, alone, lost, revoked>>
  BY DEF RestoreFails
<1>2. TypeOK /\ UserContentKept
  BY <1>1 DEF InstallerInv, Shape, Transactions
<1>3. events' \in 0..MaxEvents
  BY <1>2, InstallerAssumption DEF RestoreFails, TypeOK
<1> QED
  BY <1>1, <1>2, <1>3, RestKeeps DEF TypeOK

LEMMA JudgeKeeps ==
    ASSUME InstallerInv, Judge
    PROVE  InstallerInv'
<1>1. /\ pc = "judge" /\ pc' = "idle" /\ cmd' = None /\ plan' = Nothing /\ saves' = Nothing
      /\ todo' = {} /\ snap' = Nothing /\ denied' = FALSE /\ canary' = FALSE
      /\ last' \in {"ok", "failed", "incomplete"}
      /\ UNCHANGED <<release, commands, events, mine, alone, spoiled, lost, revoked>>
  BY DEF Judge, Rest, bounds
<1>2. Shape /\ TypeOK /\ VerificationSound
  BY <1>1 DEF InstallerInv, Shape, Verifications, Reading
<1>3. /\ DiskSound(disk') /\ DOMAIN disk' = DOMAIN disk
      /\ \A q \in (Paths \cup {"recovery"}) \ {"status"} : disk'[q] = disk[q]
  <2>1. CASE UNCHANGED disk
    BY <1>2, <2>1 DEF Shape
  <2>2. CASE disk' = [disk EXCEPT !["status"] =
                         [seen.status EXCEPT !.verified = seen.manifest,
                                             !.private = TRUE, !.bound = TRUE]]
    <3>1. [seen.status EXCEPT !.verified = seen.manifest, !.private = TRUE, !.bound = TRUE]
            \in Status
      BY <1>1, <1>2, StatusUpdate, Zenon DEF VerificationSound, Reading
    <3>2. "status" \in Paths
      BY PathFacts DEF Named
    <3> QED
      BY <1>2, <2>2, <3>1, <3>2, ContentFacts, OneFile
  <2> QED
    BY <2>1, <2>2 DEF Judge
<1>4. TypeOK'
  BY <1>1, <1>2, <1>3, FilesTyped, NothingFacts DEF TypeOK
<1>5. Shape'
  BY <1>1, <1>2, <1>3, <1>4, NothingFacts DEF Shape, Transactions
<1>6. \A p \in UserPaths \cup {"recovery", "manifest"} : disk'[p] = disk[p]
  BY <1>3, PathFacts DEF Named
<1> QED
  BY <1>1, <1>5, <1>6, OutsideKeeps DEF Transactions, Verifications, Reading

-----------------------------------------------------------------------------
(* Everyone else *)

(* What the user edits remains a content of its path, and the framing of   *)
(* the bridge that it was.                                                 *)
LEMMA BridgeEdits ==
    ASSUME TypeOK, NEW content \in EditsOf("bridge")
    PROVE  /\ content \in ContentOf("bridge")
           /\ \A m : Framed(disk["bridge"], m) => Framed(content, m)
<1> DEFINE b == disk["bridge"]
<1>1. b \in Bridge \cup {None, Unsafe}
  BY DiskContent
<1>2. CASE content \in {None, Unsafe}
  BY <1>2, ContentFacts DEF Framed
<1>3. CASE b \in {None, Unsafe} /\ content \notin {None, Unsafe}
  <2>1. PICK t \in Texts : content = [text |-> t, block |-> None, frame |-> 0]
    BY <1>3 DEF EditsOf
  <2> QED
    BY <2>1, ContentFacts DEF Bridge, Framed
<1>4. CASE b \notin {None, Unsafe} /\ content \notin {None, Unsafe}
  <2>1. b \in Bridge
    BY <1>1, <1>4
  <2>2. \/ \E t \in Texts : content = [b EXCEPT !.text = t]
        \/ /\ b.block # None
           /\ \/ \E e \in {Edited, Broken} : content = [b EXCEPT !.block = e]
              \/ content = [b EXCEPT !.block = None, !.frame = 0]
        \/ content = [b EXCEPT !.frame = 0]
    BY <1>4 DEF EditsOf
  <2>3. /\ content \in Bridge
        /\ \/ content.block = b.block /\ content.frame \in {b.frame, 0}
           \/ b.block # None /\ content.block \in {Edited, Broken} /\ content.frame = b.frame
           \/ content.block = None /\ content.frame = 0
    <3>1. CASE \E t \in Texts : content = [b EXCEPT !.text = t]
      BY <2>1, <3>1 DEF Bridge
    <3>2. CASE b.block # None /\ \E e \in {Edited, Broken} : content = [b EXCEPT !.block = e]
      BY <2>1, <3>2 DEF Bridge
    <3>3. CASE content = [b EXCEPT !.block = None, !.frame = 0]
      BY <2>1, <3>3, BridgeUpdate DEF Bridge
    <3>4. CASE content = [b EXCEPT !.frame = 0]
      BY <2>1, <3>4 DEF Bridge
    <3> QED
      BY <2>2, <3>1, <3>2, <3>3, <3>4
  <2>4. ASSUME NEW m, Framed(b, m) PROVE Framed(content, m)
    <3>1. content.block # None => b.block # None
      BY <2>3, Zenon
    <3>2. CASE content.block = None
      BY <1>4, <2>3, <2>4, <3>2, MarkAssumption DEF Framed
    <3>3. CASE content.block # None /\ b.block # None
      BY <1>4, <2>3, <2>4, <3>3 DEF Framed
    <3> QED
      BY <3>1, <3>2, <3>3
  <2> QED
    BY <2>3, <2>4, ContentFacts
<1> QED
  BY <1>2, <1>3, <1>4

LEMMA HooksEdits ==
    ASSUME TypeOK, NEW content \in EditsOf("hooks")
    PROVE  content \in ContentOf("hooks")
<1> DEFINE h == disk["hooks"]
<1>1. h \in Hooks \cup Bad
  BY DiskContent
<1>2. CASE content \in Bad
  BY <1>2, ContentFacts
<1>3. CASE h \in Bad /\ content \notin Bad
  <2>1. PICK t \in Texts : content = [other |-> t, ours |-> [i \in HookIds |-> None]]
    BY <1>3 DEF EditsOf, Bad
  <2> QED
    BY <2>1, ContentFacts DEF Hooks
<1>4. CASE h \notin Bad /\ content \notin Bad
  <2>1. h \in Hooks
    BY <1>1, <1>4
  <2>2. \/ \E t \in Texts : content = [h EXCEPT !.other = t]
        \/ \E i \in HookIds, e \in {None, Edited, Broken} : content = [h EXCEPT !.ours[i] = e]
    BY <1>4 DEF EditsOf, Bad
  <2>3. CASE \E t \in Texts : content = [h EXCEPT !.other = t]
    BY <2>1, <2>3, ContentFacts DEF Hooks
  <2>4. CASE \E i \in HookIds, e \in {None, Edited, Broken} : content = [h EXCEPT !.ours[i] = e]
    BY <2>1, <2>4, ContentFacts DEF Hooks
  <2> QED
    BY <2>2, <2>3, <2>4
<1> QED
  BY <1>2, <1>3, <1>4

LEMMA StateUpdate ==
    ASSUME NEW s \in State, NEW flag \in BOOLEAN
    PROVE  /\ [s EXCEPT !.private = flag] \in State
           /\ [s EXCEPT !.lease = flag] \in State
  BY DEF State

LEMMA StateEdits ==
    ASSUME TypeOK, NEW content \in EditsOf("state")
    PROVE  content \in ContentOf("state")
<1> DEFINE s == disk["state"]
<1>1. s \in State \cup Bad
  BY DiskContent
<1>2. PICK no \in BOOLEAN : no = FALSE
  OBVIOUS
<1>3. content \in Bad \/ (s \notin Bad /\ content = [s EXCEPT !.private = FALSE])
  BY DEF EditsOf, Bad
<1>4. content \in Bad \/ (s \notin Bad /\ content = [s EXCEPT !.private = no])
  BY <1>2, <1>3, Zenon
<1>5. s \notin Bad => [s EXCEPT !.private = no] \in State
  BY <1>1, StateUpdate
<1> HIDE DEF s
<1> QED
  BY <1>4, <1>5, ContentFacts

LEMMA StatusEdits ==
    ASSUME TypeOK, NEW content \in EditsOf("status")
    PROVE  content \in ContentOf("status")
<1> DEFINE s == disk["status"]
           open == [s EXCEPT !.private = FALSE]
           unbound == [s EXCEPT !.bound = FALSE]
<1>1. s \in Status \cup Bad
  BY DiskContent
<1>2. content \in Bad \/ (s \notin Bad /\ content \in {open, unbound})
  BY DEF EditsOf, Bad
<1>3. s \notin Bad => open \in Status /\ unbound \in Status
  BY <1>1, StatusUpdate
<1>4. ContentOf("status") = Status \cup Bad
  BY ContentFacts
<1> HIDE DEF open, unbound
<1> QED
  BY <1>2, <1>3, <1>4

LEMMA EditContent ==
    ASSUME TypeOK, NEW p \in Paths, NEW content \in EditsOf(p)
    PROVE  content \in ContentOf(p)
<1>1. CASE p = "bridge"
  BY <1>1, BridgeEdits
<1>2. CASE p = "hooks"
  BY <1>2, HooksEdits
<1>3. CASE p = "state"
  BY <1>3, StateEdits
<1>4. CASE p \in {"seed", "manifest", "sidecar"}
  BY <1>4, ContentFacts DEF EditsOf
<1>6. CASE p = "status"
  BY <1>6, StatusEdits
<1>7. CASE p = "evidence"
  BY <1>7, DiskContent, ContentFacts DEF EditsOf
<1>5. CASE p \in Owned
  <2>1. p \notin Named
    BY <1>5, PathFacts
  <2>2. EditsOf(p) = {None, Edited, Unsafe}
    BY <2>1 DEF EditsOf, Named
  <2> QED
    BY <1>5, <2>2, ContentFacts
<1> QED
  BY <1>1, <1>2, <1>3, <1>4, <1>5, <1>6, <1>7, PathFacts DEF Named

(* Others change a file while a command runs: what the invariant says of   *)
(* the files nobody else touched still holds.                              *)
LEMMA WorldDuring ==
    ASSUME InstallerInv, pc \in Transactions,
           UNCHANGED <<work, release, found>>,
           Shape', alone' = FALSE, spoiled' = spoiled, lost => lost',
           disk'["recovery"] = disk["recovery"],
           \A p \in UserPaths : mine'[p] # None => mine'[p] = mine[p] /\ disk'[p] = disk[p],
           ~lost' => disk'["manifest"] = disk["manifest"],
           \A m : Framed(disk["bridge"], m) => Framed(disk'["bridge"], m)
    PROVE  InstallerInv'
<1>1. /\ UNCHANGED <<pc, cmd, plan, saves, todo, snap, release, found>> /\ spoiled' = spoiled
      /\ pc \in Transactions
  BY DEF work
<1>2. /\ Shape /\ TypeOK /\ FilesSound /\ KeptByPlan /\ FramingSound
  BY InTransaction
<1>3. \A p : After(p)' = After(p) /\ Copies(p)' = Copies(p)
  BY <1>1, PlanStays
<1>4. \A p : Untouched(p)' => Untouched(p) /\ disk'[p] = disk[p]
  BY DEF Untouched
<1>5. \A p : Recovery(p)' = Recovery(p)
  BY DEF Recovery
<1>6. FilesSound'
  <2>1. pc = "planned" =>
        /\ disk'["recovery"] = found["recovery"]
        /\ \A p \in Paths : Untouched(p)' => disk'[p] = found[p]
    BY <1>2, <1>4 DEF FilesSound
  <2>2. pc \in {"apply", "rollback"} =>
        \A p \in DOMAIN plan : Untouched(p)' => snap[p] = found[p]
    BY <1>2, <1>4 DEF FilesSound
  <2>3. ASSUME pc = "apply", NEW p \in Paths
        PROVE  /\ Recovery(p)' = found["recovery"][p]
                                 \cup (IF Saving(p) \in todo THEN {} ELSE Copies(p))
               /\ Saving(p) \in todo /\ p \in DOMAIN plan => Replacing(p) \in todo
               /\ Untouched(p)' => disk'[p] = IF p \in DOMAIN plan /\ Replacing(p) \notin todo
                                              THEN plan[p] ELSE found[p]
    BY <1>2, <1>4, <1>5, <2>3 DEF FilesSound
  <2>4. ASSUME pc = "rollback", ~spoiled, NEW p \in Paths
        PROVE  /\ Recovery(p)' \in {found["recovery"][p], found["recovery"][p] \cup Copies(p)}
               /\ Saving(p) \notin todo =>
                     /\ Recovery(p)' = found["recovery"][p]
                     /\ p \in DOMAIN saves => Replacing(p) \notin todo
               /\ Untouched(p)' =>
                     \/ disk'[p] = found[p]
                     \/ /\ p \in DOMAIN plan /\ Replacing(p) \in todo /\ disk'[p] = plan[p]
                        /\ Recovery(p)' = found["recovery"][p] \cup Copies(p)
    BY <1>2, <1>4, <1>5, <2>4 DEF FilesSound
  <2> QED
    BY <1>1, <1>2, <1>3, <2>1, <2>2, <2>3, <2>4 DEF FilesSound
<1>7. KeptByPlan'
  <2> SUFFICES ASSUME ~spoiled, NEW p \in UserPaths
               PROVE  /\ KeptIn(p, mine'[p], found[p], found["recovery"][p])
                      /\ KeptIn(p, mine'[p], After(p), found["recovery"][p] \cup Copies(p))
    BY <1>1, <1>3 DEF KeptByPlan
  <2> QED
    BY <1>2, KeptNothing DEF KeptByPlan
<1>8. FramingSound'
  BY <1>1, <1>2, <1>3 DEF FramingSound
<1> QED
  BY <1>1, <1>6, <1>7, <1>8, StillInTransaction

LEMMA AllKeptNext ==
    AllKept' <=> \A p \in UserPaths : KeptIn(p, mine'[p], disk'[p], Recovery(p)')
<1>1. (AllKept <=> \A p \in UserPaths : KeptIn(p, mine[p], disk[p], Recovery(p)))'
  BY AllKeptIs, PTL
<1> QED
  BY <1>1

LEMMA EditKeeps ==
    ASSUME InstallerInv, NEW p \in Paths, Edit(p)
    PROVE  InstallerInv'
<1>1. /\ mine' = IF p \notin UserPaths THEN mine
                 ELSE [mine EXCEPT ![p] = IF pc = "idle" THEN disk'[p] ELSE None]
      /\ alone' = FALSE /\ lost' = (lost \/ p = "manifest")
      /\ UNCHANGED <<canary, work, release, commands, found, spoiled, last, revoked>>
  BY DEF Edit
<1>2. UNCHANGED <<pc, cmd, plan, saves, todo, snap, seen, denied>>
  BY <1>1 DEF work
<1>3. PICK content \in EditsOf(p) : disk' = [disk EXCEPT ![p] = content]
  BY DEF Edit
<1>4. Shape /\ TypeOK
  BY DEF InstallerInv, Shape
<1>5. /\ DiskSound(disk') /\ disk'[p] = content
      /\ \A q \in (Paths \cup {"recovery"}) \ {p} : disk'[q] = disk[q]
      /\ DOMAIN disk' = DOMAIN disk
  BY <1>3, <1>4, EditContent, OneFile
<1>6. Shape'
  <2>1. events' \in 0..MaxEvents
    BY <1>4, InstallerAssumption DEF Edit, TypeOK
  <2>2. lost' \in BOOLEAN /\ alone' \in BOOLEAN
    BY <1>1
  <2>3. TypeOK'
    BY <1>1, <1>2, <1>4, <1>5, <2>1, <2>2, FilesTyped DEF TypeOK
  <2>4. mine' = [q \in UserPaths |-> mine'[q]]
    BY <1>1, <1>4 DEF Shape
  <2>5. AllMutations' = AllMutations
    BY <1>2 DEF AllMutations
  <2> QED
    BY <1>2, <1>4, <1>5, <2>3, <2>4, <2>5 DEF Shape
<1>7. /\ disk'["recovery"] = disk["recovery"]
      /\ \A q \in UserPaths : q # p => mine'[q] = mine[q] /\ disk'[q] = disk[q]
      /\ p \in UserPaths => mine'[p] = IF pc = "idle" THEN disk'[p] ELSE None
      /\ ~lost' => ~lost /\ p # "manifest" /\ disk'["manifest"] = disk["manifest"]
  BY <1>1, <1>4, <1>5, PathFacts DEF Named, Shape
<1>8. \A m : Framed(disk["bridge"], m) => Framed(disk'["bridge"], m)
  <2>1. CASE p = "bridge"
    BY <1>4, <1>5, <2>1, BridgeEdits
  <2>2. CASE p # "bridge"
    BY <1>5, <2>2, PathFacts DEF Named
  <2> QED
    BY <2>1, <2>2
<1>9. CASE pc \in Transactions
  <2>1. \A q \in UserPaths : mine'[q] # None => mine'[q] = mine[q] /\ disk'[q] = disk[q]
    BY <1>7, <1>9 DEF Transactions
  <2> QED
    BY <1>1, <1>6, <1>7, <1>8, <1>9, <2>1, WorldDuring
<1>10. CASE pc \notin Transactions
  <2>1. UserContentKept'
    <3>1. SUFFICES ASSUME ~spoiled, NEW q \in UserPaths
                   PROVE  KeptIn(q, mine'[q], disk'[q], Recovery(q)')
      BY <1>1, AllKeptNext DEF UserContentKept
    <3>2. AllKept
      BY <1>10, <3>1 DEF InstallerInv, UserContentKept
    <3>3. CASE q = p
      BY <1>7, <3>3, KeptItself, KeptNothing
    <3>4. CASE q # p
      BY <1>7, <3>2, <3>4, AllKeptIs DEF Recovery
    <3> QED
      BY <3>3, <3>4
  <2>2. ~lost' /\ ~spoiled' => Framed(disk'["bridge"], disk'["manifest"])
    BY <1>1, <1>7, <1>8, <1>10 DEF InstallerInv
  <2>3. pc \in Verifications => VerificationSound'
    BY <1>1, <1>2 DEF InstallerInv, VerificationSound, Reading
  <2> QED
    BY <1>2, <1>6, <1>10, <2>1, <2>2, <2>3 DEF InstallerInv
<1> QED
  BY <1>9, <1>10

(* A turn or a lease changes only the gate state and its sidecar.          *)
LEMMA StateKeeps ==
    ASSUME InstallerInv, Shape', alone' = FALSE,
           UNCHANGED <<canary, work, release, commands, mine, found, spoiled, lost, last>>,
           \A p \in (Paths \cup {"recovery"}) \ {"state", "sidecar"} : disk'[p] = disk[p]
    PROVE  InstallerInv'
<1>1. /\ disk'["recovery"] = disk["recovery"] /\ disk'["manifest"] = disk["manifest"]
      /\ disk'["bridge"] = disk["bridge"]
      /\ \A p \in UserPaths : disk'[p] = disk[p]
  BY PathFacts DEF Named
<1>2. UNCHANGED <<pc, cmd, plan, saves, todo, snap, seen, denied>>
  BY DEF work
<1>3. CASE pc \in Transactions
  BY <1>1, <1>3, WorldDuring
<1>4. CASE pc \notin Transactions
  <2>1. pc \in Verifications => VerificationSound'
    BY <1>2 DEF InstallerInv, VerificationSound, Reading
  <2>2. \A p \in UserPaths \cup {"recovery", "manifest"} : disk'[p] = disk[p]
    BY <1>1
  <2> QED
    BY <1>2, <1>4, <2>1, <2>2, OutsideKeeps
<1> QED
  BY <1>3, <1>4

LEMMA StateShape ==
    ASSUME InstallerInv, DiskSound(disk'), DOMAIN disk' = DOMAIN disk,
           UNCHANGED <<canary, work, release, commands, mine, found, spoiled, lost, last>>,
           alone' \in BOOLEAN, revoked' \in BOOLEAN, events' \in 0..MaxEvents
    PROVE  Shape'
<1>1. Shape /\ TypeOK
  BY DEF InstallerInv, Shape
<1>2. UNCHANGED <<pc, cmd, plan, saves, todo, snap, seen, denied>>
  BY DEF work
<1>3. TypeOK'
  BY <1>1, <1>2, FilesTyped DEF TypeOK
<1>4. AllMutations' = AllMutations
  BY <1>2 DEF AllMutations
<1> QED
  BY <1>1, <1>2, <1>3, <1>4 DEF Shape

LEMMA TurnKeeps ==
    ASSUME InstallerInv, Turn
    PROVE  InstallerInv'
<1>1. /\ disk["state"] \notin Bad /\ disk' = TurnOn(disk)
      /\ alone' = FALSE /\ revoked' = TRUE
      /\ UNCHANGED <<canary, work, release, commands, mine, found, spoiled, lost, last>>
  BY DEF Turn
<1>2. TypeOK /\ DiskSound(disk)
  BY DEF InstallerInv, Shape
<1>3. events' \in 0..MaxEvents
  BY <1>2, InstallerAssumption DEF Turn, TypeOK
<1>4. /\ DiskSound(disk')
      /\ \A p \in (Paths \cup {"recovery"}) \ {"state", "sidecar"} : disk'[p] = disk[p]
  BY <1>1, <1>2, TurnChanges
<1>5. DOMAIN disk' = DOMAIN disk
  BY <1>2, <1>4, FilesTyped DEF TypeOK
<1>6. Shape'
  BY <1>1, <1>3, <1>4, <1>5, StateShape
<1> QED
  BY <1>1, <1>4, <1>6, StateKeeps

LEMMA GrantKeeps ==
    ASSUME InstallerInv, Grant
    PROVE  InstallerInv'
<1>1. /\ disk["state"] \notin Bad
      /\ disk' = [disk EXCEPT !["state"].lease = TRUE]
      /\ alone' = FALSE /\ revoked' = FALSE
      /\ UNCHANGED <<canary, work, release, commands, mine, found, spoiled, lost, last>>
  BY DEF Grant
<1>2. Shape /\ TypeOK /\ DiskSound(disk)
  BY DEF InstallerInv, Shape
<1>3. events' \in 0..MaxEvents
  BY <1>2, InstallerAssumption DEF Grant, TypeOK
<1>4. PICK yes \in BOOLEAN : yes = TRUE
  OBVIOUS
<1>5. "state" \in Paths /\ disk["state"] \in State
  BY <1>1, <1>2, ContentFacts, PathFacts DEF DiskSound, Named
<1> DEFINE s == [disk["state"] EXCEPT !.lease = yes]
<1>6. s \in ContentOf("state")
  BY <1>5, StateUpdate, ContentFacts
<1>7. disk' = [disk EXCEPT !["state"] = s]
  <2>1. disk' = [disk EXCEPT !["state"].lease = yes]
    BY <1>1, <1>4, Zenon
  <2> QED
    BY <2>1, <1>2 DEF DiskSound
<1> HIDE DEF s
<1>8. /\ DiskSound(disk') /\ DOMAIN disk' = DOMAIN disk
      /\ \A p \in (Paths \cup {"recovery"}) \ {"state"} : disk'[p] = disk[p]
  BY <1>2, <1>5, <1>6, <1>7, OneFile
<1>9. Shape'
  BY <1>1, <1>3, <1>8, StateShape
<1> QED
  BY <1>1, <1>8, <1>9, StateKeeps

LEMMA UpgradeKeeps ==
    ASSUME InstallerInv, Upgrade
    PROVE  InstallerInv'
<1>1. /\ pc = "idle" /\ release < MaxRelease /\ release' = release + 1
      /\ UNCHANGED <<disk, canary, pc, cmd, plan, saves, todo, snap, seen, denied, commands,
                     mine, found, alone, spoiled, lost, last, revoked>>
  BY DEF Upgrade, work, history
<1>2. Shape /\ TypeOK
  BY DEF InstallerInv, Shape
<1>3. events' \in 0..MaxEvents /\ release' \in Releases
  BY <1>1, <1>2, InstallerAssumption DEF Upgrade, TypeOK, Releases
<1>4. TypeOK'
  BY <1>1, <1>2, <1>3 DEF TypeOK
<1>5. Shape'
  BY <1>1, <1>2, <1>4, ShapeStays DEF Shape, Transactions
<1> QED
  BY <1>1, <1>5, OutsideKeeps DEF Transactions, Verifications, Reading

-----------------------------------------------------------------------------
(* The invariant holds initially and is kept by every step *)

LEMMA InitSound ==
    ASSUME Init
    PROVE  InstallerInv
<1>1. /\ release = 1 /\ pc = "idle" /\ cmd = None /\ plan = Nothing /\ saves = Nothing
      /\ todo = {} /\ snap = Nothing /\ canary = FALSE /\ denied = FALSE
      /\ commands = 0 /\ events = 0 /\ mine = [p \in UserPaths |-> disk[p]]
      /\ alone = TRUE /\ spoiled = FALSE /\ lost = FALSE /\ last = "none" /\ revoked = FALSE
  BY DEF Init
<1>2. PICK b \in {None} \cup {[text |-> t, block |-> None, frame |-> 0] : t \in Texts},
           h \in {None} \cup {[other |-> t, ours |-> [i \in HookIds |-> None]] : t \in Texts} :
        disk = [p \in Paths \cup {"recovery"} |->
                    CASE p = "bridge" -> b [] p = "hooks" -> h
                      [] p = "recovery" -> [q \in Paths |-> {}] [] OTHER -> None]
  BY DEF Init
<1>3. b \in Bridge \cup {None} /\ (b # None => b.block = None /\ b.frame = 0)
  BY <1>2 DEF Bridge
<1>4. h \in Hooks \cup {None}
  BY <1>2 DEF Hooks
<1>5. /\ disk["bridge"] = b /\ disk["hooks"] = h /\ disk["recovery"] = [q \in Paths |-> {}]
      /\ \A p \in Paths \ {"bridge", "hooks"} : disk[p] = None
  BY <1>2, PathFacts DEF Named
<1>6. ASSUME NEW p \in Paths PROVE disk[p] \in ContentOf(p)
  BY <1>3, <1>4, <1>5, ContentFacts, PathFacts DEF Named, Bad
<1>7. DiskSound(disk)
  <2>1. disk = [p \in Paths \cup {"recovery"} |-> disk[p]]
    BY <1>2
  <2>2. disk["recovery"] = [p \in Paths |-> disk["recovery"][p]]
    BY <1>5
  <2> QED
    BY <1>6, <2>1, <2>2 DEF DiskSound
<1>8. TypeOK
  <2>1. DOMAIN disk = Paths \cup {"recovery"} /\ DOMAIN disk["recovery"] = Paths
    BY <1>2, <1>5
  <2>2. release \in Releases /\ commands \in 0..MaxCommands /\ events \in 0..MaxEvents
    BY <1>1, InstallerAssumption DEF Releases
  <2> QED
    BY <1>1, <1>6, <2>1, <2>2, NothingFacts DEF TypeOK
<1>9. Shape
  <2>1. mine = [p \in UserPaths |-> mine[p]]
    BY <1>1
  <2> QED
    BY <1>1, <1>7, <1>8, <2>1, NothingFacts DEF Shape, Transactions
<1>10. UserContentKept
  <2>1. \A p \in UserPaths : mine[p] = disk[p]
    BY <1>1
  <2> QED
    BY <2>1, AllKeptIs, KeptItself DEF UserContentKept
<1>11. Framed(disk["bridge"], disk["manifest"])
  BY <1>3, <1>5 DEF Framed
<1> QED
  BY <1>1, <1>9, <1>10, <1>11 DEF InstallerInv, Transactions, Verifications, Reading

LEMMA NextKeeps ==
    ASSUME InstallerInv, Next
    PROVE  InstallerInv'
<1>1. CASE \E c \in Commands \ {"verify-provider"} : Start(c)
  BY <1>1, StartKeeps DEF Commands, Transacting
<1>2. CASE VerifyProvider
  BY <1>2, VerifyProviderKeeps
<1>3. CASE Step
  <2>1. CASE Begin \/ Commit \/ RolledBack \/ Judge
    BY <2>1, BeginKeeps, CommitKeeps, RolledBackKeeps, JudgeKeeps
  <2>4. CASE ReadManifest \/ ReadStatus \/ CopyState \/ CopySidecars \/ VerifyStops
    BY <2>4, ReadingKeeps, CopyStateKeeps, CopySidecarsKeeps, VerifyStopsKeeps
  <2>2. CASE \E m \in Mutations : Mutate(m) \/ RollBack(m) \/ Restore(m)
    BY <2>2, MutateKeeps, RollBackKeeps, RestoreKeeps
  <2>3. CASE \E turn \in BOOLEAN, outcome \in {"denied", "escaped", "none"} : Canary(turn, outcome)
    BY <2>3, CanaryKeeps
  <2> QED
    BY <1>3, <2>1, <2>2, <2>3, <2>4 DEF Step
<1>4. CASE Fault
  BY <1>4, WriteFailsKeeps, RollBackFailsKeeps, RestoreFailsKeeps, KilledKeeps DEF Fault
<1>5. CASE World
  BY <1>5, EditKeeps, TurnKeeps, GrantKeeps, UpgradeKeeps DEF World
<1> QED
  BY <1>1, <1>2, <1>3, <1>4, <1>5 DEF Next

LEMMA StutterKeeps ==
    ASSUME InstallerInv, UNCHANGED vars
    PROVE  InstallerInv'
<1>1. UNCHANGED <<disk, canary, pc, cmd, plan, saves, todo, snap, seen, denied, release,
                  commands, events, mine, found, alone, spoiled, lost, last, revoked>>
  BY DEF vars, work, bounds, history
<1>2. AllMutations' = AllMutations
  BY <1>1 DEF AllMutations
<1>3. Shape /\ TypeOK
  BY DEF InstallerInv, Shape
<1>4. Shape'
  <2>1. TypeOK'
    BY <1>1, <1>3 DEF TypeOK
  <2> QED
    BY <1>1, <1>2, <1>3, <2>1 DEF Shape
<1>5. CASE pc \in Transactions
  <2>1. FilesSound /\ KeptByPlan /\ FramingSound
    BY <1>5, InTransaction
  <2>2. \A p : /\ Untouched(p)' <=> Untouched(p)
               /\ After(p)' = After(p) /\ Copies(p)' = Copies(p) /\ Recovery(p)' = Recovery(p)
    BY <1>1 DEF Untouched, After, Copies, Recovery
  <2>3. FilesSound'
    BY <1>1, <2>1, <2>2 DEF FilesSound
  <2>4. FramingSound'
    BY <1>1, <2>1, <2>2 DEF FramingSound
  <2> QED
    BY <1>1, <1>4, <1>5, <2>1, <2>3, <2>4, KeptByPlanStays, StillInTransaction
<1>6. CASE pc \notin Transactions
  <2>1. pc \in Verifications => VerificationSound'
    BY <1>1 DEF InstallerInv, VerificationSound, Reading
  <2> QED
    BY <1>1, <1>4, <1>6, <2>1, OutsideKeeps
<1> QED
  BY <1>5, <1>6

LEMMA InstallerInvariant == Spec => []InstallerInv
<1>1. InstallerInv /\ [Next]_vars => InstallerInv'
  BY NextKeeps, StutterKeeps
<1> QED
  BY InitSound, <1>1, PTL DEF Spec

-----------------------------------------------------------------------------
(* Theorems *)

(* Every file, plan, copy and phase is one the program can be in.          *)
THEOREM InstallerTypes == Spec => []TypeOK
<1>1. InstallerInv => TypeOK
  BY DEF InstallerInv, Shape
<1> QED
  BY <1>1, InstallerInvariant, PTL

(* Whatever the user had put into an instruction, hook, seed or installed  *)
(* file before a command planned its change is in the file or in a         *)
(* recovery copy, through every sequence of installs, repairs, uninstalls, *)
(* failures and kills, unless a rollback itself failed.                    *)
THEOREM UserFilesAreKept == Spec => []UserContentKept
<1>1. InstallerInv => UserContentKept
  BY InTransaction DEF InstallerInv
<1> QED
  BY <1>1, InstallerInvariant, PTL

-----------------------------------------------------------------------------
(* How commands end *)

LEMMA EndOfCommand ==
    ASSUME Next, pc # "idle", pc' = "idle"
    PROVE  Commit \/ RolledBack \/ Killed \/ RestoreFails \/ Judge \/ VerifyStops
<1>1. \/ VerifyProvider \/ Step \/ Fault \/ World
      \/ \E c \in Commands \ {"verify-provider"} : Start(c)
  BY DEF Next
<1>2. ~VerifyProvider /\ ~\E c \in Commands \ {"verify-provider"} : Start(c)
  BY DEF VerifyProvider, Start
<1>3. CASE Step
  <2>1. ~Begin /\ ~ReadManifest /\ ~ReadStatus /\ ~CopyState /\ ~CopySidecars
    BY DEF Begin, ReadManifest, ReadStatus, CopyState, CopySidecars
  <2>2. ~\E m \in Mutations : Mutate(m) \/ RollBack(m) \/ Restore(m)
    BY DEF Mutate, RollBack, Restore
  <2>3. ~\E turn \in BOOLEAN, outcome \in {"denied", "escaped", "none"} : Canary(turn, outcome)
    BY DEF Canary
  <2> QED
    BY <1>3, <2>1, <2>2, <2>3 DEF Step
<1>4. CASE Fault
  <2>1. ~WriteFails /\ ~\E m \in Mutations : RollBackFails(m)
    BY DEF WriteFails, RollBackFails
  <2> QED
    BY <1>4, <2>1 DEF Fault
<1>5. ~World
  BY DEF World, Edit, Turn, Grant, Upgrade, work
<1> QED
  BY <1>1, <1>2, <1>3, <1>4, <1>5

(* A command that could do all it planned left what it planned.            *)
LEMMA Committed ==
    ASSUME InstallerInv, pc = "apply", todo = {}, alone
    PROVE  /\ \A p \in Paths : disk[p] = After(p)
           /\ IF cmd = "uninstall" THEN AfterUninstall ELSE AfterSetup
           /\ ~lost /\ ~spoiled => Framed(disk["bridge"], disk["manifest"])
<1>1. /\ TypeOK /\ FilesSound /\ FramingSound
      /\ IF cmd = "uninstall" THEN AfterUninstall ELSE AfterSetup
  BY InTransaction DEF Transactions
<1>2. \A p \in Paths : disk[p] = After(p)
  BY <1>1 DEF FilesSound, Untouched, After
<1>3. "manifest" \in Paths
  BY PathFacts DEF Named
<1> QED
  BY <1>1, <1>2, <1>3 DEF FramingSound

LEMMA RolledBackTo ==
    ASSUME InstallerInv, pc = "rollback", todo = {}, alone, ~spoiled
    PROVE  disk = found
<1>1. FilesSound /\ DiskSound(disk) /\ DiskSound(found)
  BY InTransaction DEF Transactions, Shape, FilesSound
<1>2. \A p \in Paths : disk[p] = found[p] /\ Recovery(p) = found["recovery"][p]
  BY <1>1 DEF FilesSound, Untouched
<1>3. disk["recovery"] = found["recovery"]
  BY <1>1, <1>2 DEF DiskSound, Recovery
<1> QED
  BY <1>1, <1>2, <1>3 DEF DiskSound

(* A command that failed and could put back what it had copied leaves      *)
(* every file, and every recovery copy, as it found it.                    *)
THEOREM FailuresRestore == Spec => FailureRestores
<1>1. InstallerInv /\ [Next]_vars =>
        [pc = "rollback" /\ pc' = "idle" /\ last' = "failed" /\ alone /\ ~spoiled
            => disk' = found]_vars
  <2> SUFFICES ASSUME InstallerInv, Next, pc = "rollback", pc' = "idle",
                      last' = "failed", alone, ~spoiled
               PROVE  disk' = found
    OBVIOUS
  <2>2. RolledBack
    BY EndOfCommand DEF Commit, Killed, RestoreFails, Judge, VerifyStops
  <2> QED
    BY <2>2, RolledBackTo DEF RolledBack
<1> QED
  BY <1>1, InstallerInvariant, PTL DEF Spec, FailureRestores

(* A command during which nothing else happens ends with the Task, the     *)
(* lease and the sidecars it found, whether it succeeds, fails or finds    *)
(* the provider untrusted.                                                 *)
THEOREM TasksSurvive == Spec => TaskSurvives
<1> DEFINE Same == /\ disk'["state"].turn = found["state"].turn
                   /\ disk'["state"].lease = found["state"].lease
                   /\ disk'["sidecar"] = found["sidecar"]
<1>1. InstallerInv /\ [Next]_vars =>
        [/\ pc # "idle" /\ pc' = "idle" /\ last' # "killed" /\ alone /\ ~spoiled'
         /\ cmd # "uninstall" /\ found["state"] \notin Bad
         => Same]_vars
  <2> SUFFICES ASSUME InstallerInv, Next, pc # "idle", pc' = "idle", last' # "killed",
                      alone, ~spoiled', cmd # "uninstall", found["state"] \notin Bad
               PROVE  Same
    OBVIOUS
  <2>2. Commit \/ RolledBack \/ Judge \/ VerifyStops
    BY EndOfCommand DEF Killed, RestoreFails
  <2>3. {"state", "sidecar"} \subseteq Paths
    BY PathFacts DEF Named
  <2>4. CASE Commit
    <3>1. /\ disk' = disk /\ AfterSetup
          /\ disk["state"] = After("state") /\ disk["sidecar"] = After("sidecar")
      BY <2>3, <2>4, Committed DEF Commit
    <3> QED
      BY <3>1 DEF AfterSetup
  <2>5. CASE RolledBack
    BY <2>5, RolledBackTo DEF RolledBack
  <2>6. CASE Judge
    <3>1. /\ VerificationSound /\ pc = "judge" /\ DiskSound(disk)
      BY <2>6 DEF InstallerInv, Verifications, Reading, Judge, Shape
    <3>2. disk["state"] = found["state"] /\ disk["sidecar"] = found["sidecar"]
      BY <3>1 DEF VerificationSound, Reading
    <3>3. disk'["state"] = disk["state"] /\ disk'["sidecar"] = disk["sidecar"]
      <4>1. \/ UNCHANGED disk
            \/ disk' = [disk EXCEPT !["status"] =
                           [seen.status EXCEPT !.verified = seen.manifest,
                                               !.private = TRUE, !.bound = TRUE]]
        BY <2>6 DEF Judge
      <4> QED
        BY <2>3, <3>1, <4>1 DEF DiskSound
    <3> QED
      BY <3>2, <3>3
  <2>7. CASE VerifyStops
    <3>1. pc \in Reading /\ disk' = disk /\ VerificationSound
      BY <2>7 DEF VerifyStops, InstallerInv, Verifications, Reading
    <3> QED
      BY <3>1 DEF VerificationSound, Reading
  <2> QED
    BY <2>2, <2>4, <2>5, <2>6, <2>7
<1> QED
  BY <1>1, InstallerInvariant, PTL DEF Spec, TaskSurvives

(* Uninstall, undisturbed, removes every file of the installer's own, the  *)
(* host state, the registered Evidence and the manifest, and leaves the    *)
(* seeded files, the recovery copies, the user's entries of the hook file  *)
(* and the user's text in the instruction file: with its bytes, as long as *)
(* no command was killed, no manifest lost and every rollback complete.    *)
THEOREM UninstallsAreExact == Spec => UninstallIsExact
<1> DEFINE
      Exact ==
        LET manifest == found["manifest"]
            text == found["bridge"].text
            other == found["hooks"].other
        IN  /\ \A p \in Owned \cup StatePaths \cup {"manifest"} : disk'[p] = None
            /\ disk'["seed"] = found["seed"] /\ disk'["recovery"] = found["recovery"]
            /\ disk'["hooks"] = IF manifest.hooksCreated /\ other = Blank THEN None
                                ELSE [other |-> other, ours |-> [i \in HookIds |-> None]]
            /\ disk'["bridge"] = None => manifest.created /\ text = Blank
            /\ disk'["bridge"] # None => /\ disk'["bridge"].block = None
                                         /\ disk'["bridge"].text = text
            /\ ~lost /\ ~spoiled =>
                  disk'["bridge"] = IF manifest.created /\ text = Blank THEN None
                                    ELSE [text |-> text, block |-> None, frame |-> 0]
<1>1. InstallerInv /\ [Next]_vars =>
        [pc = "apply" /\ pc' = "idle" /\ last' = "ok" /\ cmd = "uninstall" /\ alone => Exact]_vars
  <2> SUFFICES ASSUME InstallerInv, Next, pc = "apply", pc' = "idle", last' = "ok",
                      cmd = "uninstall", alone
               PROVE  Exact
    OBVIOUS
  <2>2. Commit
    BY EndOfCommand DEF RolledBack, Killed, RestoreFails, Judge, VerifyStops
  <2>3. todo = {} /\ disk' = disk
    BY <2>2 DEF Commit
  <2>4. /\ AfterUninstall /\ FilesSound /\ FramingSound /\ DiskSound(disk)
        /\ \A p \in Paths : disk[p] = After(p)
    BY <2>3, Committed, InTransaction DEF Transactions, Shape
  <2>5. Owned \cup StatePaths \cup {"bridge", "hooks", "seed", "manifest"} \subseteq Paths
    BY PathFacts DEF Paths, Named
  <2>6. disk["recovery"] = found["recovery"]
    <3>1. \A p \in Paths : Copies(p) = {}
      BY <2>4 DEF AfterUninstall, Copies
    <3>2. \A p \in Paths : Recovery(p) = found["recovery"][p]
      BY <2>3, <2>4, <3>1 DEF FilesSound
    <3> QED
      BY <2>4, <3>2 DEF FilesSound, DiskSound, Recovery
  <2>7. ~lost /\ ~spoiled => Framed(found["bridge"], found["manifest"])
    BY <2>4 DEF FramingSound
  <2>8. /\ \A p \in Owned \cup StatePaths \cup {"manifest"} : disk[p] = None
        /\ disk["seed"] = After("seed") /\ disk["hooks"] = After("hooks")
        /\ disk["bridge"] = After("bridge")
    BY <2>4, <2>5 DEF AfterUninstall
  <2> QED
    BY <2>3, <2>4, <2>6, <2>7, <2>8 DEF AfterUninstall, HooksLeft, BridgeLeft
<1> QED
  BY <1>1, InstallerInvariant, PTL DEF Spec, UninstallIsExact

LEMMA SetupIsSound ==
    ASSUME InstallerInv, pc = "apply", todo = {}, alone, cmd # "uninstall"
    PROVE  /\ AuditIssues \subseteq {"status"}
           /\ "status" \in AuditIssues =>
                 \/ disk["status"].broker \in Releases \ {release}
                 \/ ~found["status"].bound /\ ~found["status"].private
           /\ IsRefused(UninstallPlan) => \/ FramingDrift
                                          \/ Unsafe \in {found["sidecar"], found["evidence"]}
<1> DEFINE m == disk["manifest"]
<1>1. AfterSetup /\ \A p \in Paths : disk[p] = After(p)
  BY Committed
<1>2. Named \subseteq Paths /\ Owned \subseteq Paths /\ ContextBroker \in Owned
  BY PathFacts, InstallerAssumption
<1>3. /\ m \in Manifest /\ m.release = release
      /\ disk["bridge"] \in Bridge /\ disk["bridge"].block = release
      /\ disk["hooks"] \in Hooks /\ \A i \in HookIds : disk["hooks"].ours[i] = release
      /\ disk["seed"] # None /\ disk["state"] \in State /\ disk["status"] \in Status
      /\ \A p \in Owned : disk[p] = release
      /\ disk["sidecar"] = found["sidecar"] /\ disk["evidence"] = found["evidence"]
      /\ disk["status"].bound \/ (~found["status"].bound /\ ~found["status"].private)
  <2>1. /\ m = After("manifest") /\ disk["bridge"] = After("bridge")
        /\ disk["hooks"] = After("hooks") /\ disk["seed"] = After("seed")
        /\ disk["state"] = After("state") /\ disk["status"] = After("status")
        /\ disk["sidecar"] = After("sidecar") /\ disk["evidence"] = After("evidence")
        /\ \A p \in Owned : disk[p] = After(p)
    BY <1>1, <1>2 DEF Named
  <2> QED
    BY <1>1, <2>1 DEF AfterSetup
<1>4. /\ m \notin {None, Broken} /\ disk["bridge"] \notin {None, Unsafe}
      /\ disk["hooks"] \notin Bad /\ disk["state"] \notin Bad /\ disk["status"] \notin Bad
  BY <1>3, MarkAssumption DEF Bad
<1>5. ASSUME NEW p \in AuditIssues
      PROVE  p = "status" /\ (disk["status"].broker # release \/ ~disk["status"].bound)
  <2>1. p \in Paths
    BY <1>4 DEF AuditIssues
  <2>2. CASE p \in Owned
    <3>1. p \notin Named
      BY <2>2, PathFacts
    <3> QED
      BY <1>3, <1>4, <1>5, <2>2, <3>1 DEF AuditIssues, Named
  <2>3. CASE p \in Named
    BY <1>2, <1>3, <1>4, <1>5, <2>3 DEF AuditIssues, Named
  <2> QED
    BY <2>1, <2>2, <2>3, PathFacts
<1>6. disk["status"].broker \in Releases
  BY <1>3 DEF Status
<1>7. ~FramingDrift /\ Unsafe \notin {disk["sidecar"], disk["evidence"]}
        => ~IsRefused(UninstallPlan)
  <2> SUFFICES ASSUME ~FramingDrift, disk["sidecar"] # Unsafe, disk["evidence"] # Unsafe,
                      NEW p \in Paths
               PROVE  ~UninstallPlan[p].conflict
    BY DEF IsRefused
  <2>1. ~BridgeRemoval(m).conflict
    <3>1. BridgeRemoval(m).conflict = FALSE
      BY <1>3, <1>4 DEF BridgeRemoval, Replace, FramingDrift
    <3> QED
      BY <3>1
  <2>2. ~HooksRemoval(m).conflict
    BY <1>3, <1>4 DEF HooksRemoval, Replace
  <2>3. \A q, c : ~Replace(c).conflict /\ ~Keep(q).conflict
    BY DEF Replace, Keep
  <2>4. CASE p \in Named
    BY <1>2, <1>4, <2>1, <2>2, <2>3, <2>4 DEF UninstallPlan, Named
  <2>5. CASE p \in Owned
    <3>1. p \notin Named
      BY <2>5, PathFacts
    <3> QED
      BY <1>3, <1>4, <2>3, <2>5, <3>1 DEF UninstallPlan, Named
  <2> QED
    BY <2>4, <2>5, PathFacts
<1> QED
  BY <1>3, <1>5, <1>6, <1>7

(* An install or repair that ends well, undisturbed, leaves what audit     *)
(* accepts but for an outdated broker digest, or a status that named no    *)
(* provider and had a wrong mode, and what uninstall accepts unless the    *)
(* line breaks around the block had been edited away or a directory is in  *)
(* the place of a sidecar or of the registered Evidence.                   *)
THEOREM CommitsAreSound == Spec => CommitIsSound
<1> DEFINE Sound == /\ AuditIssues' \subseteq {"status"}
                    /\ "status" \in AuditIssues' =>
                          \/ disk'["status"].broker \in Releases \ {release}
                          \/ ~found["status"].bound /\ ~found["status"].private
                    /\ IsRefused(UninstallPlan') =>
                          FramingDrift' \/ Unsafe \in {found["sidecar"], found["evidence"]}
<1>1. InstallerInv /\ [Next]_vars =>
        [pc = "apply" /\ pc' = "idle" /\ last' = "ok" /\ cmd # "uninstall" /\ alone => Sound]_vars
  <2> SUFFICES ASSUME InstallerInv, Next, pc = "apply", pc' = "idle", last' = "ok",
                      cmd # "uninstall", alone
               PROVE  Sound
    OBVIOUS
  <2>2. Commit
    BY EndOfCommand DEF RolledBack, Killed, RestoreFails, Judge, VerifyStops
  <2>3. todo = {} /\ disk' = disk
    BY <2>2 DEF Commit
  <2>4. AuditIssues' = AuditIssues /\ (FramingDrift' <=> FramingDrift)
    BY <2>3 DEF AuditIssues, FramingDrift
  <2>5. UninstallPlan' = UninstallPlan
    BY <2>3 DEF UninstallPlan, BridgeRemoval, HooksRemoval, Conflict, Keep, Replace
  <2> QED
    BY <2>3, <2>4, <2>5, SetupIsSound
<1> QED
  BY <1>1, InstallerInvariant, PTL DEF Spec, CommitIsSound
=============================================================================
