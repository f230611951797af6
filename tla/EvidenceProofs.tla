---------------------------- MODULE EvidenceProofs ----------------------------
(***************************************************************************)
(* Theorems about dependency Evidence, for any number of packages, files,  *)
(* documents, calls, changes and deaths.                                   *)
(***************************************************************************)
EXTENDS DependencyEvidence, TLAPS

-----------------------------------------------------------------------------
(* The inductive invariant: what the broker knows at each of its steps.    *)

(* While it registers: a document of the accepted kind, whose text is      *)
(* there before its metadata.                                              *)
RegisteringSound ==
    /\ broker.pc = "fetch" =>
        /\ broker = [pc |-> "fetch", package |-> broker.package, question |-> broker.question]
        /\ broker.package \in Packages /\ broker.question \in Questions
    /\ broker.pc \in {"body", "metadata"} =>
        /\ broker = [pc |-> broker.pc, document |-> broker.document]
        /\ broker.document \in Document
    /\ broker.pc = "metadata" => broker.document \in bodies

(* While it handles a request: what it has captured of the claim's files   *)
(* is what is still there until it is checked, unless somebody has changed *)
(* the file.                                                               *)
Captured == broker.captured
CaptureSound ==
    /\ broker = [pc |-> broker.pc, request |-> broker.request, captured |-> Captured,
                 disturbed |-> broker.disturbed]
    /\ broker.request \in Request /\ broker.request.official \subseteq metas
    /\ DOMAIN Captured \subseteq broker.request.files
    /\ broker.pc # "capture" => DOMAIN Captured = broker.request.files
    /\ \A f \in DOMAIN Captured : Captured[f] \in ContentOf(f)
    /\ \A f \in Files : Unchecked(f) /\ f \notin broker.disturbed => Captured[f] = tree[f]
    /\ broker.disturbed \subseteq Files
    /\ dep # None /\ lease = None

(* What the validated part of a claim says of the captured files.          *)
ClaimSound ==
    LET c == broker.request.claim
    IN  /\ broker.pc \in {"package", "native", "official", "issue"} =>
            /\ ClaimIsBound(broker.request)
            /\ c.metadata \notin broker.disturbed => MetadataHolds(c, Captured[c.metadata])
        /\ broker.pc \in {"native", "official", "issue"} => IsBelowPackage(c)
        /\ broker.pc \in {"official", "issue"} /\ c.native \notin broker.disturbed =>
            NativeHolds(c, Captured[c.native])
        /\ broker.pc = "issue" => \A d \in broker.request.official : DocumentHolds(c, d)

(* What a lease has been validated against.                                *)
LeaseSound ==
    lease # None =>
        /\ lease.claim.metadata \in DOMAIN lease.evidence
        /\ lease.claim.native \in DOMAIN lease.evidence
        /\ IsBelowPackage(lease.claim)
        /\ lease.claim.metadata \notin lease.disturbed =>
            MetadataHolds(lease.claim, lease.evidence[lease.claim.metadata])
        /\ lease.claim.native \notin lease.disturbed =>
            NativeHolds(lease.claim, lease.evidence[lease.claim.native])

EvidenceInv ==
    /\ TypeOK
    /\ hook = "waiting" => task < MaxTurns
    /\ RegisteringSound
    /\ broker.pc \in Requesting => CaptureSound /\ ClaimSound
    /\ RegisteredIsReadable /\ OfficialBelongs /\ LeaseSound

-----------------------------------------------------------------------------
(* Every step keeps it.                                                    *)

LEMMA InitSound == Init => EvidenceInv
<1> SUFFICES ASSUME Init PROVE EvidenceInv
  OBVIOUS
<1>1. \A f \in Files : tree[f] \in ContentOf(f)
  BY DEF Init, Files, ContentOf
<1>2. TypeOK
  BY <1>1, EvidenceAssumption DEF Init, TypeOK, Idle, Registering, Requesting
<1> QED
  BY <1>2 DEF Init, EvidenceInv, RegisteringSound, Idle, Requesting, Registering,
     RegisteredIsReadable, OfficialBelongs, LeaseSound

(* A step that changes none of what the invariant is about.                *)
LEMMA QuietSound ==
    ASSUME EvidenceInv, UNCHANGED <<task, dep, lease, bodies, metas, tree, broker>>,
           hook' \in {"idle", "waiting"}, hook' = "waiting" => task < MaxTurns
    PROVE  EvidenceInv'
<1>1. TypeOK'
  BY DEF EvidenceInv, TypeOK, ContentOf
<1>2. /\ RegisteringSound' /\ RegisteredIsReadable' /\ OfficialBelongs' /\ LeaseSound'
  BY DEF EvidenceInv, RegisteringSound, RegisteredIsReadable, OfficialBelongs, LeaseSound,
     MetadataHolds, NativeHolds, SamePackage, IsBelowPackage
<1>3. ASSUME broker'.pc \in Requesting PROVE CaptureSound'
  BY <1>3 DEF EvidenceInv, CaptureSound, Captured, ContentOf, Unchecked
<1>4. ASSUME broker'.pc \in Requesting PROVE ClaimSound'
  BY <1>4 DEF EvidenceInv, ClaimSound, Captured, ClaimIsBound, MetadataHolds, NativeHolds,
     SamePackage, DocumentHolds, IsBelowPackage
<1> QED
  BY <1>1, <1>2, <1>3, <1>4 DEF EvidenceInv

(* The prompt hook, and acceptance: they take the lock, so no broker is    *)
(* on its way.                                                             *)
LEMMA PromptSound ==
    ASSUME EvidenceInv,
           Prompt \/ Record \/ HookTimesOut \/ \E d \in Dependency : Accept(d)
    PROVE  EvidenceInv'
<1>1. CASE Prompt \/ HookTimesOut
  BY <1>1, QuietSound DEF EvidenceInv, Prompt, HookTimesOut, bounds
<1>2. CASE Record \/ \E d \in Dependency : Accept(d)
  <2>1. /\ broker.pc = "idle" /\ UNCHANGED <<bodies, metas, tree, broker>>
        /\ lease' = None /\ dep' \in Dependency \cup {None}
    BY <1>2 DEF Record, Accept, Call, LockFree, bounds
  <2>2. /\ task' \in 0..MaxTurns /\ hook' \in {"idle", "waiting"}
        /\ hook' = "waiting" => task' < MaxTurns
    BY <1>2, EvidenceAssumption DEF Record, Accept, EvidenceInv, TypeOK
  <2> QED
    BY <2>1, <2>2 DEF EvidenceInv, TypeOK, RegisteringSound, RegisteredIsReadable,
       OfficialBelongs, LeaseSound, Registering, Requesting, ContentOf
<1> QED
  BY <1>1, <1>2

(* A step of the broker leaves the prompt hook and the files alone.        *)
LEMMA RegisterSound ==
    ASSUME EvidenceInv,
           \/ \E p \in Packages, q \in Questions, url \in Urls : Register(p, q, url)
           \/ (\E text \in Texts : Fetched(text)) \/ WriteBody \/ WriteMetadata
    PROVE  EvidenceInv'
<1>1. /\ UNCHANGED <<task, dep, lease, tree, hook>>
      /\ bodies \subseteq bodies' /\ metas \subseteq metas'
  BY DEF Register, Fetched, WriteBody, WriteMetadata, bounds
<1>2. /\ bodies' \subseteq Document /\ metas' \subseteq bodies'
  BY DEF Register, Fetched, WriteBody, WriteMetadata, EvidenceInv, TypeOK, RegisteringSound,
     RegisteredIsReadable
<1>3. broker'.pc \in {"idle"} \cup Registering /\ broker'.pc \notin Requesting
  BY DEF Register, Fetched, WriteBody, WriteMetadata, Idle, Registering, Requesting,
     EvidenceInv, RegisteringSound
<1>4. RegisteringSound'
  BY DEF Register, Fetched, WriteBody, WriteMetadata, Idle, EvidenceInv, RegisteringSound,
     Document
<1> QED
  BY <1>1, <1>2, <1>3, <1>4 DEF EvidenceInv, TypeOK, RegisteredIsReadable, OfficialBelongs,
     LeaseSound, ContentOf, MetadataHolds, NativeHolds, SamePackage, IsBelowPackage

(* The rest of the invariant, for steps of a request: only the broker, and *)
(* at the end the lease, change.                                           *)
LEMMA RequestStep ==
    ASSUME EvidenceInv, UNCHANGED <<task, dep, bodies, metas, tree, hook>>,
           broker'.pc \in {"idle"} \cup Requesting,
           broker'.pc \in Requesting => CaptureSound' /\ ClaimSound',
           UNCHANGED lease
    PROVE  EvidenceInv'
<1>1. RegisteringSound'
  BY DEF RegisteringSound, Requesting
<1>2. broker'.pc \in Requesting => broker'.request \in Request
  BY DEF CaptureSound
<1> QED
  BY <1>1, <1>2 DEF EvidenceInv, TypeOK, RegisteredIsReadable, OfficialBelongs, LeaseSound,
     ContentOf, MetadataHolds, NativeHolds, SamePackage, IsBelowPackage

(* The broker dies or refuses the request.                                 *)
LEMMA EndSound ==
    ASSUME EvidenceInv, UNCHANGED <<task, dep, lease, bodies, metas, tree, hook>>,
           broker' = Idle
    PROVE  EvidenceInv'
  BY RequestStep DEF Idle, Requesting

LEMMA StartSound ==
    ASSUME EvidenceInv, NEW c \in Claims, NEW fs \in SUBSET Files, NEW ds \in SUBSET metas,
           StartRequest([claim |-> c, files |-> fs, official |-> ds])
    PROVE  EvidenceInv'
<1> DEFINE r == [claim |-> c, files |-> fs, official |-> ds]
<1>1. r \in Request /\ r.official \subseteq metas
  BY EvidenceAssumption DEF EvidenceInv, TypeOK, Request
<1> HIDE DEF r
<1>2. /\ UNCHANGED <<task, dep, lease, bodies, metas, tree, hook>>
      /\ dep # None /\ lease = None
      /\ broker' = [pc |-> "capture", request |-> r, captured |-> << >>, disturbed |-> {}]
  BY DEF StartRequest, r
<1>3. DOMAIN broker'.captured = {}
  BY <1>2
<1>4. CaptureSound' /\ ClaimSound'
  BY <1>1, <1>2, <1>3 DEF CaptureSound, ClaimSound, Captured, Unchecked
<1> QED
  BY <1>2, <1>4, RequestStep DEF Requesting

LEMMA CaptureIsSound ==
    ASSUME EvidenceInv, NEW f \in Files, Capture(f)
    PROVE  EvidenceInv'
<1>1. /\ broker.pc = "capture" /\ CaptureSound
      /\ f \in broker.request.files \ DOMAIN Captured
      /\ UNCHANGED <<task, dep, lease, bodies, metas, tree, hook>>
  BY DEF Capture, EvidenceInv, Requesting, Captured, bounds
<1>2. CASE tree[f] = None
  BY <1>1, <1>2, EndSound DEF Capture
<1>3. CASE tree[f] # None
  <2> DEFINE done == DOMAIN Captured \cup {f}
             captured == [g \in done |-> IF g = f THEN tree[f] ELSE Captured[g]]
             pc == IF done = broker.request.files THEN "validate" ELSE "capture"
  <2>1. broker' = [broker EXCEPT !.captured = captured, !.pc = pc]
    BY <1>1, <1>3 DEF Capture, Captured
  <2>2. broker' = [pc |-> pc, request |-> broker.request, captured |-> captured,
                   disturbed |-> broker.disturbed]
    BY <1>1, <2>1 DEF CaptureSound
  <2>3. \A g \in done : captured[g] \in ContentOf(g)
    BY <1>1 DEF CaptureSound, EvidenceInv, TypeOK
  <2>4. ASSUME NEW g \in Files, Unchecked(g)', g \notin broker.disturbed
        PROVE  captured[g] = tree[g]
    <3>1. g \in done /\ g \in {broker.request.claim.metadata, broker.request.claim.native}
      BY <2>2, <2>4 DEF Unchecked
    <3>2. CASE g # f
      <4>1. Unchecked(g)
        BY <1>1, <3>1, <3>2 DEF Unchecked, Captured, Requesting
      <4> QED
        BY <1>1, <2>4, <3>1, <3>2, <4>1 DEF CaptureSound
    <3>3. CASE g = f
      BY <3>1, <3>3
    <3> QED
      BY <3>2, <3>3
  <2>5. done \subseteq broker.request.files /\ pc \in {"validate", "capture"}
        /\ (pc # "capture" => done = broker.request.files) /\ DOMAIN captured = done
    BY <1>1 DEF CaptureSound
  <2> HIDE DEF done, captured, pc
  <2>6. Captured' = captured
    BY <2>2 DEF Captured
  <2>7. CaptureSound'
    BY <1>1, <2>2, <2>3, <2>4, <2>5, <2>6 DEF CaptureSound, ContentOf
  <2>8. ClaimSound'
    BY <2>2, <2>5 DEF ClaimSound
  <2> QED
    BY <1>1, <2>2, <2>5, <2>7, <2>8, RequestStep DEF Requesting
<1> QED
  BY <1>2, <1>3

(* One part of the claim has been validated: the broker goes on to pc.     *)
LEMMA GoesOn ==
    ASSUME EvidenceInv, broker.pc \in Requesting \ {"capture"},
           NEW pc \in Requesting \ {"capture"}, broker' = [broker EXCEPT !.pc = pc],
           \/ broker.pc = "validate" /\ pc = "package"
           \/ broker.pc = "package" /\ pc = "native"
           \/ broker.pc = "native" /\ pc = "official"
           \/ broker.pc = "official" /\ pc = "issue",
           UNCHANGED <<task, dep, lease, bodies, metas, tree, hook>>
    PROVE  /\ broker' = [pc |-> pc, request |-> broker.request, captured |-> Captured,
                         disturbed |-> broker.disturbed]
           /\ CaptureSound'
           /\ ClaimSound' => EvidenceInv'
<1>1. broker' = [pc |-> pc, request |-> broker.request, captured |-> Captured,
                 disturbed |-> broker.disturbed]
  BY DEF EvidenceInv, CaptureSound
<1>2. Captured' = Captured
  BY <1>1 DEF Captured
<1>3. \A f : Unchecked(f)' => Unchecked(f)
  BY <1>1 DEF Unchecked, Captured, Requesting
<1>4. CaptureSound'
  BY <1>1, <1>2, <1>3 DEF EvidenceInv, CaptureSound, ContentOf
<1> QED
  BY <1>1, <1>4, RequestStep

LEMMA ValidationIsSound ==
    ASSUME EvidenceInv,
           ValidateMetadata \/ ValidatePackage \/ ValidateNative \/ ValidateOfficial
    PROVE  EvidenceInv'
<1> DEFINE c == broker.request.claim
<1>1. /\ broker.pc \in Requesting \ {"capture"}
      /\ UNCHANGED <<task, dep, lease, bodies, metas, tree, hook>>
  BY DEF ValidateMetadata, ValidatePackage, ValidateNative, ValidateOfficial, Requesting, bounds
<1>2. CaptureSound /\ ClaimSound
  BY <1>1 DEF EvidenceInv
<1>3. CASE broker' = Idle
  BY <1>1, <1>3, EndSound
<1>4. CASE ValidateMetadata /\ broker' # Idle
  <2>1. /\ ClaimIsBound(broker.request) /\ MetadataHolds(c, tree[c.metadata])
        /\ broker.pc = "validate" /\ broker' = [broker EXCEPT !.pc = "package"]
    BY <1>4 DEF ValidateMetadata
  <2>2. c.metadata \notin broker.disturbed => MetadataHolds(c, Captured[c.metadata])
    <3>1. c.metadata \in Files /\ c.metadata \in DOMAIN broker.captured
      BY <1>2, <2>1 DEF CaptureSound, ClaimIsBound, Request, Captured
    <3>2. Unchecked(c.metadata)
      BY <2>1, <3>1 DEF Unchecked, Requesting
    <3> QED
      BY <1>2, <2>1, <3>1, <3>2 DEF CaptureSound
  <2>3. /\ broker'.pc = "package" /\ broker'.request = broker.request /\ Captured' = Captured
        /\ broker'.disturbed = broker.disturbed /\ UNCHANGED dep
    BY <1>1, <2>1, GoesOn DEF Requesting, Captured
  <2>4. ClaimSound'
    BY <2>1, <2>2, <2>3 DEF ClaimSound, ClaimIsBound, SamePackage, MetadataHolds
  <2> QED
    BY <1>1, <2>1, <2>4, GoesOn DEF Requesting
<1>5. CASE ValidatePackage /\ broker' # Idle
  <2>1. /\ IsBelowPackage(c)
        /\ broker.pc = "package" /\ broker' = [broker EXCEPT !.pc = "native"]
    BY <1>5 DEF ValidatePackage, SameInstalledPackage
  <2>2. /\ broker'.pc = "native" /\ broker'.request = broker.request /\ Captured' = Captured
        /\ broker'.disturbed = broker.disturbed /\ UNCHANGED dep
    BY <1>1, <2>1, GoesOn DEF Requesting, Captured
  <2>3. ClaimSound'
    BY <1>2, <2>1, <2>2 DEF ClaimSound, ClaimIsBound, SamePackage, MetadataHolds, IsBelowPackage
  <2> QED
    BY <1>1, <2>1, <2>3, GoesOn DEF Requesting
<1>6. CASE ValidateNative /\ broker' # Idle
  <2>1. /\ NativeHolds(c, tree[c.native])
        /\ broker.pc = "native" /\ broker' = [broker EXCEPT !.pc = "official"]
    BY <1>6 DEF ValidateNative
  <2>2. c.native \notin broker.disturbed => NativeHolds(c, Captured[c.native])
    <3>1. c.native \in Files /\ c.native \in DOMAIN broker.captured
      BY <1>2, <2>1 DEF CaptureSound, ClaimSound, ClaimIsBound, Request, Captured
    <3>2. Unchecked(c.native)
      BY <2>1, <3>1 DEF Unchecked, Requesting
    <3> QED
      BY <1>2, <2>1, <3>1, <3>2 DEF CaptureSound
  <2>3. /\ broker'.pc = "official" /\ broker'.request = broker.request /\ Captured' = Captured
        /\ broker'.disturbed = broker.disturbed /\ UNCHANGED dep
    BY <1>1, <2>1, GoesOn DEF Requesting, Captured
  <2>4. ClaimSound'
    BY <1>2, <2>1, <2>2, <2>3 DEF ClaimSound, ClaimIsBound, SamePackage, MetadataHolds,
       NativeHolds, IsBelowPackage
  <2> QED
    BY <1>1, <2>1, <2>4, GoesOn DEF Requesting
<1>7. CASE ValidateOfficial /\ broker' # Idle
  <2>1. /\ \A d \in broker.request.official : DocumentHolds(c, d)
        /\ broker.pc = "official" /\ broker' = [broker EXCEPT !.pc = "issue"]
    BY <1>7 DEF ValidateOfficial
  <2>2. ClaimSound'
    BY <1>1, <1>2, <2>1, GoesOn DEF ClaimSound, Requesting, Captured, ClaimIsBound,
       SamePackage, MetadataHolds, NativeHolds, DocumentHolds, IsBelowPackage
  <2> QED
    BY <1>1, <2>1, <2>2, GoesOn DEF Requesting
<1> QED
  BY <1>3, <1>4, <1>6, <1>7, <1>5

(* The lease takes over what its request was validated against.            *)
LEMMA IssueIsSound ==
    ASSUME EvidenceInv, Issue
    PROVE  EvidenceInv'
<1> DEFINE r == broker.request
           new == [task |-> task, claim |-> r.claim, evidence |-> Captured,
                   official |-> r.official, disturbed |-> broker.disturbed]
<1>1. /\ broker.pc = "issue" /\ CaptureSound /\ ClaimSound
      /\ lease' \in {None, new} /\ broker' = Idle
      /\ UNCHANGED <<task, dep, bodies, metas, tree, hook>>
  BY DEF Issue, EvidenceInv, Requesting, bounds, Captured
<1>2. CASE lease' = None
  BY <1>1, <1>2, EndSound DEF CaptureSound
<1>3. CASE lease' = new
  <2>1. /\ r \in Request /\ r.official \subseteq metas /\ dep # None /\ ClaimIsBound(r)
        /\ DOMAIN Captured = r.files
        /\ \A f \in DOMAIN Captured : Captured[f] \in ContentOf(f)
        /\ \A d \in r.official : DocumentHolds(r.claim, d)
        /\ broker.disturbed \subseteq Files
    BY <1>1 DEF CaptureSound, ClaimSound
  <2>2. OfficialBelongs'
    BY <1>1, <1>3, <2>1 DEF OfficialBelongs, ClaimIsBound, DocumentHolds, SamePackage
  <2>3. LeaseSound'
    BY <1>1, <1>3, <2>1 DEF LeaseSound, ClaimSound, ClaimIsBound, MetadataHolds, NativeHolds,
       SamePackage, IsBelowPackage
  <2>4. lease'.task \in Nat /\ lease'.claim \in Claim /\ lease'.official \subseteq Document
        /\ lease'.disturbed \subseteq Files
        /\ \A f \in DOMAIN lease'.evidence : lease'.evidence[f] \in ContentOf(f)
    BY <1>3, <2>1, EvidenceAssumption DEF EvidenceInv, TypeOK, Request
  <2>5. TypeOK' /\ RegisteringSound'
    BY <1>1, <2>4 DEF EvidenceInv, TypeOK, RegisteringSound, Idle, Registering, Requesting,
       ContentOf
  <2> QED
    BY <1>1, <2>2, <2>3, <2>5 DEF EvidenceInv, RegisteredIsReadable, Idle, Requesting
<1> QED
  BY <1>1, <1>2, <1>3

(* A package manager changes a file: a request that is yet to check what   *)
(* it has digested remembers it.                                           *)
LEMMA ChangeIsSound ==
    ASSUME EvidenceInv, NEW f \in Files, Change(f)
    PROVE  EvidenceInv'
<1>1. PICK content \in ContentOf(f) : tree' = [tree EXCEPT ![f] = content]
  BY DEF Change
<1>2. UNCHANGED <<task, dep, lease, bodies, metas, hook>>
  BY DEF Change
<1>3. \A g \in Files : tree'[g] \in ContentOf(g) /\ (g # f => tree'[g] = tree[g])
  BY <1>1 DEF EvidenceInv, TypeOK, Files
<1>4. CASE broker.pc \notin Requesting
  <2>1. broker' = broker
    BY <1>4 DEF Change, Unchecked
  <2> QED
    BY <1>2, <1>3, <1>4, <2>1 DEF EvidenceInv, TypeOK, RegisteringSound, RegisteredIsReadable,
       OfficialBelongs, LeaseSound, ContentOf, MetadataHolds, NativeHolds, SamePackage,
       IsBelowPackage
<1>5. CASE broker.pc \in Requesting
  <2> DEFINE marked == IF Unchecked(f) THEN broker.disturbed \cup {f} ELSE broker.disturbed
  <2>1. CaptureSound /\ ClaimSound
    BY <1>5 DEF EvidenceInv
  <2>2. broker' = [pc |-> broker.pc, request |-> broker.request, captured |-> Captured,
                   disturbed |-> marked]
    <3>1. broker = [pc |-> broker.pc, request |-> broker.request, captured |-> Captured,
                    disturbed |-> broker.disturbed]
      BY <2>1 DEF CaptureSound
    <3>2. CASE Unchecked(f)
      BY <3>1, <3>2 DEF Change
    <3>3. CASE ~Unchecked(f)
      <4>1. broker' = broker
        BY <3>3 DEF Change
      <4> QED
        BY <3>1, <3>3, <4>1
    <3> QED
      BY <3>2, <3>3
  <2>3. /\ broker.disturbed \subseteq marked /\ marked \subseteq Files
        /\ Unchecked(f) => f \in marked
    BY <2>1 DEF CaptureSound
  <2> HIDE DEF marked
  <2>4. Captured' = Captured
    BY <2>2 DEF Captured
  <2>5. ASSUME NEW g \in Files, Unchecked(g)', g \notin marked
        PROVE  Captured[g] = tree'[g]
    <3>1. Unchecked(g)
      BY <2>2, <2>5 DEF Unchecked, Captured
    <3> QED
      BY <1>3, <2>1, <2>3, <2>5, <3>1 DEF CaptureSound
  <2>6. CaptureSound'
    <3>1. \A g \in Files : Unchecked(g)' /\ g \notin broker'.disturbed => Captured'[g] = tree'[g]
      BY <2>2, <2>4, <2>5
    <3>2. /\ broker'.pc = broker.pc /\ broker'.request = broker.request
          /\ broker'.captured = Captured /\ broker'.disturbed = marked
      BY <2>2
    <3> QED
      BY <1>2, <2>1, <2>2, <2>3, <2>4, <3>1, <3>2 DEF CaptureSound, ContentOf
  <2>7. ClaimSound'
    BY <1>2, <2>1, <2>2, <2>3, <2>4 DEF ClaimSound, ClaimIsBound, SamePackage, MetadataHolds,
       NativeHolds, DocumentHolds, IsBelowPackage
  <2>8. RegisteringSound'
    BY <1>5, <2>2 DEF RegisteringSound, Requesting
  <2>9. TypeOK'
    BY <1>2, <1>3, <1>5, <2>2, <2>6 DEF EvidenceInv, TypeOK, CaptureSound, ContentOf
  <2> QED
    BY <1>2, <2>6, <2>7, <2>8, <2>9 DEF EvidenceInv, RegisteredIsReadable, OfficialBelongs,
       LeaseSound, MetadataHolds, NativeHolds, SamePackage, IsBelowPackage
<1> QED
  BY <1>4, <1>5

LEMMA EvidenceInductive == EvidenceInv /\ [Next]_vars => EvidenceInv'
<1> SUFFICES ASSUME EvidenceInv, [Next]_vars PROVE EvidenceInv'
  OBVIOUS
<1>1. CASE Prompt \/ Record \/ HookTimesOut \/ \E d \in Dependency : Accept(d)
  BY <1>1, PromptSound
<1>2. CASE \/ \E p \in Packages, q \in Questions, url \in Urls : Register(p, q, url)
           \/ (\E text \in Texts : Fetched(text)) \/ WriteBody \/ WriteMetadata
  BY <1>2, RegisterSound
<1>3. CASE \E d \in metas : ReadOfficial(d)
  BY <1>3, QuietSound DEF ReadOfficial, Call, EvidenceInv, TypeOK
<1>4. CASE \E c \in Claims, fs \in SUBSET Files, ds \in SUBSET metas :
              StartRequest([claim |-> c, files |-> fs, official |-> ds])
  BY <1>4, StartSound
<1>5. CASE \E f \in Files : Capture(f)
  BY <1>5, CaptureIsSound
<1>6. CASE ValidateMetadata \/ ValidatePackage \/ ValidateNative \/ ValidateOfficial
  BY <1>6, ValidationIsSound
<1>7. CASE Issue
  BY <1>7, IssueIsSound
<1>8. CASE BrokerDies
  BY <1>8, EndSound DEF BrokerDies
<1>9. CASE \E f \in Files : Change(f)
  BY <1>9, ChangeIsSound
<1>10. CASE UNCHANGED vars
  BY <1>10, QuietSound DEF vars, EvidenceInv, TypeOK
<1> QED
  BY <1>1, <1>2, <1>3, <1>4, <1>5, <1>6, <1>7, <1>8, <1>9, <1>10 DEF Next, BrokerStep

LEMMA EvidenceInvariant == Spec => []EvidenceInv
<1> QED
  BY InitSound, EvidenceInductive, PTL DEF Spec

-----------------------------------------------------------------------------
(* Theorems *)

(* Files, documents, requests and leases keep their shape, and a prompt    *)
(* that waits finds its turn within the bound.                             *)
THEOREM EvidenceTypes == Spec => []TypeOK
<1>1. EvidenceInv => TypeOK
  BY DEF EvidenceInv
<1> QED
  BY <1>1, EvidenceInvariant, PTL

(* No death of a registration and no later one leaves metadata without the *)
(* text it refers to (register_official_evidence writes the text first).   *)
THEOREM DocumentsAreReadable == Spec => []RegisteredIsReadable
<1>1. EvidenceInv => RegisteredIsReadable
  BY DEF EvidenceInv
<1> QED
  BY <1>1, EvidenceInvariant, PTL

(* Whatever was accepted and registered before, a lease's documents belong *)
(* to the package and question its contract asks about, by the ecosystem's *)
(* own idea of a name, although registration compares names more loosely.  *)
THEOREM DocumentsBelong == Spec => []OfficialBelongs
<1>1. EvidenceInv => OfficialBelongs
  BY DEF EvidenceInv
<1> QED
  BY <1>1, EvidenceInvariant, PTL

(* Digests are taken before the files are read again for the claim, yet    *)
(* what a lease attests of a file is true of the tree it attests it of,    *)
(* unless that file changed between the two and changed back.              *)
THEOREM AttestedClaimsAreTrue == Spec => []AttestedClaimIsTrue
<1>1. EvidenceInv => AttestedClaimIsTrue
  <2> SUFFICES ASSUME EvidenceInv, lease # None, Attested
               PROVE  LET c == lease.claim
                          installed == tree[c.metadata]
                      IN  /\ IsBelowPackage(c)
                          /\ c.metadata \notin lease.disturbed =>
                                  /\ SamePackage(installed.package, c.package)
                                  /\ installed.version = c.version
                          /\ c.native \notin lease.disturbed => c.symbol \in tree[c.native]
    BY DEF AttestedClaimIsTrue
  <2> QED
    BY DEF EvidenceInv, LeaseSound, Attested, MetadataHolds, NativeHolds
<1> QED
  BY <1>1, EvidenceInvariant, PTL
=============================================================================
