------------------------- MODULE DependencyEvidence -------------------------
(***************************************************************************)
(* Official documents and installed packages as Evidence for a lease:      *)
(* lease_lifecycle.py, register_official_evidence, official-read and the   *)
(* dependency part of request_write_lease.                                 *)
(*                                                                         *)
(* The lease broker holds gate-state.lock from its first read to its last  *)
(* write, through the download of a document and the reading of every      *)
(* Evidence file.  Package managers do not ask for that lock: installed    *)
(* files change between the digest of a file and the check of its content. *)
(* A prompt hook waits for the lock and is killed when it waits too long.  *)
(*                                                                         *)
(* The id of a document digests its package, question and text, and is     *)
(* modelled by the three.  Documents and metadata are kept as one file     *)
(* each; nobody but the broker writes them.                                *)
(***************************************************************************)
EXTENDS Integers, Sequences, FiniteSets, SequencesExt

CONSTANTS
    Packages,       \* names a package may be called by
    Normal,         \* _normalized_package_name, of packages and directories
    Ecosystem,      \* the ecosystem of the Project
    Questions,      \* hashes of accepted dependency questions
    Hosts,          \* research.official_source_hosts
    Urls,           \* documents: [host, secure]
    Texts,          \* what a server may answer; Oversized is one of them
    Oversized,      \* an answer that is empty, too long or not UTF-8
    Versions,       \* versions of a package
    Symbols,        \* public symbols
    Manifests, Metadata, Natives,   \* Evidence files, by their kind
    Locks,          \* what a manifest or lockfile may hold
    Location,       \* the path of an installed file, a sequence of names
    Site,           \* the site-packages directory of Python metadata
    Claims,         \* dependency claims a request may make
    MaxTurns,       \* bound: user turns
    MaxBroker,      \* bound: calls of the lease broker
    MaxChanges,     \* bound: changed files, killed and timed out processes
    None

Files == Manifests \cup Metadata \cup Natives

(* What is in an Evidence file, or None when it is missing: manifests are  *)
(* not looked into.  Metadata tells one package and its version (for go    *)
(* the version is in the path).                                            *)
Installed == [package : Packages, version : Versions]
ContentOf(f) ==
    {None} \cup (IF f \in Metadata THEN Installed
                 ELSE IF f \in Natives THEN SUBSET Symbols ELSE Locks)

Document == [package : Packages, question : Questions, text : Texts \ {Oversized}]
Dependency == [package : Packages, question : Questions]
Claim == [package : Packages, question : Questions, version : Versions, symbol : Symbols,
          metadata : Metadata, native : Natives]

ASSUME EvidenceAssumption ==
    /\ Claims \subseteq Claim
    /\ Ecosystem \in {"npm", "python", "rust", "go"}
    /\ MaxTurns \in Nat /\ MaxBroker \in Nat /\ MaxChanges \in Nat

VARIABLES
    task,       \* user turns recorded
    dep,        \* the accepted dependency question of the contract
    lease,      \* the lease in gate-state.json
    bodies, metas,  \* official-evidence: documents with a text, with metadata
    tree,       \* installed files and manifests
    broker,     \* the holder of the lock
    hook,       \* a prompt hook: "idle", "waiting"
    served, brokered, changes

vars == <<task, dep, lease, bodies, metas, tree, broker, hook, served, brokered, changes>>
bounds == <<brokered, changes>>

Idle == [pc |-> "idle"]
LockFree == broker.pc = "idle"
Registering == {"fetch", "body", "metadata"}
Requesting == {"capture", "validate", "package", "native", "official", "issue"}

Request == [claim : Claim, files : SUBSET Files, official : SUBSET Document]

TypeOK ==
    /\ task \in 0..MaxTurns /\ dep \in Dependency \cup {None}
    /\ lease # None => /\ lease.task \in Nat /\ lease.claim \in Claim
                       /\ \A f \in DOMAIN lease.evidence : lease.evidence[f] \in ContentOf(f)
                       /\ lease.official \subseteq Document /\ lease.disturbed \subseteq Files
    /\ bodies \subseteq Document /\ metas \subseteq Document
    /\ \A f \in Files : tree[f] \in ContentOf(f)
    /\ broker.pc \in {"idle"} \cup Registering \cup Requesting
    /\ broker.pc \in Requesting => broker.request \in Request
    /\ hook \in {"idle", "waiting"}

Init ==
    /\ task = 0 /\ dep = None /\ lease = None
    /\ bodies = {} /\ metas = {}
    /\ \E locks \in [Manifests -> Locks \cup {None}],
          packages \in [Metadata -> Installed \cup {None}],
          symbols \in [Natives -> {None} \cup SUBSET Symbols] :
            tree = [f \in Files |-> IF f \in Metadata THEN packages[f]
                                    ELSE IF f \in Natives THEN symbols[f] ELSE locks[f]]
    /\ broker = Idle /\ hook = "idle"
    /\ served = None /\ brokered = 0 /\ changes = 0

-----------------------------------------------------------------------------
(* Names *)

(* Mutant: names are compared alike in every ecosystem.                    *)
MutantSamePackage(a, b) == Normal[a] = Normal[b]

(* _same_package_name; no two names here differ in case only.              *)
SamePackage(a, b) == IF Ecosystem = "python" THEN Normal[a] = Normal[b] ELSE a = b

(* The registration and the reading of a document compare normalized.      *)
IsAsked(package, question) ==
    dep # None /\ Normal[package] = Normal[dep.package] /\ question = dep.question

(* Where the native file of a claim has to be: below the directory of the  *)
(* metadata; for Python, whose metadata is beside the package, below the   *)
(* site directory under a name that is the package's.                      *)
IsBelowPackage(claim) ==
    LET site == Site[claim.metadata]
        native == Location[claim.native]
    IN  IF Ecosystem # "python" THEN IsPrefix(Front(Location[claim.metadata]), native)
        ELSE /\ IsStrictPrefix(site, native)
             /\ Normal[native[Len(site) + 1]] = Normal[claim.package]

(* _same_installed_package, which reads the metadata once more.            *)
SameInstalledPackage(claim, content) ==
    content # None /\ SamePackage(content.package, claim.package) /\ IsBelowPackage(claim)

-----------------------------------------------------------------------------
(* The prompt hook and set-acceptance *)

Prompt == /\ hook = "idle" /\ task < MaxTurns
          /\ hook' = "waiting"
          /\ UNCHANGED <<task, dep, lease, bodies, metas, tree, broker, served, bounds>>

Record == /\ hook = "waiting" /\ LockFree
          /\ hook' = "idle" /\ task' = task + 1
          /\ dep' = None /\ lease' = None
          /\ UNCHANGED <<bodies, metas, tree, broker, served, bounds>>

(* The provider ends a hook that has waited 10 seconds for the lock; the   *)
(* turn goes on without it.                                                *)
HookTimesOut == /\ hook = "waiting" /\ ~LockFree
                /\ changes < MaxChanges /\ changes' = changes + 1
                /\ hook' = "idle"
                /\ UNCHANGED <<task, dep, lease, bodies, metas, tree, broker, served, brokered>>

Call == LockFree /\ brokered < MaxBroker /\ brokered' = brokered + 1

(* set-acceptance accepts a contract with a dependency question.           *)
Accept(d) ==
    /\ Call
    /\ dep' = d /\ lease' = None
    /\ UNCHANGED <<task, bodies, metas, tree, broker, hook, served, changes>>

-----------------------------------------------------------------------------
(* register-official *)

(* The URL is public HTTPS and its host allowlisted, and the question is   *)
(* the accepted one.                                                       *)
Register(package, question, url) ==
    /\ Call
    /\ url.secure /\ url.host \in Hosts
    /\ IsAsked(package, question)
    /\ broker' = [pc |-> "fetch", package |-> package, question |-> question]
    /\ UNCHANGED <<task, dep, lease, bodies, metas, tree, hook, served, changes>>

(* Mutant: the answer is kept whatever its size.                           *)
MutantFetched(text) ==
    /\ broker.pc = "fetch"
    /\ broker' = [pc |-> "body", document |->
                    [package |-> broker.package, question |-> broker.question, text |-> text]]
    /\ UNCHANGED <<task, dep, lease, bodies, metas, tree, hook, served, bounds>>

(* The server answers; a redirect, an error or an unusable answer ends it. *)
Fetched(text) ==
    /\ broker.pc = "fetch"
    /\ broker' = IF text = Oversized THEN Idle
                 ELSE [pc |-> "body", document |->
                         [package |-> broker.package, question |-> broker.question,
                          text |-> text]]
    /\ UNCHANGED <<task, dep, lease, bodies, metas, tree, hook, served, bounds>>

(* Mutant: the metadata is written before the text.                        *)
MutantWriteBody ==
    /\ broker.pc = "body"
    /\ metas' = metas \cup {broker.document}
    /\ broker' = [broker EXCEPT !.pc = "metadata"]
    /\ UNCHANGED <<task, dep, lease, bodies, tree, hook, served, bounds>>

WriteBody ==
    /\ broker.pc = "body"
    /\ bodies' = bodies \cup {broker.document}
    /\ broker' = [broker EXCEPT !.pc = "metadata"]
    /\ UNCHANGED <<task, dep, lease, metas, tree, hook, served, bounds>>

WriteMetadata ==
    /\ broker.pc = "metadata"
    /\ metas' = metas \cup {broker.document}
    /\ broker' = Idle
    /\ UNCHANGED <<task, dep, lease, bodies, tree, hook, served, bounds>>

(* official-read and official-search: a registered document whose text has *)
(* its recorded digest, for the question accepted now.                     *)
ReadOfficial(d) ==
    /\ Call
    /\ d \in metas /\ d \in bodies
    /\ IsAsked(d.package, d.question)
    /\ served' = d
    /\ UNCHANGED <<task, dep, lease, bodies, metas, tree, broker, hook, changes>>

-----------------------------------------------------------------------------
(* request, the dependency part *)

(* validate_dependency_evidence, what it checks of the request itself: the *)
(* claim is about the accepted package and question, and the Evidence has  *)
(* a manifest or lockfile, the metadata and the native file.               *)
ClaimIsBound(r) ==
    /\ SamePackage(r.claim.package, dep.package) /\ r.claim.question = dep.question
    /\ r.files \cap Manifests # {}
    /\ {r.claim.metadata, r.claim.native} \subseteq r.files

StartRequest(r) ==
    /\ Call
    /\ dep # None /\ lease = None
    /\ r.files # {} /\ r.official \subseteq metas
    /\ broker' = [pc |-> "capture", request |-> r, captured |-> << >>, disturbed |-> {}]
    /\ UNCHANGED <<task, dep, lease, bodies, metas, tree, hook, served, changes>>

(* Mutant: capture_evidence waits for a missing file instead of refusing.  *)
MutantCapture(f) ==
    /\ broker.pc = "capture"
    /\ f \in broker.request.files \ DOMAIN broker.captured
    /\ tree[f] # None
    /\ LET done == DOMAIN broker.captured \cup {f}
       IN  broker' = [broker EXCEPT
                        !.captured = [g \in done |-> IF g = f THEN tree[f] ELSE @[g]],
                        !.pc = IF done = broker.request.files THEN "validate" ELSE @]
    /\ UNCHANGED <<task, dep, lease, bodies, metas, tree, hook, served, bounds>>

(* capture_evidence digests the files one after the other.                 *)
Capture(f) ==
    /\ broker.pc = "capture"
    /\ f \in broker.request.files \ DOMAIN broker.captured
    /\ broker' = IF tree[f] = None THEN Idle
                 ELSE LET done == DOMAIN broker.captured \cup {f}
                      IN  [broker EXCEPT
                            !.captured = [g \in done |-> IF g = f THEN tree[f] ELSE @[g]],
                            !.pc = IF done = broker.request.files THEN "validate" ELSE @]
    /\ UNCHANGED <<task, dep, lease, bodies, metas, tree, hook, served, bounds>>

(* Then the claim is compared with the installed metadata ...              *)
MetadataHolds(c, content) ==
    content # None /\ SamePackage(content.package, c.package) /\ content.version = c.version
NativeHolds(c, content) == content # None /\ c.symbol \in content

(* Mutant: any version of the package will do.                             *)
MutantValidateMetadata ==
    /\ broker.pc = "validate"
    /\ LET c == broker.request.claim
       IN  broker' = IF ClaimIsBound(broker.request) /\ tree[c.metadata] # None
                        /\ SamePackage(tree[c.metadata].package, c.package)
                     THEN [broker EXCEPT !.pc = "package"] ELSE Idle
    /\ UNCHANGED <<task, dep, lease, bodies, metas, tree, hook, served, bounds>>

ValidateMetadata ==
    /\ broker.pc = "validate"
    /\ LET c == broker.request.claim
       IN  broker' = IF ClaimIsBound(broker.request) /\ MetadataHolds(c, tree[c.metadata])
                     THEN [broker EXCEPT !.pc = "package"] ELSE Idle
    /\ UNCHANGED <<task, dep, lease, bodies, metas, tree, hook, served, bounds>>

(* ... the place of the native file with the package ...                   *)
ValidatePackage ==
    /\ broker.pc = "package"
    /\ LET c == broker.request.claim
       IN  broker' = IF SameInstalledPackage(c, tree[c.metadata])
                     THEN [broker EXCEPT !.pc = "native"] ELSE Idle
    /\ UNCHANGED <<task, dep, lease, bodies, metas, tree, hook, served, bounds>>

(* ... its content with the symbol ...                                     *)
ValidateNative ==
    /\ broker.pc = "native"
    /\ LET c == broker.request.claim
       IN  broker' = IF NativeHolds(c, tree[c.native])
                     THEN [broker EXCEPT !.pc = "official"] ELSE Idle
    /\ UNCHANGED <<task, dep, lease, bodies, metas, tree, hook, served, bounds>>

(* ... and the claim with every official document.                         *)
(* Mutant: a document about another question will do.                      *)
MutantDocumentHolds(c, d) ==
    d \in metas /\ d \in bodies /\ SamePackage(d.package, c.package)

DocumentHolds(c, d) ==
    d \in metas /\ d \in bodies /\ SamePackage(d.package, c.package) /\ d.question = c.question

ValidateOfficial ==
    /\ broker.pc = "official"
    /\ LET r == broker.request
       IN  broker' = IF \A d \in r.official : DocumentHolds(r.claim, d)
                     THEN [broker EXCEPT !.pc = "issue"] ELSE Idle
    /\ UNCHANGED <<task, dep, lease, bodies, metas, tree, hook, served, bounds>>

(* The lease is issued, or the proposal awaits an approval, which makes    *)
(* the whole request again.                                                *)
Issue ==
    /\ broker.pc = "issue"
    /\ lease' \in {None, [task |-> task, claim |-> broker.request.claim,
                          evidence |-> broker.captured, official |-> broker.request.official,
                          disturbed |-> broker.disturbed]}
    /\ broker' = Idle
    /\ UNCHANGED <<task, dep, bodies, metas, tree, hook, served, bounds>>

(* active_lease_attestation, the Evidence: files and documents are what    *)
(* they were when they were captured.  No file here is in the scope of the *)
(* lease: what a lease may change is not attested.                         *)
Attested ==
    /\ \A f \in DOMAIN lease.evidence : tree[f] = lease.evidence[f]
    /\ \A d \in lease.official : d \in metas /\ d \in bodies

-----------------------------------------------------------------------------
(* Everyone else *)

(* The file has been digested, and what it says will be checked later.     *)
Unchecked(f) ==
    /\ broker.pc \in Requesting /\ f \in DOMAIN broker.captured
    /\ \/ f = broker.request.claim.metadata /\ broker.pc \in {"capture", "validate"}
       \/ f = broker.request.claim.native /\ broker.pc \in {"capture", "validate", "package",
                                                           "native"}

(* A package manager or the user changes an Evidence file.                 *)
Change(f) ==
    /\ changes < MaxChanges /\ changes' = changes + 1
    /\ \E c \in ContentOf(f) \ {tree[f]} : tree' = [tree EXCEPT ![f] = c]
    /\ broker' = IF Unchecked(f) THEN [broker EXCEPT !.disturbed = @ \cup {f}] ELSE broker
    /\ UNCHANGED <<task, dep, lease, bodies, metas, hook, served, brokered>>

(* The broker dies, or a write of its fails; the kernel frees the lock.    *)
BrokerDies ==
    /\ changes < MaxChanges /\ changes' = changes + 1
    /\ ~LockFree /\ broker' = Idle
    /\ UNCHANGED <<task, dep, lease, bodies, metas, tree, hook, served, brokered>>

BrokerStep ==
    \/ (\E text \in Texts : Fetched(text)) \/ WriteBody \/ WriteMetadata
    \/ (\E f \in Files : Capture(f)) \/ ValidateMetadata \/ ValidatePackage
    \/ ValidateNative \/ ValidateOfficial \/ Issue

Next ==
    \/ Prompt \/ Record \/ HookTimesOut
    \/ \E d \in Dependency : Accept(d)
    \/ \E p \in Packages, q \in Questions, url \in Urls : Register(p, q, url)
    \/ \E d \in metas : ReadOfficial(d)
    \/ \E c \in Claims, fs \in SUBSET Files, ds \in SUBSET metas :
            StartRequest([claim |-> c, files |-> fs, official |-> ds])
    \/ BrokerStep \/ BrokerDies
    \/ \E f \in Files : Change(f)

Spec == Init /\ [][Next]_vars

(* The lock holder goes on, the server answers or the connection times     *)
(* out, and flock does not pass the waiting hook over for ever.            *)
FairSpec == Spec /\ WF_vars(BrokerStep) /\ SF_vars(Record)

-----------------------------------------------------------------------------
(* A registered document can be read, whenever a registration was killed:  *)
(* its text is there before anything refers to it.                         *)
RegisteredIsReadable == metas \subseteq bodies

(* The lease of a dependency Task rests on documents that were registered  *)
(* for its package, by the ecosystem's own idea of a name, and for the     *)
(* question accepted in the contract, whatever was accepted before.        *)
OfficialBelongs ==
    lease # None =>
        /\ dep # None /\ lease.claim.question = dep.question
        /\ \A d \in lease.official :
            /\ d.question = dep.question
            /\ IF Ecosystem = "python" THEN Normal[d.package] = Normal[dep.package]
               ELSE d.package = dep.package

(* While the Evidence of a lease is attested, the Project really has the   *)
(* claimed version of the claimed package installed, and a file below it   *)
(* has the claimed symbol, whatever changed before the digests, after the  *)
(* checks or beside them.  A file that changed after its own digest and    *)
(* before its own check, and back again before the attestation, is         *)
(* excepted, by itself: nothing in the code notices that.                  *)
AttestedClaimIsTrue ==
    lease # None /\ Attested =>
        LET c == lease.claim
            installed == tree[c.metadata]
        IN  /\ IsBelowPackage(c)
            /\ c.metadata \notin lease.disturbed =>
                    SamePackage(installed.package, c.package) /\ installed.version = c.version
            /\ c.native \notin lease.disturbed => c.symbol \in tree[c.native]

(* Every prompt the hook takes up ends, through a download in progress.    *)
PromptsEnd == hook = "waiting" ~> hook = "idle"

=============================================================================
