SPECIFICATION Spec
CONSTANTS
    Files <- FiveFiles
    Config <- ConfigFile
    Outside = Outside
    Fold <- Casefold
    ProtectedGlobs <- Protect
    HarnessRoots <- Harness
    SecretNames <- Secrets
    DependencyNames <- Manifests
    Scopes <- TwoScopes
    LinkMaps <- FewLinks
    Payloads <- ManyCalls
    LeaseCommands <- Checks
    Slots = {1}
    LeaseTerm = 1
    MaxEvents = 3
    MaxCalls = 2
    None = None
CHECK_DEADLOCK FALSE
INVARIANTS TypeOK LateWritesAreBounded OwnWorkKeepsLease FormsAgree
PROPERTIES WritesStayInScope WritesRestOnBase
