SPECIFICATION Spec
CONSTANTS
    Files = {"src", "cfg"}
    Ignored = {}
    Contents = {0}
    Scopes = {{"src"}}
    AutoScopes = {{"src"}}
    EvidenceSets = {{"cfg"}}
    VerificationIds = {"test"}
    TestIds = {"test"}
    Policies = {{}}
    Classes <- TwoClasses
    AutoApprove = TRUE
    LeaseTerm = 1
    MaxTime = 0
    MaxTurns = 2
    MaxLeases = 2
    MaxFaults = 1
    None = None
CHECK_DEADLOCK FALSE
INVARIANTS TypeOK AcceptanceNeedsUser LeaseRestsOnAcceptance
PROPERTIES LeaseNotReplaced CompletionIsVerified ImplementsAuthority
