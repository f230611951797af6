SPECIFICATION Spec
CONSTANTS
    Files = {"src", "cfg"}
    Ignored = {}
    Contents = {0, 1}
    Scopes = {{"src"}, {"src", "cfg"}}
    AutoScopes = {{"src"}}
    EvidenceSets = {{"cfg"}}
    VerificationIds = {"test"}
    TestIds = {"test"}
    Policies = {{}}
    Classes <- OneClass
    AutoApprove = TRUE
    LeaseTerm = 1
    MaxTime = 0
    MaxTurns = 2
    MaxLeases = 1
    MaxFaults = 0
    None = None
CHECK_DEADLOCK FALSE
INVARIANTS ReceiptsWereTested
PROPERTIES CompletionIsVerified LeaseNeedsConsent
