SPECIFICATION Spec
CONSTANTS
    Files = {"src", "cfg"}
    Ignored = {}
    Contents = {0}
    Scopes = {{"src"}}
    AutoScopes = {{"src"}}
    EvidenceSets = {{"cfg"}}
    VerificationIds = {"test", "lint"}
    TestIds = {"test"}
    Policies = {{}, {"lint"}}
    Classes <- OneClass
    AutoApprove = TRUE
    LeaseTerm = 1
    MaxTime = 2
    MaxTurns = 1
    MaxLeases = 2
    MaxFaults = 0
    None = None
CHECK_DEADLOCK FALSE
PROPERTIES CompletionMeetsPolicy LeaseUsedInTerm ImplementsAuthority
