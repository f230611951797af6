SPECIFICATION FairSpec
CONSTANTS
    Files = {"src", "cfg"}
    Ignored = {}
    Contents = {0}
    Scopes = {{"src"}}
    AutoScopes = {{"src"}}
    EvidenceSets = {{"cfg"}}
    VerificationIds = {"test"}
    TestIds = {"test"}
    Policies = {{}}
    Classes <- OneClass
    AutoApprove = TRUE
    LeaseTerm = 1
    MaxTime = 0
    MaxTurns = 2
    MaxLeases = 2
    MaxFaults = 0
    None = None
CHECK_DEADLOCK FALSE
INVARIANTS FilesAgree
PROPERTIES FailedTurnRevokes TurnsEnd RenewalsEnd
