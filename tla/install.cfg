SPECIFICATION Spec
CONSTANTS
    Owned = {"broker", "gate"}
    HostOwned = {"gate"}
    ContextBroker = "broker"
    HookIds = {"PreToolUse"}
    Texts = {Blank, Prose}
    Blank = Blank
    MaxRelease = 2
    MaxCommands = 3
    MaxEvents = 2
    None = None
    Edited = Edited
    Broken = Broken
    Unsafe = Unsafe
CHECK_DEADLOCK FALSE
INVARIANTS TypeOK UserContentKept
PROPERTIES FailureRestores CommitIsSound UninstallIsExact TaskSurvives
