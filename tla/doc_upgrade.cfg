SPECIFICATION Spec
CONSTANTS
    Owned = {"broker", "gate"}
    HostOwned = {"gate"}
    ContextBroker = "broker"
    HookIds = {"PreToolUse"}
    Texts = {Blank, Prose}
    Blank = Blank
    MaxRelease = 2
    MaxCommands = 3
    MaxEvents = 1
    None = None
    Edited = Edited
    Broken = Broken
    Unsafe = Unsafe
CHECK_DEADLOCK FALSE
PROPERTIES UpgradeIsAccepted
