SPECIFICATION Spec
CONSTANTS
    Owned = {"broker", "gate"}
    HostOwned = {"gate"}
    ContextBroker = "broker"
    HookIds = {"PreToolUse"}
    Texts = {Blank}
    Blank = Blank
    MaxRelease = 1
    MaxCommands = 2
    MaxEvents = 3
    None = None
    Edited = Edited
    Broken = Broken
    Unsafe = Unsafe
CHECK_DEADLOCK FALSE
INVARIANTS RevokedStaysRevoked
