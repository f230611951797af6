SPECIFICATION Spec
CONSTANTS
    Screens = {"s1", "s2"}
    Plans <- LongAndShort
    Checked = {"code"}
    MaxEvents = 2
    None = None
CHECK_DEADLOCK FALSE
INVARIANTS TypeOK ReviewIsEarned AttestedIsOneMatrix ReplayAgrees OrderIsBalanced
