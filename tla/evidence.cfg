SPECIFICATION FairSpec
CONSTANTS
    Dashed = Dashed
    Scored = Scored
    Evil = Evil
    Good = Good
    Manifest = Manifest
    Meta = Meta
    Native = Native
    Question = Question
    Other = Other
    Symbol = Symbol
    Locked = Locked
    None = None
    Oversized = Oversized
    Text = Text
    Packages = {Dashed, Scored}
    Normal <- OneNormal
    Ecosystem = "npm"
    Questions = {Question, Other}
    Hosts = {Good}
    Urls <- ThreeUrls
    Texts = {Text, Oversized}
    Versions = {1, 2}
    Symbols = {Symbol}
    Locks = {Locked}
    Manifests = {Manifest}
    Metadata = {Meta}
    Natives = {Native}
    Location <- Locations
    Site <- Sites
    Claims <- OneClaim
    MaxTurns = 1
    MaxBroker = 4
    MaxChanges = 2
INVARIANTS TypeOK RegisteredIsReadable OfficialBelongs AttestedClaimIsTrue
PROPERTIES PromptsEnd
CHECK_DEADLOCK FALSE
