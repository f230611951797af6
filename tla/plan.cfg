SPECIFICATION Spec
CONSTANTS
    Statements = {"screen", "fast", "meaning"}
    KindsOf <- TestKinds
    UiStatements = {"screen"}
    PerfStatements = {"fast"}
    Profiles <- TwoProfiles
    Configs <- ThreeConfigs
    Risks = {"low", "material", "high"}
    MaxCriteria = 2
    MaxRevisions = 3
    None = None
CHECK_DEADLOCK FALSE
INVARIANTS CriteriaProved
PROPERTIES AuthorityMeetsConfiguration
