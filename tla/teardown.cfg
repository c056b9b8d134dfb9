SPECIFICATION Spec
CONSTANTS
    Locs <- MCLocs
    Chain <- MCChain
    Names = {"a", "g"}
    Predefined = {"any", "service-http"}
    AnyName = "any"
    Values = {"v"}
    Nil = Nil
    InitConfigs <- MCInitConfigs
    TargetSets <- MCTargets
INVARIANTS
    TypeOK
    CascadeIsLeast
    DeleteSetInReach
PROPERTIES
    NoStranding
    OnlyBrokenNamesGo
    RebindsAreNoted
    NeverWidened
    NoGroupEmptied
    RequiringDagsKeepMembers
