SPECIFICATION Spec
CONSTANTS
    Locs <- WbLocs
    Chain <- WbChain
    Names = {"a", "g"}
    Predefined = {"any", "service-http"}
    AnyName = "any"
    Values = {"v", "w", "x"}
    Nil = Nil
    TypeOf <- WbTypes
    Sources <- OneSource
    Creations <- MCCreations
    GroupNames = {"g"}
    Queries <- MCQueries
    MaxStaged = 2
    MaxSelected = 2
PROPERTY DependedOnDropsAreRefused
