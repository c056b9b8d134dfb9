SPECIFICATION Spec
CONSTANTS
    Locs <- MCLocs
    Chain <- MCChain
    Names = {"a", "b", "g", "n"}
    Predefined = {"any"}
    AnyName = "any"
    Values = {"v", "w"}
    Nil = Nil
    TypeOf <- PushTypes
    SchemeName <- PushScheme
    Runnings <- MCRunnings
    Intents <- MCIntents
    MaxAttempts = 3
INVARIANTS
    TypeOK
    SurvivorsNeverDangle
    PushedIsPlan
    NothingUnplanned
