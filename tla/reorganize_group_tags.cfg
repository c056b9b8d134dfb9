SPECIFICATION Spec
CONSTANTS
    Locs <- WideLocs
    Chain <- WideChain
    Names = {"a", "b", "g"}
    Predefined = {"any"}
    AnyName = "any"
    Values = {"v", "w"}
    Nil = Nil
    TypeOf <- MCTypeOf
    SchemeName <- MCSchemeName
    NewNames = {"b"}
    InitConfigs <- TaggedGroupConfigs
PROPERTIES
    BindingsFollowRenames
