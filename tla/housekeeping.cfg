SPECIFICATION Spec
CONSTANTS
    Locs <- MCLocs
    Chain <- MCChain
    Names = {"a", "b", "g", "t", "u"}
    Predefined = {"any"}
    AnyName = "any"
    Values = {"v", "w", "x", "p"}
    Nil = Nil
    TypeOf <- MCTypeOf
    TypeOrder <- MCTypeOrder
    SchemeName <- MCSchemeName
    DisabledRules <- MCDisabledRules
    Firewalls = {fw1, fw2}
    Registrations <- MCRegistrations
    Starts <- MCStarts
    Puts <- MCPuts
    Imports <- MCImports
    NewNames = {"b"}
    MaxChanges = 2
INVARIANTS
    TypeOK
    CalledUnusedIsUnused
    GapsAreSaid
    PartialIsEnough
PROPERTIES
    CleanupKeepsRules
    DocumentFollowsPlan
CHECK_DEADLOCK FALSE
SYMMETRY FirewallSymmetry
