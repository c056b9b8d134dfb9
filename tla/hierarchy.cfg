SPECIFICATION Spec
CONSTANTS
    Groups = {d1, d2, d3}
    Shared = shared
    NoGroup = none
INVARIANTS
    TypeOK
    AncestorsAreAbove
    DescendantsAreBelow
PROPERTY CallsReturn
