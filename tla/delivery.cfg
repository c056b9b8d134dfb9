SPECIFICATION Spec
CONSTANTS
    Files <- MCFiles
    Paths <- MCPaths
    FileOf <- MCFileOf
    TmpOf <- MCTmpOf
    Exports = {"panorama.xml"}
    Live = "live"
    Nowhere = "nowhere"
    MaxChanges = 2
    MaxFailures = 1
INVARIANTS
    TypeOK
    DestinationsNeverTorn
    CandidateIsBatch
PROPERTIES
    KeepsLedger
    ConfirmedExactly
    DiscardsWereAsked
    SourceKept
