\* Parsing, looking up and showing.
SPECIFICATION Spec
CONSTANTS
    Services <- AllServices
    MaxHashes = 2
    MaxMatches = 2
    PrefixLen = 2
INVARIANTS
    TypeOK
    SummaryAgreesWithTable
    EveryLineAnswered
    NothingHiddenSilently
    NearMissShowsDigest
    CellDisplaysTheWord
    CellsAreInert
