\* Bodies of 2 tokens of any kind and of 4 readable ones, the texts of all small values, strings
\* of references; a second call behind each.
SPECIFICATION MCSpec
CONSTANTS
    MaxInt = 999
    Decimals = 2
    SignedChar = TRUE
    BodyLen = 2
    CoreLen = 4
    Calls = 2
    Docs <- AllDocs
    LaterDocs <- FewDocs
INVARIANTS
    TypeOK
    NothingLeaks
    ValueMeansSuccess
    OverrunsOnlyAtWideReferences
    ReadsPlist
    MapperUndoesEncoding
    ValueMatchesDocument
PROPERTIES
    CallReturns
\* the caller may stop
CHECK_DEADLOCK FALSE
