\* Any sequence of up to 4 tokens; the texts of all values of two levels, also
\* with white space behind the first token and with one token missing.
SPECIFICATION FairSpec
CONSTANTS
    ShortLen = 4
    Docs <- AllDocs
INVARIANTS
    TypeOK
    NothingLeaks
    NilIffError
    OverrunsOnlyAtLoneLiteral
    ReadsJson
    ValueMatchesText
    WritesJson
PROPERTIES
    ParserReturns
\* the parser stops when it has returned
CHECK_DEADLOCK FALSE
