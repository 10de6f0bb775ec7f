\* Every file of up to 6 characters, on pages of 4.
SPECIFICATION FairSpec
CONSTANTS
    Page = 4
    KeyMax = 2
    FileLen = 6
    Files <- AllFiles
INVARIANTS
    TypeOK
    CrashesAtPageEnds
    ValuesStayInLine
    LinesRead
    FailuresReported
PROPERTIES
    LoadReturns
\* the call ends
CHECK_DEADLOCK FALSE
