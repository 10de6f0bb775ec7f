\* An object from a parser: any entries in any order; three strings and two keys
\* that are none.
SPECIFICATION Spec
CONSTANTS
    Keys = {1, 2, 3, 4, 5}
    Strings = {1, 2, 3}
    MaxSize = 4
    Parsed = TRUE
INVARIANTS
    SearchOnTrack
    BorrowedKeepKey
    StopsOnlyAtOddKeys
PROPERTIES
    GetFindsKey
\* a failed assertion ends the program
CHECK_DEADLOCK FALSE
