\* Strings up to 5 bytes, texts up to 5, JSON strings of up to 3 pieces.
SPECIFICATION Spec
CONSTANTS
    StringLen = 5
    TextLen = 5
    PieceLen = 3
    Pieces <- SomePieces
    Composed <- PieceSeqs
    Strings <- AllStrings
    Texts <- AllTexts
INVARIANTS
    InBounds
    ReadsPieces
    WritesBack
\* the routines end
CHECK_DEADLOCK FALSE
