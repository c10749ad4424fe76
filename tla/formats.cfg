SPECIFICATION Spec
CONSTANTS
    Anything = Anything
    NoToken = NoToken
    KeyLimit = 2
    MaxColumn = 3
    MaxFlow = 2
    MaxLexemes = 4
    BestIndent = 2
    Nodes <- DocumentNodes
    Alphabet <- Inside
INVARIANTS
    ReadAsWritten
    ScannerInv
    ParserInv
    ReadsBack
CHECK_DEADLOCK FALSE
