SPECIFICATION FrontSpec
CONSTANTS
    Sources <- Corpus
    Exps <- MCExps
    Decs <- MCDecs
    Stmts <- MCStmts
    Inputs <- MCInputs
    Name <- MCName
    Decl <- MCDecl
    NoDecl <- MCNoDecl
    MaxScopes = 6
    BktCapacity = 9
INVARIANTS
    TransTypeOK
    ScopesMatchWalk
    PlacedOnce
    OperandsFit
    NamesKnown
    JumpsStayInFunction
    FileWellFormed
    OutputAgrees
PROPERTIES
    OnlyOwnResultRetargeted
    Terminates
