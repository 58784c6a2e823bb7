SPECIFICATION FrontSpec
CONSTANTS
    Sources <- EitherOne
    Exps <- MCExps
    Decs <- MCDecs
    Stmts <- MCStmts
    Inputs <- MCInputs
    Name <- MCName
    Decl <- MCDecl
    NoDecl <- MCNoDecl
    MaxScopes = 6
    BktCapacity = 9
INVARIANT
    OutputAgrees
