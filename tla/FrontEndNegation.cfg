SPECIFICATION FrontSpec
CONSTANTS
    Sources <- ManyVariables
    Exps <- MCExps
    Decs <- MCDecs
    Stmts <- MCStmts
    Inputs <- MCInputs
    Name <- MCName
    Decl <- MCDecl
    NoDecl <- MCNoDecl
    MaxScopes = 6
    BktCapacity = 12
PROPERTY
    IfNegated
