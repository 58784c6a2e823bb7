SPECIFICATION SemSpec
CONSTANTS
    Trees <- Shadows
    Exps <- MCExps
    Decs <- MCDecs
    Defs <- MCDefs
    Stmts <- MCStmts
    Recorded <- MCRecorded
    Judged <- Shadows
    Name <- MCName
    Decl <- MCDecl
    NoDecl <- MCNoDecl
    MaxScopes = 4
    BktCapacity = 12
INVARIANT
    FirstReportIsRight
