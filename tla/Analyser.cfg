SPECIFICATION SemSpec
CONSTANTS
    Trees <- MCTrees
    Exps <- MCExps
    Decs <- MCDecs
    Defs <- MCDefs
    Stmts <- MCStmts
    Recorded <- MCRecorded
    Judged <- MCJudged
    Name <- MCName
    Decl <- MCDecl
    NoDecl <- MCNoDecl
    MaxScopes = 4
    BktCapacity = 12
INVARIANTS
    SemTypeOK
    ScopesOpen
    TypesCompared
    FirstReportIsRight
    ReportsAsRecorded
    FaultsForNoType
