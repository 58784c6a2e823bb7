SPECIFICATION ReaderSpec
CONSTANTS
    Var <- MCVar
    Func <- MCFunc
    Lbl <- MCLbl
    Files <- MCFiles
INVARIANT EveryLineRead
