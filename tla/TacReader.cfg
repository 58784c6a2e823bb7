SPECIFICATION ReaderSpec
CONSTANTS
    Var <- MCVar
    Func <- MCFunc
    Lbl <- MCLbl
    Files <- MCFiles
INVARIANTS
    ReaderTypeOK
    DoublyLinked
    ListIsFile
PROPERTY Ends
