SPECIFICATION Spec
CONSTANTS
    Programs <- MCPrograms
    Var <- MCVar
    Func <- MCFunc
    Lbl <- MCLbl
    Inputs <- MCInputs
    Places <- MCPlaces
    MaxWrote = 3
INVARIANTS
    OptTypeOK
    DeletedBehindJump
    ChangesHold
PROPERTY
    RunsOriginal
