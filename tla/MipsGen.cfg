SPECIFICATION GenSpec
CONSTANTS
    Var <- MCVar
    Func <- MCFunc
    Lbl <- MCLbl
    Programs <- Lists
INVARIANTS
    GenTypeOK
    FrameFits
    OneLabelEach
    AssignsCollected
\* emit_code returns when the list is finished.
CHECK_DEADLOCK FALSE
