SPECIFICATION Spec
CONSTANTS
    Var <- MCVar
    Func <- MCFunc
    Lbl <- MCLbl
    Programs <- AddAndTest
    StackWords = 160
    Inputs <- MCInputs
INVARIANT VariablesAgree
