SPECIFICATION Spec
CONSTANTS
    Var <- MCVar
    Func <- MCFunc
    Lbl <- MCLbl
    Programs <- Corpus
    StackWords = 160
    Inputs <- MCInputs
INVARIANTS
    TypeOK
    ControlAgrees
    VariablesAgree
    StackBalanced
    OutputAgrees
    NeverFaults
    AlwaysAssembles
PROPERTY
    Terminates
