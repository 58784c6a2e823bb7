SPECIFICATION Spec
CONSTANTS
    Name = {x, y}
    Decl = {int, struct}
    NoDecl = NoDecl
    MaxScopes = 3
    BktCapacity = 2
INVARIANT
    TypeOK
PROPERTY
    ImplementsScopes
    InsertDeclares
