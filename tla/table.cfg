\* A table with up to five fields, sequences of up to five values.
SPECIFICATION Spec
CONSTANTS
    Nil = Nil
    Hash <- Hashes
    Key <- Keys
    Value <- Values
    Programs <- AllPrograms
    MAXBITS = 3
    MAX_INT = 7
    MaxLength = 5
    MaxAsked = 15
INVARIANTS NodesConsistent LengthIsBoundary SortSorts SortIsShallow
PROPERTY ImplementsMap
