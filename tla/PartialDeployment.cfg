SPECIFICATION Spec
CONSTANTS
    Fields <- RouterFields
    Structs <- RouterStructs
    In <- RouterIn
    Kind <- RouterKind
    Schema <- RouterSchema
    Code <- RouterCode
    Choices <- RouterChoices
    Refused <- RouterLong
    Finalizer = FALSE
    Absent = Absent
    Empty = Empty
    Negative = Negative
    MaxEdits = 0
    None = None
INVARIANTS
    DefaultMerged
