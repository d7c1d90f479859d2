SPECIFICATION FairSpec
CONSTANTS
    Fields <- RouterFields
    Structs <- RouterStructs
    In <- RouterIn
    Kind <- RouterKind
    Schema <- RouterSchema
    Code <- RouterCode
    Choices <- RouterChoices
    Refused <- RouterLong
    Finalizer = FALSE
    Absent = Absent
    Empty = Empty
    Negative = Negative
    MaxEdits = 2
    None = None
INVARIANTS
    TypeOK
    GivenKept
    Filled
PROPERTIES
    Converges
