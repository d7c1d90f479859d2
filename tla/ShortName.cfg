SPECIFICATION FairSpec
CONSTANTS
    Fields <- RouterFields
    Structs <- RouterStructs
    In <- RouterIn
    Kind <- RouterKind
    Schema <- RouterSchema
    Code <- RouterCode
    Choices <- RouterChoices
    Refused <- RouterShort
    Finalizer = FALSE
    Absent = Absent
    Empty = Empty
    Negative = Negative
    MaxEdits = 0
    None = None
PROPERTIES
    Served
