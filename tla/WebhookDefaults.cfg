SPECIFICATION FairSpec
CONSTANTS
    Fields <- WebhookFields
    Structs <- WebhookStructs
    In <- WebhookIn
    Kind <- WebhookKind
    Schema <- WebhookSchema
    Code <- WebhookCode
    Choices <- WebhookChoices
    Refused <- WebhookLong
    Finalizer = TRUE
    Absent = Absent
    Empty = Empty
    Negative = Negative
    MaxEdits = 2
    None = None
INVARIANTS
    GivenKept
    Filled
PROPERTIES
    Converges
