CONSTANTS
    Number <- MCNumber
    Char <- MCChar
    Call <- MCCall
    Event <- MCEvent
    Answers <- MCAnswers
    ReadChunk = 3
    MaxUnderway = 1
    None = None
SPECIFICATION Spec
INVARIANTS
    UnderwayReadable
    CommandUnderstood
    OutcomeExact
    NothingHeldBack
    DialectKnown
PROPERTIES
    ImplementsChannel
CHECK_DEADLOCK FALSE
