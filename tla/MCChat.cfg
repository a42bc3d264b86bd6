SPECIFICATION Spec

CONSTANTS
    west = west
    east = east
    rev = rev
    Null = Null
    DefaultPeriod = 3
    Questions <- Asked
    MaxRetries = 1
    MaxConversations = 2
    MaxStreams = 2
    MaxReaders = 2
    MaxChunks = 1

INVARIANTS
    TypeOK
    ActiveIsNewest
    AnswersAreWhole
    RequestsAreAsAsked

PROPERTY AnswersArrive

CHECK_DEADLOCK FALSE
