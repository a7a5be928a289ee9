SPECIFICATION Spec
CONSTANTS
    Lengths = {3, 4, 6, 7, 8}
    ContinueStatuses <- MCContinueStatuses
    TOKEN_MAX_DATA = 7
    COMMAND_MAX_DATA = 5
    SizeModulus = 32
    MaxAnswers = 2
    MaxTokens = 3
INVARIANTS BufferBound CommandsAssembled FatalCloses
PROPERTY AnsweredBeforeNext
