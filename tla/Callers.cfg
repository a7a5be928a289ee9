SPECIFICATION Spec
CONSTANTS
    MaxStructs = 3
    MaxOutputs = 3
    Statuses = {0, 3, 255}
INVARIANTS LiveWhenUsed NothingLost ResultFaithful
