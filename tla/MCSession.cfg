SPECIFICATION FairSpec
CONSTANTS
    Sizes = {1, 2, 4}
    MaxCalls = 3
    MaxOpens = 2
    MaxResults = 3
    Limit = 2
    MaxOutputs = 1
INVARIANTS OwnAnswers ResponseShape OneDescriptor
PROPERTIES CallsReturn
