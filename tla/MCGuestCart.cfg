SPECIFICATION GuestSpec
CONSTANTS
    v1 = v1
    v2 = v2
    Choices = {v1, v2}
    MaxCollected = 2
    MaxMerges = 2
SYMMETRY MCSymmetry
INVARIANTS
    OneMergeAtATime
PROPERTIES
    ClearsOnlyWhatItMerged
