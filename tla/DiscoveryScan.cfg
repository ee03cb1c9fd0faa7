CONSTANTS
    CopyLimit = 104
    MaxImage = 4096
    Capacity <- MCCapacity
    Images <- MCImages
SPECIFICATION Spec
INVARIANTS HandlesUnique ParsedIsFindable ValidatedEnds ProfilesValidate
PROPERTY ScansOnlyAppend
