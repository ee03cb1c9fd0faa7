CONSTANTS
    CopyLimit = 104
    MaxImage = 4096
    Capacity <- MCCapacity
    Images <- MCImages
SPECIFICATION Spec
PROPERTY ProfilesParse
