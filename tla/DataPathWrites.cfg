SPECIFICATION Spec
CONSTANTS
    p = p
    q = q
    Path <- TwoPaths
    Nothing = Nothing
    MaxRows = 3
    MaxBatch = 2
PROPERTY UnplannedPathsAreRejected
