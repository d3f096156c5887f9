SPECIFICATION Spec
CONSTANTS
    r1 = r1
    r2 = r2
    p = p
    q = q
    Request <- TwoRequests
    Path <- TwoPaths
    PathOf <- PathOfEach
    Issue = {i1}
    MaxRows = 2
    MaxBatch = 2
    Nothing = Nothing
SYMMETRY Symmetric
INVARIANTS
    TypeOK
    OneWinner
    CreatedIsWhole
    ConfigAgreesWithRow
PROPERTIES
    AnswersAreTrue
    OtherPathsComeUnseen
