SPECIFICATION Spec
CONSTANTS
    r1 = r1
    r2 = r2
    r3 = r3
    p = p
    q = q
    Request <- ThreeRequests
    Path <- TwoPaths
    PathOf <- PathOfEach
    Issue = {i1, i2}
    Nothing = Nothing
SYMMETRY Symmetric
INVARIANT EveryCatalogReceivesItsPath
