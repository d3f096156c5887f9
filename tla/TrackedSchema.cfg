SPECIFICATION Spec
CONSTANTS
    a = a
    b = b
    Stored <- ThreeNames
    Bare = "none"
    MainSchema = "main"
    Column = {a, b}
    MaxColumns = 2
    MaxOrdinal = 2
SYMMETRY Symmetric
 
PROPERTY ErrorsLeaveTheSchema
