SPECIFICATION Spec
CONSTANTS
    Session = {s1}
    main = main
    aux = aux
    Table = {1, 2, 3}
    Hidden = {3}
    Keyed = {1, 2}
    Schema <- TwoSchemas
    Main = main
    SchemaOf <- EachSchemaOf
    Plain = {text}
    Blob = {b1, b2}
    Mangled = mangled
    MaxRows <- EachMaxRows
    NoSnapshot = NoSnapshot
SYMMETRY Symmetric
INVARIANT RestoresWhatWasWritten
