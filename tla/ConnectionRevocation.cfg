SPECIFICATION Spec
CONSTANTS
    Attempt = {a1, a2}
    c1 = c1
    c2 = c2
    k1 = k1
    k2 = k2
    Credential <- TwoCredentials
    Catalog <- TwoCatalogs
    CatalogOf <- CatalogOfEach
    Document = {p, q}
    NoDocument = NoDocument
    MaxVersion = 2
    None = None
SYMMETRY Symmetric
PROPERTY RevocationPreventsNewSessions
