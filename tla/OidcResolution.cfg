SPECIFICATION FairSpec
CONSTANTS
    t = t
    alice = alice
    bob = bob
    Refused = Refused
    None = None
    Token = {t}
    User = {alice, bob}
    Catalog = {c1, c2}
    Attempt = {a1}
    Admin = {m1}
    Provider <- TwoProviders
    Config <- FourConfigs
    Document <- TwoDocuments
INVARIANTS
    TypeOK
    ReferencedProvidersExist
    GrantsAreUnambiguous
PROPERTIES
    GrantsAreMapped
    AttemptsAreAnswered
