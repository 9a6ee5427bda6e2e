SPECIFICATION Spec
CONSTANTS
    TenantIds = {t1, t2}
    Keys = {k1, k2, k3}
    Emails = {}
    Secrets = {s1}
    Handlers = {h1, h2}
    Resolvers = {r1}
    None = None
    MaxErrors = 1
SYMMETRY Symmetry
INVARIANTS TenantsTypeOK TenantIsolation IndexAgrees IssuedSecretIsStored CachedIsCurrent
PROPERTIES RotationKeepsAWorkingKey
