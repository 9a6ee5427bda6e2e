SPECIFICATION LoginSpec
CONSTANTS
    TenantIds = {t1}
    Keys = {k1, k2}
    Emails = {e1}
    Secrets = {}
    Handlers = {h1}
    Resolvers = {r1}
    Requests = {q1, q2}
    AdminOps = {"delete"}
    None = None
    MaxErrors = 1
INVARIANTS NoAccountOncePerWindow EmailIndexAgrees
PROPERTIES RemovedKeyIsRefused StoredKeyIsAccepted
