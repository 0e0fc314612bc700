SPECIFICATION Spec
CONSTANTS
    Persons = {a, b, c}
    Tenants = {t1}
    Listed = {a}
    Links = {l1, l2}
    Slots = {s1, s2}
    Workloads = {{"invite", "delete_user"}}
    MaxId = 2
    MaxKeys = 1
    MaxRestarts = 0
    Founder = a
    None = None
SYMMETRY Symmetry
CHECK_DEADLOCK FALSE
INVARIANT DeletedSignedOut
