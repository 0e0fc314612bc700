CONSTANTS
    Hosts = {h1}
    Consoles = {}
    Ops = {o1, o2}
    Values = {a, b}
    Absent = Absent
    None = None
    OpKinds = {"put_tag"}
    Faults = FALSE
    StoreAttempts = 2
    MaxEntries = 3
    MaxOps = 3
    MaxEpoch = 2
SPECIFICATION Spec
INVARIANT NoStaleAtRest
