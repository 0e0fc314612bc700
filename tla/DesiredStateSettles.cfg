SPECIFICATION FairSpec
CONSTANTS
    Hosts = {h1}
    Consoles = {c1}
    Ops = {o1}
    Values = {a}
    Absent = Absent
    None = None
    OpKinds = {"report", "config", "store_facts", "remove_facts", "revoke"}
    Faults = FALSE
    StoreAttempts = 2
    MaxEntries = 2
    MaxOps = 2
    MaxEpoch = 2
CHECK_DEADLOCK FALSE
INVARIANTS AnswerFresh NoStaleAtRest
PROPERTY AgentsConverge
