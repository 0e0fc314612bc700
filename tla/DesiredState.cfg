SPECIFICATION Spec
CONSTANTS
    Hosts = {h1}
    Consoles = {}
    Ops = {o1, o2}
    Values = {a}
    Absent = Absent
    None = None
    OpKinds = {"put_tag", "bulk_tags", "report", "store_facts", "remove_facts", "config", "delete_host", "revoke"}
    Faults = TRUE
    StoreAttempts = 2
    MaxEntries = 1
    MaxOps = 3
    MaxEpoch = 2
CHECK_DEADLOCK FALSE
SYMMETRY Symmetry
INVARIANTS TicketSound CacheFresh
