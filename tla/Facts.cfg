SPECIFICATION FairSpec
CONSTANTS
    Hosts = {h1, h2}
    Reporting = {h1}
    Started = {doc, None}
    blank = blank
    doc = doc
    large = large
    Docs = {blank, doc, large}
    Empty = blank
    None = None
    Content <- MCContent
    Verdict <- MCVerdict
    Slots = {r1, r2}
    Workloads <- MCWorkloads
    Grace = 1
    Keep = 2
    StoreAttempts = 2
    Files <- MCFiles
    h1 = h1
    h2 = h2
    MaxChanges = 2
    MaxMishaps = 1
CHECK_DEADLOCK FALSE
INVARIANTS TypeOK CatalogShows
PROPERTIES ClearedAfterGrace KeepsTheLog AgentsHeard
