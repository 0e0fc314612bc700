\* Two requests at a time, on encrypted and on plain bundles.
SPECIFICATION Spec
CONSTANTS
    Ids = {i1, i2}
    Names = {a, b}
    Versions = {v1, v2}
    Groups = {g}
    Slots = {s1, s2}
    Workloads = {{"upload", "enc-v1", "reseal", "rename", "delete", "assign"},
                 {"upload", "plain", "rename", "delete", "assign", "unassign"}}
    MaxBundles = 1
    MaxStops = 0
    Plain = Plain
    None = None
    Torn = Torn
SYMMETRY Symmetry
\* Ids run out.
CHECK_DEADLOCK FALSE
INVARIANTS
    TypeOK
    Vouched
    ServedHasRow
PROPERTY RenameWhole
