SPECIFICATION FairSpec
CONSTANTS
    k1 = k1
    k2 = k2
    t1 = t1
    t2 = t2
    tx = tx
    z1 = z1
    z2 = z2
    zx = zx
    o1 = o1
    s = s
    A = A
    B = B
    Padded = Padded
    x1 = x1
    x2 = x2
    Keys = {k1, k2}
    Trees = {t1, t2, tx}
    Loadable = {t1, t2}
    Blobs = {z1, z2, zx, o1, s}
    Sealed = {s}
    Zip <- MCZip
    Unzip <- MCUnzip
    Names = {A, B, Padded}
    Trim <- MCTrim
    Sels = {x1, x2}
    None = None
    Bids = {1, 2, 3, 4, 5, 6, 7, 8}
    Gids = {1, 2, 3, 4, 5}
    Dirs <- MCDirs
    Starts <- MCStarts
    Jobs = {j1, j2}
    Managed <- MCManaged
    Unmanaged <- MCUnmanaged
    MaxBundles = 2
CHECK_DEADLOCK FALSE
INVARIANTS TypeOK RowsHaveBytes ExportLoads ExportReturns AnsweredMatches
PROPERTIES AppliesWhole IdsSurvive Follows
