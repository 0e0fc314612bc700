SPECIFICATION FairSpec
CONSTANTS
    Tenants = {t1, t2, t3}
    Slots = {r1, r2}
    MaxCrashes = 2
CHECK_DEADLOCK FALSE
INVARIANTS BootTrusted
PROPERTIES SettledStays EnrolmentsRepair
