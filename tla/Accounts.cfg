SPECIFICATION Spec
CONSTANTS
    Persons = {a, b}
    Tenants = {t1, t2}
    Listed = {a, b}
    Links = {l1}
    Slots = {s1, s2}
    Workloads = {{"invite", "set_role", "delete_user", "platform_delete", "signup", "create_tenant", "logout_everywhere"},
                 {"signup", "platform_delete", "create_tenant", "restart"},
                 {"signup", "update_user"},
                 {"invite", "create_key", "delete_key"}}
    MaxId = 2
    MaxKeys = 1
    MaxRestarts = 1
    Founder = a
    None = None
SYMMETRY Symmetry
CHECK_DEADLOCK FALSE
PROPERTIES OwnerStands BlockHolds ConsoleKept
