SPECIFICATION Spec
CONSTANTS
    Accounts = {u1, u2}
    Names = {root, n1, n2}
    AdminName = root
    Roles = {admin, user}
    Admin = admin
    Pages = {c1}
    Requests = {r1, r2}
    None = None
SYMMETRY Interchangeable
INVARIANTS
    UniqueNames
    FirstChangesPassword
PROPERTIES
    NothingUndone
    LastAdminKept
CHECK_DEADLOCK FALSE
