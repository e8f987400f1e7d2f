SPECIFICATION Spec
CONSTANTS
    e1 = e1  e2 = e2  v1 = v1  v2 = v2  d1 = d1  d2 = d2  s1 = s1  s2 = s2
    u1 = u1  u2 = u2  f1 = f1  p1 = p1  p2 = p2  n1 = n1  n2 = n2  x1 = x1  x2 = x2
    r1 = r1  r2 = r2  k1 = k1  k2 = k2  k3 = k3
    Employee = {e1, e2}
    Division = {v1, v2}
    Department = {d1, d2}
    Section = {s1, s2}
    User = {u1, u2}
    Field = {f1}
    Photo = {p1, p2}
    Name = {n1, n2}
    Option = {x1, x2}
    Request = {r1, r2}
    Token = {k1, k2, k3}
    MaxAttempts = 1
    Rows <- MCRows
    Rosters <- MCRosters
    Changes <- MCChanges
    LastDay = 1
    MaxEvents = 2
    None = None
    Gone = Gone
INVARIANTS
    TypeOK
    GalleryIsCurrent
    OnlyFailuresStrandApproval
    RowsHaveFiles
    OnePrimaryManager
PROPERTIES
    MisplacedByPatchOnly
    RequestsUndoNothing
SYMMETRY Symmetric
CHECK_DEADLOCK FALSE
