SPECIFICATION Spec
CONSTANTS
    e1 = e1  e2 = e2  d1 = d1  p1 = p1  p2 = p2  k1 = k1  k2 = k2  k3 = k3
    s1 = s1  s2 = s2  r1 = r1  r2 = r2  w1 = w1  w2 = w2
    Employee = {e1, e2}
    Department = {d1}
    DepartmentOf <- MCDepartmentOf
    Policy = {p1, p2}
    Form <- MCForm
    Window <- MCWindow
    Rematches <- MCRematches
    Weekends <- MCWeekends
    Shot = {k1, k2, k3}
    Schedule = {s1, s2}
    Run = {r1, r2}
    Cron = {2, 3}
    Worker = {w1, w2}
    Zones = {0, 2}
    DayLength = 4
    LastDay = 1
    Gap = 1
    TokenLife = 1
    KeepRuns = 1
    Beginnings <- MCBeginnings
    None = None
    Gone = Gone
INVARIANTS
    TypeOK
    SettledRowsAreRight
    ViewsAgree
    DetailExplainsRow
    NextRunFollowsCron
    RunningRunsAreAlive
    LinksWork
    DueServedOnce
PROPERTIES
    OvertimeNoticedOnce
SYMMETRY Symmetric
CHECK_DEADLOCK FALSE
