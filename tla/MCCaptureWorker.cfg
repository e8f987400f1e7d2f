CONSTANTS
    v1 = v1 v2 = v2 w1 = w1 p1 = p1 p2 = p2 p3 = p3
    Visitor = {v1, v2}
    Place = {p1, p2, p3}
    Iou <- MCIou
    Knobs <- MCKnobs
    ForceEvery = 2
    MaxEvents = 2
    Viewer = {w1}
    QueueSize = 2
    MaxViewers = 1
    MaxReady = 2
    None = None
SPECIFICATION Spec
INVARIANTS TypeOK OneRowPerVisit SeenInTime ViewerSeesNewest
SYMMETRY Symmetric
CHECK_DEADLOCK FALSE
