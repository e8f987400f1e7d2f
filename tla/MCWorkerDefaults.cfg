CONSTANTS
    v1 = v1 v2 = v2 w1 = w1 p1 = p1 p2 = p2 p3 = p3
    Visitor = {v1}
    Place = {p1, p2, p3}
    Iou <- MCIou
    Knobs <- MCShipped
    ForceEvery = 3
    MaxEvents = 0
    Viewer = {w1}
    QueueSize = 2
    MaxViewers = 1
    MaxReady = 2
    None = None
SPECIFICATION Spec
INVARIANT OneRowPerVisit
CHECK_DEADLOCK FALSE
