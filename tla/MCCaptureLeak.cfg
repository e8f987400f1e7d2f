SPECIFICATION Spec
CONSTANTS
    Cameras = {c1}
    Workers = {w1, w2, w3}
    Requests = {r1}
    Urls = {u1}
    Corrupt = {}
    Knobs = {k1}
    DefaultKnobs = k1
    MaxEvents = 2
    None = None
INVARIANT NoOrphanWorker
CHECK_DEADLOCK FALSE
