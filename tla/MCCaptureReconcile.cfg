SPECIFICATION FairSpec
CONSTANTS
    Cameras = {c1, c2}
    Workers = {w1, w2, w3, w4}
    Requests = {}
    Urls = {u1}
    Corrupt = {}
    Knobs = {k1, k2}
    DefaultKnobs = k1
    MaxEvents = 2
    None = None
INVARIANTS TypeOK OneWorkerPerCamera NoOrphanWorker
PROPERTY Converges
CHECK_DEADLOCK FALSE
