SPECIFICATION FairSpec
CONSTANTS
    Cameras = {c1}
    Workers = {w1, w2, w3, w4, w5}
    Requests = {r1, r2}
    Urls = {u1, u2}
    Corrupt = {u2}
    Knobs = {k1}
    DefaultKnobs = k1
    MaxEvents = 3
    None = None
INVARIANT Ownership
PROPERTY Converges
CHECK_DEADLOCK FALSE
