SPECIFICATION FairSpec
CONSTANTS
    Subs = {s1}
    MaxRows = 3
    BatchLimit = 2
    MaxAttempts = 2
    MaxEvents = 4
    None = None
INVARIANTS TypeOK AttemptsAreBounded StampedMeansMailed OptOutTakesEffect
PROPERTIES StampedIsFinal EveryRowSettles
CHECK_DEADLOCK FALSE
