SPECIFICATION FairSpec
CONSTANTS
    Calls = {c1, c2}
    MaxEvents = 5
INVARIANTS TypeOK GrantsAreApproved
PROPERTIES FollowsLifecycle ApprovalReachesLedger AttendanceFollowsLedger
CHECK_DEADLOCK FALSE
