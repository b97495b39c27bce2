SPECIFICATION Spec
CONSTANTS
    Apps = {"SociallyApp"}
    Users = {u1, u2}
    MaxRequests = 3
INVARIANTS
    CrashMeansNoRequest
CHECK_DEADLOCK FALSE
