SPECIFICATION Spec
CONSTANTS
    Apps = {"SociallyApp", "Socially-UIKit"}
    Users = {u1, u2}
    MaxRequests = 3
INVARIANTS
    TypeOK
    NonceAlwaysKept
    NonceNotStale
\* No press is left under the bound, or the app has crashed.
CHECK_DEADLOCK FALSE
