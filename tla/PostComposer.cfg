SPECIFICATION Spec
CONSTANTS
    Apps = {"SociallyApp", "Socially-UIKit"}
    MaxScreens = 2
    MaxUploads = 3
INVARIANTS
    TypeOK
    ButtonTracksUpload
    NoDoublePost
    DismissedIsPosted
    DocsHaveImages
\* The last screen may be closed with nothing left to do.
CHECK_DEADLOCK FALSE
