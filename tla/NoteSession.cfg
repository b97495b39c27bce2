SPECIFICATION Spec
CONSTANTS
    Users = {a, b}
    None = None
    Unset = Unset
    MaxMain = 3
    MaxListeners = 2
INVARIANTS
    TypeOK
    UserIsCurrent
    ListIsOwn
    ShownIsWritten
    ProfileIsOwn
PROPERTIES
    ScreenFollowsUser
