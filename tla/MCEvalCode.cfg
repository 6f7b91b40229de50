CONSTANTS
    Texts = {t1, t2}
    Limit = 5
    FlatCap = 1
    Slack = 1
    MaxFrames = 2
    MaxChain = 2
    FirstAdmit = 1
    Retain = 6
SPECIFICATION Spec
SYMMETRY TextSymmetry
INVARIANTS
    TypeOK
    WantedIsLive
    LiveApart
    HolesInOrder
    PagesProtected
    NothingLost
    NeverBombs
    InHoleIsExact
PROPERTIES
    CacheNeverForgets
