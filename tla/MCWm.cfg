SPECIFICATION DesktopSpec
CONSTANTS
    App = {a1, a2}
    NoApp = NoApp
    SurfaceMax = 2
    Rows = 7
    ClientMax = 2
    InnerGap = 1
    BorderSize = 1
    InputKind = {"next", "later", "earlier", "close", "key", "move"}
    PointerRow = {0, 6}
    DamageRow = {1}
    InputMax = 2
SYMMETRY Alike
INVARIANTS
    DesktopAgrees
    WindowsShown
    InputAccounted
CHECK_DEADLOCK FALSE
