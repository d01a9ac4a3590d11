\* A tab and a component that pulls on its own, while another member archives; two failures.
CONSTANTS
    e1 = e1
    e2 = e2
    r1 = r1
    tab1 = tab1
    tab2 = tab2
    panel = panel
    Event <- MCOneEvent
    Recipe = {}
    EventOf <- MCEventOf
    Creation <- MCCreation
    Command = {1, 2, 3}
    Kinds = {"update_base_attendance", "archive"}
    WallTimes = {1}
    Attendances = {1}
    Horizon = 2
    MaxNow = 0
    Context <- MCTabAndPanel
    Loop <- MCTab
    Locks = TRUE
    Own = {1, 2}
    Oversized = {}
    PageLimit = 1
    BatchLimit = 2
    MaxFailures = 2
SPECIFICATION SyncSpec
INVARIANTS
    PendingEditsAreShown
    FailedWasRefused
PROPERTIES
    NoIntentIsLost
    SerialCursorCovers
