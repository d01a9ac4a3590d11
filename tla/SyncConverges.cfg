\* Two tabs that take turns under the lock, a failure, and a command that is too large to push.
CONSTANTS
    e1 = e1
    e2 = e2
    r1 = r1
    tab1 = tab1
    tab2 = tab2
    panel = panel
    Event <- MCOneEvent
    Recipe <- MCRecipe
    EventOf <- MCEventOf
    Creation <- MCCreation
    Command = {1, 2, 3, 4}
    Kinds = {"update_base_attendance", "archive", "reactivate"}
    WallTimes = {1}
    Attendances = {1}
    Horizon = 2
    MaxNow = 0
    Context <- MCTwoTabs
    Loop <- MCTwoTabs
    Locks = TRUE
    Own = {1, 3}
    Oversized = {3}
    PageLimit = 1
    BatchLimit = 1
    MaxFailures = 1
SPECIFICATION FairSyncSpec
INVARIANT CursorCoversCanonical
PROPERTY ReplicaConverges
