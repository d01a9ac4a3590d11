\* Two shells of one browser under the browser-wide lock; one failure, one offline period.
CONSTANTS
    h1 = h1
    h2 = h2
    NoHook = NoHook
    Hook <- MCHook
    Org = {1, 2}
    Edit = {2}
    EditOrg <- MCEditOrg
    Locks = TRUE
    Deniable = {}
    Newer = {}
    MaxOthers = 0
    MaxFailures = 1
    MaxOffline = 1
SPECIFICATION FairSpec
CHECK_DEADLOCK FALSE
PROPERTIES
    GoneShellFinishesItsCall
    WorkIsDone
