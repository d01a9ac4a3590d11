\* A browser without navigator.locks; one organization publishes records this build
\* cannot read, the membership of the other may be removed.
CONSTANTS
    h1 = h1
    h2 = h2
    NoHook = NoHook
    Hook <- MCOneHook
    Org = {1, 2}
    Edit = {1, 2, 3}
    EditOrg <- MCOneAndTwo
    Locks = FALSE
    Deniable = {2}
    Newer = {1}
    MaxOthers = 1
    MaxFailures = 1
    MaxOffline = 1
SPECIFICATION Spec
CHECK_DEADLOCK FALSE
INVARIANTS
    EditsAreScheduled
    ChangesAreScheduled
