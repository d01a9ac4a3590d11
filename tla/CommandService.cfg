\* Every kind of command, three identities, late and early stamps.
CONSTANTS
    e1 = e1
    r1 = r1
    Event <- MCEvent
    Recipe <- MCRecipe
    EventOf <- MCEventOf
    Creation <- MCCreation
    Command = {1, 3, 4}
    Kinds = {"update_base_attendance", "archive", "reactivate", "set_manual", "follow_event", "retire", "restore"}
    WallTimes = {1, 3}
    Attendances = {1, 2}
    Horizon = 2
    MaxNow = 1
SPECIFICATION ServerSpec
INVARIANTS
    FeedCarriesRows
    LastWriterWins
    AnswersAreKept
