\* Two sessions, three commands, one row missing after a restore.
CONSTANTS
    s1 = s1
    s2 = s2
    m1 = m1
    m2 = m2
    m3 = m3
    r1 = r1
    NoMutation = NoMutation
    Session <- MCSession
    Mutation <- MCMutation
    Replica <- MCReplica
    MaxChanges = 2
    MaxGroups = 2
    MaxLost = 1
SPECIFICATION LiveSpec
CHECK_DEADLOCK FALSE
INVARIANTS
    OneGroupPerMutation
    ReplicaIsComplete
    NoNeedlessBootstrap
PROPERTIES
    LogSpec
    ReplicasCatchUp
