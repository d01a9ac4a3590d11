-------------------------- MODULE MCSyncScheduler --------------------------
(* TLC instances of SyncScheduler: one or two shells over two organizations, *)
(* the first of which may be lost or speak a newer schema.                   *)
EXTENDS SyncScheduler

CONSTANTS h1, h2

MCHook == {h1, h2}
MCOneHook == {h1}
MCEditOrg == [e \in Edit |-> e]
MCOneAndTwo == [e \in Edit |-> IF e = 1 THEN 1 ELSE 2]
=============================================================================
