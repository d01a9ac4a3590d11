------------------------------ MODULE FeedLog ------------------------------
(***************************************************************************)
(* What the organization change feed promises, with no database in sight:  *)
(* every accepted command is one group of consecutive sequence numbers,    *)
(* groups are appended one after the other and never change, and a replica *)
(* only ever stands between two groups and only ever moves forward.        *)
(* ChangeFeed.tla (PostgreSQL rows, locks, rollbacks and paged pulls) is   *)
(* shown to implement it.                                                  *)
(***************************************************************************)
EXTENDS Integers

CONSTANTS
    Mutation,     \* mutation identities
    Replica,      \* browsers that pull the organization
    MaxChanges    \* largest number of records one command publishes

VARIABLES
    next,         \* the next sequence number to hand out
    groups,       \* the groups [mutation, first, last] appended so far
    position      \* how far each replica has read; -1 before its first bootstrap

logVars == <<next, groups, position>>

(* The sequence numbers a replica may stand at: between two groups. *)
Boundaries == {0} \cup {g.last : g \in groups}

LogInit ==
    /\ next = 1
    /\ groups = {}
    /\ position = [r \in Replica |-> -1]

(* A command that was never published before appends its n records as one group. *)
Publish(m, n) ==
    /\ \A g \in groups : g.mutation # m
    /\ groups' = groups \cup {[mutation |-> m, first |-> next, last |-> next + n - 1]}
    /\ next' = next + n
    /\ UNCHANGED position

(* A replica moves forward to a boundary. *)
Advance(r) ==
    /\ \E b \in Boundaries :
          /\ b > position[r]
          /\ position' = [position EXCEPT ![r] = b]
    /\ UNCHANGED <<next, groups>>

LogNext ==
    \/ \E m \in Mutation, n \in 1..MaxChanges : Publish(m, n)
    \/ \E r \in Replica : Advance(r)

LogSpec == LogInit /\ [][LogNext]_logVars
=============================================================================
