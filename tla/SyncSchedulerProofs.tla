------------------------ MODULE SyncSchedulerProofs ------------------------
(***************************************************************************)
(* Proofs about SyncScheduler, for any number of shells, organizations and *)
(* edits, with and without navigator.locks, whatever fails and however     *)
(* often.                                                                  *)
(*                                                                         *)
(* LockInv says who holds the lock; HintInv what the socket of a shell may *)
(* still miss.  With them EditsAreScheduled and ChangesAreScheduled are    *)
(* inductive.                                                              *)
(***************************************************************************)
EXTENDS SyncScheduler, FiniteSetTheorems, TLAPS

(* Under locks a run holds the lock, and is never asked to start over. *)
LockInv ==
    Locks => \A h \in Hook : (Running(h) => lock = h) /\ ~rerun[h]

(* The server tells no head the feed has not reached, and a shell that is    *)
(* shown has a socket, or a timer for one, while the browser is online.      *)
HintInv ==
    \A h \in Hook :
       /\ \A o \in Org : known[h][o] <= head[o]
       /\ online /\ Mounted(h) => socket[h] # "down"

RunType == [stage : Stages \cup {"idle"}, org : Nat, rest : SUBSET Org, took : SUBSET Edit]

-----------------------------------------------------------------------------
(* A set of organizations that is not empty has a first one: of the          *)
(* intervals that end at its members one includes no other.                  *)
LEMMA FirstIsMember ==
    ASSUME NEW orgs \in SUBSET Org, orgs # {}
    PROVE  First(orgs) \in orgs
<1> DEFINE upto == {1 .. o : o \in orgs}
<1>1. orgs \subseteq Nat
  BY OrgAssumption
<1>2. \A o \in orgs : IsFiniteSet(1 .. o)
  BY <1>1, FS_Interval
<1>3. upto \subseteq FiniteSubsetsOf(Nat) /\ upto # {}
  <2>1. \A o \in orgs : 1 .. o \in SUBSET Nat
    BY <1>1
  <2>2. \A o \in orgs : 1 .. o \in FiniteSubsetsOf(Nat)
    BY <1>2, <2>1 DEF FiniteSubsetsOf
  <2> QED BY <2>2, Zenon
<1> HIDE DEF upto
<1>4. IsWellFoundedOn(StrictSubsetOrdering(Nat), FiniteSubsetsOf(Nat))
  BY FS_StrictSubsetOrderingWellFounded
<1>5. \E m \in upto : \A s \in upto : ~ (<<s, m>> \in StrictSubsetOrdering(Nat))
  BY <1>3, <1>4, WFMin
<1>6. PICK o \in orgs : \A p \in orgs : ~ (<<1 .. p, 1 .. o>> \in StrictSubsetOrdering(Nat))
  BY <1>5 DEF upto
<1>7. ASSUME NEW p \in orgs, p < o PROVE FALSE
  <2>1. 1 .. p \subseteq 1 .. o /\ o \in 1 .. o /\ o \notin 1 .. p
    BY <1>1, <1>7
  <2>2. 1 .. p \in SUBSET Nat /\ 1 .. o \in SUBSET Nat
    BY <1>1
  <2> QED BY <1>6, <2>1, <2>2 DEF StrictSubsetOrdering
<1>8. \A p \in orgs : o <= p
  BY <1>1, <1>7
<1> QED BY <1>8 DEF First

(* A run that starts visits every organization. *)
LEMMA StartedVisitsAll ==
    /\ Started \in RunType
    /\ Started.stage = "list"
    /\ Started.org \in Org
    /\ Started.rest \cup {Started.org} = Org
<1>1. First(Org) \in Org
  BY FirstIsMember, OrgAssumption
<1> QED BY <1>1, OrgAssumption DEF Started, RunType, Stages

-----------------------------------------------------------------------------
(* What the helpers of the runs do to the run of a shell. *)

LEMMA EndOfRun ==
    ASSUME TypeOK, NEW h \in Hook, End(h)
    PROVE  /\ run' \in [Hook -> RunType]
           /\ \A g \in Hook \ {h} : run'[g] = run[g] /\ rerun'[g] = rerun[g]
           /\ run'[h] = IF rerun[h] /\ Mounted(h) /\ online THEN Started ELSE Idle
           /\ rerun' \in [Hook -> BOOLEAN]
           /\ rerun'[h] = (rerun[h] /\ ~Mounted(h))
           /\ lock' = IF lock = h THEN NoHook ELSE lock
  BY StartedVisitsAll DEF TypeOK, End, Idle, RunType

LEMMA NextStage ==
    ASSUME TypeOK, NEW h \in Hook, NEW stage \in Stages, At(h, stage)
    PROVE  /\ run' \in [Hook -> RunType]
           /\ \A g \in Hook \ {h} : run'[g] = run[g]
           /\ run'[h].stage = stage
           /\ run'[h].org = run[h].org /\ run'[h].rest = run[h].rest
           /\ UNCHANGED <<rerun, lock>>
  BY DEF TypeOK, At, RunType

LEMMA OnlyTheStage ==
    ASSUME TypeOK, NEW h \in Hook, NEW stage \in Stages, At(h, stage)
    PROVE  run'[h] = [run[h] EXCEPT !.stage = stage]
  BY DEF TypeOK, At

LEMMA RunGoesOn ==
    ASSUME TypeOK, NEW h \in Hook, NextOrg(h), run[h].rest # {}, Mounted(h)
    PROVE  /\ run' \in [Hook -> RunType]
           /\ \A g \in Hook \ {h} : run'[g] = run[g]
           /\ run'[h].stage = "look"
           /\ run'[h].rest \cup {run'[h].org} = run[h].rest
           /\ UNCHANGED <<rerun, lock>>
<1> DEFINE o == First(run[h].rest)
           new == [stage |-> "look", org |-> o, rest |-> run[h].rest \ {o}, took |-> {}]
<1>1. run[h].rest \in SUBSET Org
  BY DEF TypeOK
<1>2. o \in run[h].rest
  BY <1>1, FirstIsMember
<1>3. /\ new \in RunType
      /\ new.stage = "look" /\ new.org = o /\ new.rest = run[h].rest \ {o}
  BY <1>1, <1>2, OrgAssumption DEF RunType, Stages
<1>4. run' = [run EXCEPT ![h] = new] /\ UNCHANGED <<rerun, lock>>
  BY DEF NextOrg
<1> HIDE DEF o, new
<1> QED BY <1>2, <1>3, <1>4 DEF TypeOK, RunType

LEMMA RunOfSynchronize ==
    ASSUME TypeOK, NEW h \in Hook, NEW timers \in [Hook -> BOOLEAN], Synchronize(h, timers)
    PROVE  /\ run' \in [Hook -> RunType]
           /\ timer' \in [Hook -> BOOLEAN] /\ rerun' \in [Hook -> BOOLEAN]
           /\ \A g \in Hook \ {h} :
                run'[g] = run[g] /\ rerun'[g] = rerun[g] /\ timer'[g] = timers[g]
           /\ timer'[h] = (timers[h] \/ LockTaken)
           /\ rerun'[h] = (rerun[h] \/ (~Locks /\ online /\ Running(h)))
           /\ \/ /\ online /\ ~LockTaken /\ ~Running(h)
                 /\ run'[h] = Started
                 /\ lock' = IF Locks THEN h ELSE lock
              \/ /\ ~online \/ LockTaken \/ Running(h)
                 /\ UNCHANGED <<run, lock>>
<1>1. LockTaken \in BOOLEAN /\ (~Locks /\ online /\ Running(h)) \in BOOLEAN
  BY LocksAssumption DEF LockTaken
<1>2. /\ timer' = [timers EXCEPT ![h] = @ \/ LockTaken]
      /\ rerun' = [rerun EXCEPT ![h] = @ \/ (~Locks /\ online /\ Running(h))]
      /\ rerun \in [Hook -> BOOLEAN]
  BY DEF Synchronize, TypeOK
<1>3. /\ timer' \in [Hook -> BOOLEAN]
      /\ \A g \in Hook \ {h} : timer'[g] = timers[g]
      /\ timer'[h] = (timers[h] \/ LockTaken)
  BY <1>1, <1>2, Zenon
<1>4. /\ rerun' \in [Hook -> BOOLEAN]
      /\ \A g \in Hook \ {h} : rerun'[g] = rerun[g]
      /\ rerun'[h] = (rerun[h] \/ (~Locks /\ online /\ Running(h)))
  BY <1>1, <1>2, Zenon
<1>5. CASE online /\ ~LockTaken /\ ~Running(h)
  <2>1. run' = [run EXCEPT ![h] = Started] /\ lock' = IF Locks THEN h ELSE lock
    BY <1>5 DEF Synchronize
  <2> QED BY <1>3, <1>4, <1>5, <2>1, StartedVisitsAll DEF TypeOK, RunType
<1>6. CASE ~(online /\ ~LockTaken /\ ~Running(h))
  <2>1. UNCHANGED <<run, lock>>
    BY <1>6 DEF Synchronize, runs
  <2> QED BY <1>3, <1>4, <1>6, <2>1 DEF TypeOK, RunType
<1> QED BY <1>5, <1>6

(* A batch goes, and others are left: the run stays where it is. *)
BatchesLeft(h) ==
    /\ \E batch \in SUBSET run[h].took :
          /\ batch # {} /\ batch # run[h].took
          /\ run' = [run EXCEPT ![h].took = @ \ batch]
    /\ UNCHANGED <<rerun, lock>>

LEMMA PushedBatch ==
    ASSUME TypeOK, NEW h \in Hook, Push(h)
    PROVE  Continue(h, "upload") \/ BatchesLeft(h)
<1>1. PICK batch \in (SUBSET run[h].took) \ {{}} :
        /\ pending' = pending \ batch
        /\ IF batch = run[h].took THEN Continue(h, "upload")
           ELSE /\ run' = [run EXCEPT ![h].took = @ \ batch]
                /\ UNCHANGED <<rerun, lock>>
  BY Zenon DEF Push
<1>2. batch \in SUBSET run[h].took /\ batch # {}
  OBVIOUS
<1> QED BY <1>1, <1>2, Zenon DEF BatchesLeft

LEMMA RunKeepsItsPlace ==
    ASSUME TypeOK, NEW h \in Hook, BatchesLeft(h)
    PROVE  /\ run' \in [Hook -> RunType]
           /\ \A g \in Hook \ {h} : run'[g] = run[g]
           /\ run'[h].stage = run[h].stage
           /\ run'[h].org = run[h].org /\ run'[h].rest = run[h].rest
           /\ run'[h] = [run[h] EXCEPT !.took = run'[h].took]
           /\ run'[h].took \subseteq run[h].took /\ run'[h].took # run[h].took
           /\ UNCHANGED <<rerun, lock>>
<1>1. PICK batch \in SUBSET run[h].took :
        /\ batch # {} /\ batch # run[h].took
        /\ run' = [run EXCEPT ![h].took = @ \ batch]
  BY DEF BatchesLeft
<1>2. run \in [Hook -> RunType]
  BY DEF TypeOK, RunType
<1>3. run'[h] = [run[h] EXCEPT !.took = run[h].took \ batch]
  BY <1>1, <1>2
<1>4. run[h] \in RunType /\ run[h].took \ batch \in SUBSET Edit
  BY <1>2 DEF RunType
<1>5. run'[h] \in RunType /\ run'[h].took = run[h].took \ batch
  BY <1>3, <1>4 DEF RunType
<1>6. run' \in [Hook -> RunType] /\ \A g \in Hook \ {h} : run'[g] = run[g]
  BY <1>1, <1>2, <1>3, <1>5
<1> QED BY <1>1, <1>3, <1>4, <1>5, <1>6 DEF BatchesLeft, RunType

(* The part of TypeOK that the runs are about. *)
RunsTyped ==
    /\ run \in [Hook -> RunType]
    /\ \A h \in Hook : Running(h) => run[h].org \in Org
    /\ lock \in Hook \cup {NoHook}
    /\ rerun \in [Hook -> BOOLEAN]

LEMMA StepsAreTyped ==
    ASSUME TypeOK, NEW h \in Hook, Running(h), NEW stage \in Stages,
           At(h, stage) \/ Continue(h, stage) \/ NextOrg(h) \/ End(h)
    PROVE  RunsTyped'
<1>0. /\ \A g \in Hook : Running(g) => run[g].org \in Org
      /\ lock \in Hook \cup {NoHook} /\ rerun \in [Hook -> BOOLEAN]
  BY DEF TypeOK
<1>1. CASE End(h)
  <2>1. Running(h)' => run'[h].org \in Org
    BY <1>1, EndOfRun, StartedVisitsAll DEF Running, Idle
  <2>2. \A g \in Hook \ {h} : Running(g)' => run'[g].org \in Org
    BY <1>0, <1>1, EndOfRun DEF Running
  <2> QED BY <1>0, <1>1, <2>1, <2>2, EndOfRun DEF RunsTyped
<1>2. CASE At(h, stage)
  <2>1. \A g \in Hook : Running(g)' => run'[g].org \in Org
    BY <1>0, <1>2, NextStage DEF Running
  <2> QED BY <1>0, <1>2, <2>1, NextStage DEF RunsTyped
<1>3. CASE NextOrg(h)
  <2>1. CASE run[h].rest = {} \/ ~Mounted(h)
    BY <1>1, <1>3, <2>1 DEF NextOrg
  <2>2. CASE run[h].rest # {} /\ Mounted(h)
    <3>1. run[h].rest \subseteq Org
      BY DEF TypeOK
    <3> QED BY <1>3, <2>2, <3>1, RunGoesOn DEF RunsTyped, TypeOK, Running
  <2> QED BY <2>1, <2>2
<1> QED BY <1>1, <1>2, <1>3 DEF Continue

LEMMA TypeInit == Init => TypeOK
  BY OrgAssumption DEF Init, TypeOK, Idle, Running, Mounted

LEMMA TypeStep == TypeOK /\ [Next]_vars => TypeOK'
<1> SUFFICES ASSUME TypeOK, [Next]_vars PROVE TypeOK'
  OBVIOUS
<1> USE BoundsAssumption DEF RunType
<1>1. ASSUME NEW e \in Edit, QueueEdit(e) PROVE TypeOK'
  BY <1>1 DEF QueueEdit, PokeAll, TypeOK, Running, Mounted, runs, server, sockets, counters
<1>0. ASSUME NEW o \in Org, Page(o)
      PROVE  have' \in [Org -> Nat] /\ \A p \in Org : have'[p] \in 0 .. head[p]
  <2>1. /\ have \in [Org -> Nat] /\ head \in [Org -> Nat]
        /\ \A p \in Org : have[p] \in 0 .. head[p]
    BY DEF TypeOK
  <2> QED BY <1>0, <2>1 DEF Page
<1>2. ASSUME NEW o \in Org, OthersPublish(o) PROVE TypeOK'
  BY <1>2 DEF OthersPublish, TypeOK, Running, replica, hooks, runs, sockets, counters
<1>3. ASSUME NEW o \in Org, RemoveMembership(o) PROVE TypeOK'
  BY <1>3 DEF RemoveMembership, TypeOK, Running, replica, hooks, runs, sockets, counters
<1>4. ASSUME GoOffline PROVE TypeOK'
  <2>1. offline' = offline + 1 /\ online' = FALSE
    BY <1>4 DEF GoOffline
  <2>2. offline \in Nat
    BY DEF TypeOK
  <2>3. offline' \in Nat
    BY <2>1, <2>2
  <2>4. online' \in BOOLEAN
    BY <2>1, Zenon
  <2> QED BY <1>4, <2>3, <2>4 DEF GoOffline, TypeOK, Running, server, replica, hooks, runs, sockets
<1>5. ASSUME GoOnline PROVE TypeOK'
  BY <1>5 DEF GoOnline, PokeAll, TypeOK, Running, Mounted, server, replica, runs, counters
<1>6. ASSUME NEW h \in Hook, Mount(h) PROVE TypeOK'
  BY <1>6 DEF Mount, TypeOK, Running, server, replica, runs, counters
<1>7. ASSUME NEW h \in Hook, Unmount(h) PROVE TypeOK'
  BY <1>7 DEF Unmount, Leave, TypeOK, Running, server, replica, runs, counters
<1>8. ASSUME NEW h \in Hook, CloseTab(h) PROVE TypeOK'
  BY <1>8 DEF CloseTab, Leave, TypeOK, Running, Idle, server, replica, counters
<1>9. ASSUME NEW h \in Hook, NEW timers \in [Hook -> BOOLEAN], Synchronize(h, timers)
      PROVE  RunsTyped' /\ timer' \in [Hook -> BOOLEAN]
  BY <1>9, RunOfSynchronize, StartedVisitsAll DEF RunsTyped, TypeOK, Running
<1>10. ASSUME NEW h \in Hook, Notified(h) PROVE TypeOK'
  <2>1. RunsTyped' /\ timer' \in [Hook -> BOOLEAN]
    BY <1>9, <1>10 DEF Notified, TypeOK
  <2> QED BY <1>10, <2>1 DEF Notified, RunsTyped, TypeOK, server, replica, sockets, counters
<1>11. ASSUME NEW h \in Hook, TimerFires(h) PROVE TypeOK'
  <2>1. [timer EXCEPT ![h] = FALSE] \in [Hook -> BOOLEAN]
    BY DEF TypeOK
  <2>2. RunsTyped' /\ timer' \in [Hook -> BOOLEAN]
    BY <1>9, <1>11, <2>1 DEF TimerFires
  <2> QED BY <1>11, <2>2 DEF TimerFires, RunsTyped, TypeOK, server, replica, sockets, counters
<1>12. ASSUME NEW h \in Hook, List(h) \/ Look(h) PROVE TypeOK'
  <2>1. RunsTyped'
    BY <1>12, StepsAreTyped DEF List, Look, Running, Stages
  <2> QED BY <1>12, <2>1 DEF List, Look, RunsTyped, TypeOK, server, replica, sockets, counters
<1>13. ASSUME NEW h \in Hook, Pull(h) PROVE TypeOK'
  <2>1. RunsTyped'
    BY <1>13, StepsAreTyped DEF Pull, Running, Stages
  <2>2. run[h].org \in Org
    BY <1>13 DEF Pull, Running, TypeOK
  <2>3. upgrade' \in SUBSET Org
    BY <1>13, <2>2 DEF Pull, TypeOK
  <2>4. have' \in [Org -> Nat] /\ \A o \in Org : have'[o] \in 0 .. head[o]
    <3>1. CASE UNCHANGED have
      BY <3>1 DEF TypeOK
    <3>2. CASE Page(run[h].org)
      BY <1>0, <2>2, <3>2
    <3> QED BY <1>13, <3>1, <3>2 DEF Pull
  <2> QED BY <1>13, <2>1, <2>3, <2>4 DEF Pull, RunsTyped, TypeOK, server, sockets, counters
<1>14. ASSUME NEW h \in Hook, Read(h) PROVE TypeOK'
  <2> DEFINE mine == {e \in pending : EditOrg[e] = run[h].org}
  <2>1. Running(h) /\ mine \in SUBSET Edit
    BY <1>14 DEF Read, Running, TypeOK
  <2>2. RunsTyped'
    <3>1. CASE mine = {}
      BY <1>14, <2>1, <3>1, StepsAreTyped DEF Read, Stages
    <3>2. CASE mine # {}
      <4>1. run' = [run EXCEPT ![h].stage = "push", ![h].took = mine] /\ UNCHANGED <<rerun, lock>>
        BY <1>14, <3>2 DEF Read
      <4> HIDE DEF mine
      <4>2. run' \in [Hook -> RunType]
        <5>1. run \in [Hook -> RunType]
          BY DEF TypeOK
        <5> QED BY <2>1, <4>1, <5>1 DEF Stages
      <4>3. \A g \in Hook : Running(g)' => run'[g].org \in Org
        BY <2>1, <4>1 DEF TypeOK, Running
      <4> QED BY <4>1, <4>2, <4>3 DEF RunsTyped, TypeOK
    <3> QED BY <3>1, <3>2
  <2> QED BY <1>14, <2>2 DEF Read, RunsTyped, TypeOK, server, replica, sockets, counters
<1>15. ASSUME NEW h \in Hook, Push(h) PROVE TypeOK'
  <2>1. RunsTyped'
    <3>1. CASE Continue(h, "upload")
      BY <1>15, <3>1, StepsAreTyped DEF Push, Running, Stages
    <3>2. CASE BatchesLeft(h)
      BY <3>2, RunKeepsItsPlace DEF RunsTyped, TypeOK, Running
    <3> QED BY <1>15, <3>1, <3>2, PushedBatch
  <2>2. Running(h) /\ run[h].org \in Org
    BY <1>15 DEF Push, Running, TypeOK
  <2> QED BY <1>15, <2>1, <2>2 DEF Push, PokeAll, Mounted, RunsTyped, TypeOK, sockets, counters
<1>16. ASSUME NEW h \in Hook, Upload(h) PROVE TypeOK'
  <2>1. RunsTyped'
    BY <1>16, StepsAreTyped DEF Upload, Running, Stages
  <2> QED BY <1>16, <2>1 DEF Upload, RunsTyped, TypeOK, server, replica, sockets, counters
<1>17. ASSUME NEW h \in Hook, Drain(h) PROVE TypeOK'
  <2>1. RunsTyped'
    BY <1>17, StepsAreTyped DEF Drain, Running, Stages
  <2>2. have' \in [Org -> Nat] /\ \A o \in Org : have'[o] \in 0 .. head[o]
    <3>1. run[h].org \in Org /\ Page(run[h].org)
      BY <1>17 DEF Drain, Running, TypeOK
    <3> QED BY <1>0, <3>1
  <2> QED BY <1>17, <2>1, <2>2 DEF Drain, RunsTyped, TypeOK, server, sockets, counters
<1>18. ASSUME NEW h \in Hook, RequestFails(h) PROVE TypeOK'
  <2>1. RunsTyped'
    BY <1>18, StepsAreTyped DEF RequestFails, Running, Stages
  <2>2. timer' \in [Hook -> BOOLEAN]
    <3>1. Mounted(h) \in BOOLEAN /\ timer \in [Hook -> BOOLEAN]
      BY DEF Mounted, TypeOK
    <3>2. timer' = [timer EXCEPT ![h] = @ \/ Mounted(h)]
      BY <1>18 DEF RequestFails
    <3> QED BY <3>1, <3>2, Zenon
  <2>3. failures' \in Nat
    BY <1>18 DEF RequestFails, TypeOK
  <2> QED BY <1>18, <2>1, <2>2, <2>3 DEF RequestFails, RunsTyped, TypeOK, server, replica, sockets
<1>19. ASSUME NEW h \in Hook, Hint(h) \/ SocketCloses(h) PROVE TypeOK'
  <2>1. /\ socket' \in [Hook -> {"down", "opening", "open", "subscribed", "waiting"}]
        /\ known' \in [Hook -> [Org -> Nat]]
        /\ poke' \in [Hook -> BOOLEAN]
        /\ failures' \in Nat
    <3>1. /\ socket \in [Hook -> {"down", "opening", "open", "subscribed", "waiting"}]
          /\ known \in [Hook -> [Org -> Nat]] /\ head \in [Org -> Nat]
          /\ poke \in [Hook -> BOOLEAN] /\ failures \in Nat
      BY DEF TypeOK
    <3>2. CASE SocketOpens(h)
      BY <3>1, <3>2 DEF SocketOpens, counters
    <3>3. CASE Subscribe(h)
      BY <3>1, <3>3 DEF Subscribe, counters
    <3>4. CASE Poll(h)
      BY <3>1, <3>4 DEF Poll, counters
    <3>5. CASE Reconnect(h)
      BY <3>1, <3>5 DEF Reconnect, hooks, counters
    <3>6. CASE SocketCloses(h)
      BY <3>1, <3>6 DEF SocketCloses, hooks
    <3> QED BY <1>19, <3>2, <3>3, <3>4, <3>5, <3>6 DEF Hint
  <2>2. UNCHANGED <<online, server, replica, phase, timer, rerun, runs, offline>>
    BY <1>19 DEF Hint, SocketOpens, Subscribe, Poll, Reconnect, SocketCloses, hooks, counters
  <2> QED BY <2>1, <2>2 DEF TypeOK, Running, server, replica, runs
<1>20. ASSUME UNCHANGED vars PROVE TypeOK'
  BY <1>20 DEF vars, TypeOK, Running, server, replica, hooks, runs, sockets, counters
<1> QED
  BY <1>1, <1>2, <1>3, <1>4, <1>5, <1>6, <1>7, <1>8, <1>10, <1>11, <1>12, <1>13, <1>14,
     <1>15, <1>16, <1>17, <1>18, <1>19, <1>20 DEF Next, Step

(* The scheduler and its helpers keep their types. *)
THEOREM TypeCorrect == Spec => []TypeOK
<1> QED BY TypeInit, TypeStep, PTL DEF Spec

-----------------------------------------------------------------------------
(* The lock and the sockets. *)

LEMMA LockInit == Init => LockInv
  BY DEF Init, LockInv, Running, Idle

LEMMA StepsKeepTheLock ==
    ASSUME TypeOK, LockInv, NEW h \in Hook, Running(h), NEW stage \in Stages,
           At(h, stage) \/ Continue(h, stage) \/ NextOrg(h) \/ End(h)
    PROVE  LockInv'
<1>1. CASE End(h)
  BY <1>1, EndOfRun, HookAssumption DEF LockInv, Running, Idle
<1>2. CASE At(h, stage)
  BY <1>2, NextStage DEF LockInv, Running
<1>3. CASE NextOrg(h)
  <2>1. CASE run[h].rest = {} \/ ~Mounted(h)
    BY <1>1, <1>3, <2>1 DEF NextOrg
  <2>2. CASE run[h].rest # {} /\ Mounted(h)
    BY <1>3, <2>2, RunGoesOn DEF LockInv, Running
  <2> QED BY <2>1, <2>2
<1> QED BY <1>1, <1>2, <1>3 DEF Continue

LEMMA LockStep == TypeOK /\ LockInv /\ [Next]_vars => LockInv'
<1> SUFFICES ASSUME TypeOK, LockInv, [Next]_vars PROVE LockInv'
  OBVIOUS
<1>1. ASSUME UNCHANGED <<rerun, runs>> PROVE LockInv'
  BY <1>1 DEF LockInv, Running, runs
<1>2. ASSUME NEW h \in Hook, CloseTab(h) PROVE LockInv'
  BY <1>2 DEF CloseTab, Leave, LockInv, Running, Idle, TypeOK
<1>3. ASSUME NEW h \in Hook, NEW timers \in [Hook -> BOOLEAN], Synchronize(h, timers)
      PROVE  LockInv'
  BY <1>3, RunOfSynchronize, HookAssumption DEF LockInv, Running, LockTaken
<1>4. ASSUME NEW h \in Hook, Notified(h) PROVE LockInv'
  BY <1>3, <1>4 DEF Notified, TypeOK
<1>5. ASSUME NEW h \in Hook, TimerFires(h) PROVE LockInv'
  <2>1. [timer EXCEPT ![h] = FALSE] \in [Hook -> BOOLEAN]
    BY DEF TypeOK
  <2> QED BY <1>3, <1>5, <2>1 DEF TimerFires
<1>6. ASSUME NEW h \in Hook,
             List(h) \/ Look(h) \/ Pull(h) \/ Push(h) \/ Upload(h) \/ Drain(h)
      PROVE  LockInv'
  <2>1. CASE Push(h)
    <3>1. CASE Continue(h, "upload")
      BY <2>1, <3>1, StepsKeepTheLock DEF Push, Running, Stages
    <3>2. CASE BatchesLeft(h)
      BY <3>2, RunKeepsItsPlace DEF LockInv, Running
    <3> QED BY <2>1, <3>1, <3>2, PushedBatch
  <2> QED BY <1>6, <2>1, StepsKeepTheLock DEF List, Look, Pull, Upload, Drain, Running, Stages
<1>7. ASSUME NEW h \in Hook, RequestFails(h) PROVE LockInv'
  BY <1>7, StepsKeepTheLock DEF RequestFails, Running, Stages
<1>8. ASSUME NEW h \in Hook, Read(h) PROVE LockInv'
  <2> DEFINE mine == {e \in pending : EditOrg[e] = run[h].org}
  <2>1. CASE mine = {}
    BY <1>8, <2>1, StepsKeepTheLock DEF Read, Running, Stages
  <2>2. CASE mine # {}
    <3>1. run' = [run EXCEPT ![h].stage = "push", ![h].took = mine] /\ UNCHANGED <<rerun, lock>>
      BY <1>8, <2>2 DEF Read
    <3> HIDE DEF mine
    <3>2. Running(h)
      BY <1>8 DEF Read, Running
    <3> QED BY <3>1, <3>2 DEF LockInv, Running, TypeOK
  <2> QED BY <2>1, <2>2
<1>9. ASSUME NEW h \in Hook, Mount(h) \/ Unmount(h) \/ Hint(h) \/ SocketCloses(h) PROVE LockInv'
  BY <1>1, <1>9 DEF Mount, Unmount, Leave, Hint, SocketOpens, Subscribe, Poll, Reconnect,
                    SocketCloses, hooks
<1>10. ASSUME UNCHANGED vars PROVE LockInv'
  BY <1>1, <1>10 DEF vars, hooks
<1>11. ASSUME \/ \E e \in Edit : QueueEdit(e)
              \/ \E o \in Org : OthersPublish(o) \/ RemoveMembership(o)
              \/ GoOffline \/ GoOnline
       PROVE  LockInv'
  BY <1>1, <1>11 DEF QueueEdit, OthersPublish, RemoveMembership, GoOffline, GoOnline, hooks
<1> QED
  BY <1>2, <1>4, <1>5, <1>6, <1>7, <1>8, <1>9, <1>10, <1>11 DEF Next, Step

(* Where the browser has locks, the hooks of its tabs and of successive      *)
(* users never run at the same time.                                         *)
THEOREM RunsAreSerial == Spec => []OneRunAtATime
<1>1. LockInv => OneRunAtATime
  BY DEF LockInv, OneRunAtATime
<1> QED BY <1>1, TypeInit, TypeStep, LockInit, LockStep, PTL DEF Spec

(* Only a shell that is shown has a timer. *)
TimerInv == \A h \in Hook : timer[h] => Mounted(h)

LEMMA TimerInit == Init => TimerInv
  BY DEF Init, TimerInv

LEMMA TimerStep == TypeOK /\ TimerInv /\ [Next]_vars => TimerInv'
<1> SUFFICES ASSUME TypeOK, TimerInv, [Next]_vars, NEW g \in Hook, timer'[g]
             PROVE  phase'[g] = "mounted"
  BY DEF TimerInv, Mounted
<1>0. /\ timer[g] => phase[g] = "mounted"
      /\ timer \in [Hook -> BOOLEAN] /\ phase \in [Hook -> {"new", "mounted", "gone"}]
  BY DEF TimerInv, Mounted, TypeOK
<1>1. ASSUME UNCHANGED <<phase, timer>> PROVE phase'[g] = "mounted"
  BY <1>0, <1>1
<1>2. ASSUME NEW h \in Hook, Mount(h) \/ Unmount(h) \/ CloseTab(h)
      PROVE  phase'[g] = "mounted"
  BY <1>0, <1>2 DEF Mount, Unmount, CloseTab, Leave
<1>3. ASSUME NEW h \in Hook, NEW timers \in [Hook -> BOOLEAN], Synchronize(h, timers),
             UNCHANGED phase, Mounted(h), \A f \in Hook : timers[f] => timer[f]
      PROVE  phase'[g] = "mounted"
  BY <1>0, <1>3, RunOfSynchronize DEF Mounted
<1>4. ASSUME NEW h \in Hook, Notified(h) PROVE phase'[g] = "mounted"
  BY <1>0, <1>3, <1>4 DEF Notified
<1>5. ASSUME NEW h \in Hook, TimerFires(h) PROVE phase'[g] = "mounted"
  <2> DEFINE timers == [timer EXCEPT ![h] = FALSE]
  <2>1. timers \in [Hook -> BOOLEAN] /\ \A f \in Hook : timers[f] => timer[f]
    BY <1>0
  <2>2. Synchronize(h, timers) /\ UNCHANGED phase /\ Mounted(h)
    BY <1>5 DEF TimerFires, TimerInv
  <2> HIDE DEF timers
  <2> QED BY <1>3, <2>1, <2>2
<1>6. ASSUME NEW h \in Hook, RequestFails(h) PROVE phase'[g] = "mounted"
  <2>1. timer' = [timer EXCEPT ![h] = @ \/ Mounted(h)] /\ UNCHANGED phase
    BY <1>6 DEF RequestFails
  <2> QED BY <1>0, <2>1 DEF Mounted
<1>7. ASSUME NEW h \in Hook, Step(h) \/ Hint(h) \/ SocketCloses(h)
      PROVE  phase'[g] = "mounted"
  BY <1>1, <1>7 DEF Step, List, Look, Pull, Read, Push, Upload, Drain, Hint, SocketOpens,
                    Subscribe, Poll, Reconnect, SocketCloses, hooks
<1>8. ASSUME \/ \E e \in Edit : QueueEdit(e)
             \/ \E o \in Org : OthersPublish(o) \/ RemoveMembership(o)
             \/ GoOffline \/ GoOnline \/ UNCHANGED vars
      PROVE  phase'[g] = "mounted"
  BY <1>1, <1>8 DEF QueueEdit, OthersPublish, RemoveMembership, GoOffline, GoOnline, vars, hooks
<1> QED BY <1>2, <1>4, <1>5, <1>6, <1>7, <1>8 DEF Next

(* Whatever happens to the run of a shell that has gone stays within the     *)
(* call that the run awaited when the shell went.                            *)
THEOREM GoneShellsFinish == Spec => GoneShellFinishesItsCall
<1> DEFINE Stays == \A h \in Hook : phase[h] = "gone" => SameCall(run[h], run'[h])
<1>1. TypeOK /\ TimerInv /\ [Next]_vars => [Stays]_vars
  <2> SUFFICES ASSUME TypeOK, TimerInv, Next, NEW g \in Hook, phase[g] = "gone"
               PROVE  SameCall(run[g], run'[g])
    OBVIOUS
  <2>0. ~Mounted(g) /\ ~timer[g]
    BY DEF Mounted, TimerInv
  <2>1. ASSUME run'[g] = run[g] \/ run'[g] = Idle PROVE SameCall(run[g], run'[g])
    BY <2>1 DEF SameCall
  <2>2. ASSUME NEW h \in Hook, CloseTab(h) PROVE SameCall(run[g], run'[g])
    BY <2>0, <2>1, <2>2 DEF CloseTab, Leave, TypeOK
  <2>3. ASSUME NEW h \in Hook, Notified(h) PROVE SameCall(run[g], run'[g])
    <3>1. Synchronize(h, timer) /\ h # g /\ timer \in [Hook -> BOOLEAN]
      BY <2>0, <2>3 DEF Notified, TypeOK
    <3> QED BY <2>1, <3>1, RunOfSynchronize
  <2>4. ASSUME NEW h \in Hook, TimerFires(h) PROVE SameCall(run[g], run'[g])
    <3>1. [timer EXCEPT ![h] = FALSE] \in [Hook -> BOOLEAN]
      BY DEF TypeOK
    <3>2. Synchronize(h, [timer EXCEPT ![h] = FALSE]) /\ h # g
      BY <2>0, <2>4 DEF TimerFires
    <3> QED BY <2>1, <3>1, <3>2, RunOfSynchronize
  <2>5. ASSUME NEW h \in Hook, NEW stage \in Stages,
               Continue(h, stage) \/ NextOrg(h) \/ End(h)
        PROVE  SameCall(run[g], run'[g])
    <3>1. CASE End(h)
      BY <2>0, <2>1, <3>1, EndOfRun
    <3>2. CASE Mounted(h) /\ At(h, stage)
      BY <2>0, <2>1, <3>2, NextStage
    <3>3. CASE NextOrg(h) /\ run[h].rest # {} /\ Mounted(h)
      BY <2>0, <2>1, <3>3, RunGoesOn
    <3> QED BY <2>5, <3>1, <3>2, <3>3 DEF Continue, NextOrg
  <2>6. ASSUME NEW h \in Hook, List(h) \/ Pull(h) \/ Upload(h) \/ Drain(h) \/ RequestFails(h)
        PROVE  SameCall(run[g], run'[g])
    BY <2>5, <2>6 DEF List, Pull, Upload, Drain, RequestFails, Stages
  <2>7. ASSUME NEW h \in Hook, Look(h) PROVE SameCall(run[g], run'[g])
    <3>1. CASE NextOrg(h)
      BY <2>5, <3>1 DEF Stages
    <3>2. CASE At(h, "pull")
      <4>1. run[h].stage = "look"
        BY <2>7 DEF Look
      <4> QED BY <2>1, <3>2, <4>1, NextStage, OnlyTheStage DEF SameCall, Stages
    <3> QED BY <2>7, <3>1, <3>2 DEF Look
  <2>8. ASSUME NEW h \in Hook, Read(h) PROVE SameCall(run[g], run'[g])
    <3> DEFINE mine == {e \in pending : EditOrg[e] = run[h].org}
    <3>1. CASE mine = {}
      BY <2>5, <2>8, <3>1 DEF Read, Stages
    <3>2. CASE mine # {}
      <4>1. /\ run[h].stage = "read"
            /\ run' = [run EXCEPT ![h].stage = "push", ![h].took = mine]
        BY <2>8, <3>2 DEF Read
      <4> HIDE DEF mine
      <4>2. run[h] \in RunType /\ run \in [Hook -> RunType]
        BY DEF TypeOK, RunType
      <4>3. run'[h] = [run[h] EXCEPT !.stage = "push", !.took = mine]
        BY <4>1, <4>2
      <4>4. run'[h].took = mine
        BY <4>2, <4>3 DEF RunType
      <4>5. g # h => run'[g] = run[g]
        BY <4>1, <4>2
      <4> QED BY <2>1, <4>1, <4>3, <4>4, <4>5 DEF SameCall
    <3> QED BY <3>1, <3>2
  <2>9. ASSUME NEW h \in Hook, Push(h) PROVE SameCall(run[g], run'[g])
    <3>1. CASE BatchesLeft(h)
      <4>1. run[h].stage = "push"
        BY <2>9 DEF Push
      <4> QED BY <2>1, <3>1, <4>1, RunKeepsItsPlace DEF SameCall
    <3> QED BY <2>5, <2>9, <3>1, PushedBatch DEF Stages
  <2>10. ASSUME NEW h \in Hook, Mount(h) \/ Unmount(h) \/ Hint(h) \/ SocketCloses(h)
         PROVE  SameCall(run[g], run'[g])
    BY <2>1, <2>10 DEF Mount, Unmount, Hint, SocketOpens, Subscribe, Poll, Reconnect,
                       SocketCloses, runs
  <2>11. ASSUME \/ \E e \in Edit : QueueEdit(e)
                \/ \E o \in Org : OthersPublish(o) \/ RemoveMembership(o)
                \/ GoOffline \/ GoOnline
         PROVE  SameCall(run[g], run'[g])
    BY <2>1, <2>11 DEF QueueEdit, OthersPublish, RemoveMembership, GoOffline, GoOnline, runs
  <2> QED
    BY <2>2, <2>3, <2>4, <2>6, <2>7, <2>8, <2>9, <2>10, <2>11 DEF Next, Step
<1> QED
  BY <1>1, TypeInit, TypeStep, TimerInit, TimerStep, PTL DEF Spec, GoneShellFinishesItsCall

LEMMA HintInit == Init => HintInv
  BY DEF Init, HintInv, Mounted

LEMMA HintStep == TypeOK /\ HintInv /\ [Next]_vars => HintInv'
<1> SUFFICES ASSUME TypeOK, HintInv, [Next]_vars, NEW g \in Hook
             PROVE  /\ \A o \in Org : known'[g][o] <= head'[o]
                    /\ online' /\ phase'[g] = "mounted" => socket'[g] # "down"
  BY DEF HintInv, Mounted
<1> DEFINE Goal == /\ \A o \in Org : known'[g][o] <= head'[o]
                   /\ online' /\ phase'[g] = "mounted" => socket'[g] # "down"
<1>0. /\ \A o \in Org : known[g][o] <= head[o]
      /\ online /\ phase[g] = "mounted" => socket[g] # "down"
      /\ known \in [Hook -> [Org -> Nat]] /\ head \in [Org -> Nat]
      /\ socket \in [Hook -> {"down", "opening", "open", "subscribed", "waiting"}]
      /\ phase \in [Hook -> {"new", "mounted", "gone"}]
  BY DEF HintInv, TypeOK, Mounted
<1>1. ASSUME UNCHANGED <<sockets, head, phase>>, online' => online PROVE Goal
  BY <1>0, <1>1 DEF sockets
<1>2. ASSUME NEW e \in Edit, QueueEdit(e) PROVE Goal
  BY <1>1, <1>2 DEF QueueEdit, server
<1>3. ASSUME NEW o \in Org, OthersPublish(o) PROVE Goal
  BY <1>0, <1>3 DEF OthersPublish, sockets, hooks
<1>4. ASSUME NEW o \in Org, RemoveMembership(o) PROVE Goal
  BY <1>1, <1>4 DEF RemoveMembership, hooks
<1>5. ASSUME GoOffline PROVE Goal
  BY <1>0, <1>5 DEF GoOffline, sockets, server, hooks
<1>6. ASSUME GoOnline PROVE Goal
  BY <1>0, <1>6 DEF GoOnline, server, Mounted
<1>7. ASSUME NEW h \in Hook, Mount(h) \/ Unmount(h) \/ CloseTab(h) PROVE Goal
  BY <1>0, <1>7 DEF Mount, Unmount, CloseTab, Leave, server
<1>8. ASSUME NEW h \in Hook, Notified(h) \/ TimerFires(h) PROVE Goal
  BY <1>1, <1>8 DEF Notified, TimerFires, server
<1>9. ASSUME NEW h \in Hook, List(h) \/ Look(h) \/ Read(h) \/ Upload(h) \/ RequestFails(h) PROVE Goal
  BY <1>1, <1>9 DEF List, Look, Read, Upload, RequestFails, server
<1>10. ASSUME NEW h \in Hook, Pull(h) \/ Drain(h) PROVE Goal
  BY <1>1, <1>10 DEF Pull, Drain, server
<1>11. ASSUME NEW h \in Hook, Push(h) PROVE Goal
  <2>1. /\ head' = [head EXCEPT ![run[h].org] = @ + 1]
        /\ UNCHANGED <<online, phase, socket, known>>
    BY <1>11 DEF Push, sockets
  <2> QED BY <1>0, <2>1
<1>12. ASSUME NEW h \in Hook, SocketOpens(h) \/ Subscribe(h) \/ Poll(h) PROVE Goal
  BY <1>0, <1>12 DEF SocketOpens, Subscribe, Poll, server
<1>13. ASSUME NEW h \in Hook, Reconnect(h) \/ SocketCloses(h) PROVE Goal
  BY <1>0, <1>13 DEF Reconnect, SocketCloses, server, hooks
<1>14. ASSUME UNCHANGED vars PROVE Goal
  BY <1>1, <1>14 DEF vars, server, hooks
<1> QED
  BY <1>2, <1>3, <1>4, <1>5, <1>6, <1>7, <1>8, <1>9, <1>10, <1>11, <1>12, <1>13, <1>14
     DEF Next, Step, Hint

-----------------------------------------------------------------------------
(* No edit is forgotten.  What EditsAreScheduled says of one shell:          *)
EditsOf(g) ==
    online => \A e \in pending :
       Mounted(g) /\ EditOrg[e] \notin upgrade =>
          timer[g] \/ poke[g] \/ rerun[g] \/ WillPush(g, e)

(* A step that leaves the shell's run alone forgets no edit.                 *)
LEMMA EditsStayScheduled ==
    ASSUME EditsAreScheduled, NEW g \in Hook,
           online' => online, phase'[g] = "mounted" => phase[g] = "mounted",
           pending' \subseteq pending, upgrade \subseteq upgrade',
           run'[g] = run[g], rerun[g] => rerun'[g],
           timer[g] => timer'[g], poke[g] => poke'[g]
    PROVE  EditsOf(g)'
  BY DEF EditsAreScheduled, EditsOf, WillPush, Running, Mounted

(* Neither does one that moves it on, as long as it passes by nothing but    *)
(* organizations this build cannot read, or leaves a timer behind.           *)
LEMMA EditsOfTheRun ==
    ASSUME TypeOK, EditsAreScheduled, NEW h \in Hook, Running(h),
           UNCHANGED <<online, phase>>,
           pending' \subseteq pending, upgrade \subseteq upgrade',
           timer[h] => timer'[h], poke[h] => poke'[h],
           \/ rerun'[h] = rerun[h]
           \/ End(h),
           \A e \in pending' :
              WillPush(h, e) =>
                 \/ EditOrg[e] \in upgrade' \/ WillPush(h, e)'
                 \/ Mounted(h) => timer'[h] \/ poke'[h]
    PROVE  EditsOf(h)'
<1> SUFFICES ASSUME online, Mounted(h), NEW e \in pending', EditOrg[e] \notin upgrade'
             PROVE  timer'[h] \/ poke'[h] \/ rerun'[h] \/ WillPush(h, e)'
  BY DEF EditsOf, Mounted
<1>1. timer[h] \/ poke[h] \/ rerun[h] \/ WillPush(h, e)
  BY DEF EditsAreScheduled
<1>2. CASE rerun[h]
  <2>1. CASE End(h)
    <3>1. run'[h] = Started
      BY <1>2, <2>1, EndOfRun
    <3>2. EditOrg[e] \in Org
      BY OrgAssumption DEF TypeOK
    <3> QED BY <3>1, <3>2, StartedVisitsAll DEF WillPush, Running
  <2> QED BY <1>2, <2>1
<1> QED BY <1>1, <1>2

LEMMA OnlyTheRunMoves ==
    ASSUME TypeOK, NEW h \in Hook, Running(h), NEW stage \in Stages,
           At(h, stage) \/ Continue(h, stage) \/ NextOrg(h) \/ End(h)
    PROVE  /\ \A g \in Hook \ {h} : run'[g] = run[g] /\ rerun'[g] = rerun[g]
           /\ rerun'[h] = rerun[h] \/ End(h)
<1>1. CASE End(h)
  BY <1>1, EndOfRun
<1>2. CASE At(h, stage)
  BY <1>2, NextStage
<1>3. CASE NextOrg(h) /\ run[h].rest # {} /\ Mounted(h)
  BY <1>3, RunGoesOn
<1> QED BY <1>1, <1>2, <1>3 DEF Continue, NextOrg

(* A run that leaves an organization still visits the rest, if it goes on.   *)
LEMMA StillToVisit ==
    ASSUME TypeOK, NEW h \in Hook, Running(h), NextOrg(h),
           NEW e \in pending, WillPush(h, e), EditOrg[e] # run[h].org \/ run[h].stage = "drain",
           run[h].stage # "push", Mounted(h)
    PROVE  WillPush(h, e)'
<1>1. EditOrg[e] \in run[h].rest
  BY DEF WillPush
<1> QED BY <1>1, RunGoesOn DEF WillPush, Running

LEMMA EditsInit == Init => EditsAreScheduled
  BY DEF Init, EditsAreScheduled

LEMMA EditsOfSynchronize ==
    ASSUME TypeOK, LockInv, EditsAreScheduled, NEW h \in Hook, NEW g \in Hook,
           NEW timers \in [Hook -> BOOLEAN], Synchronize(h, timers),
           UNCHANGED <<online, phase, pending, upgrade>>,
           \A f \in Hook \ {h} : timers[f] = timer[f] /\ poke'[f] = poke[f]
    PROVE  EditsOf(g)'
<1>1. CASE g # h
  BY <1>1, EditsStayScheduled, RunOfSynchronize
<1>2. CASE g = h
  <2>1. CASE online /\ ~LockTaken /\ ~Running(h)
    <3>1. run'[h] = Started
      BY <2>1, RunOfSynchronize
    <3>2. \A e \in pending' : EditOrg[e] \in Org
      BY OrgAssumption DEF TypeOK
    <3> QED BY <1>2, <3>1, <3>2, StartedVisitsAll DEF EditsOf, WillPush, Running
  <2>2. CASE LockTaken
    <3>1. timer'[h]
      BY <2>2, RunOfSynchronize
    <3> QED BY <1>2, <3>1 DEF EditsOf
  <2>3. CASE ~LockTaken /\ Running(h) /\ online
    <3>1. ~Locks
      BY <2>3, HookAssumption DEF LockInv, LockTaken
    <3>2. rerun'[h]
      BY <2>3, <3>1, RunOfSynchronize
    <3> QED BY <1>2, <3>2 DEF EditsOf
  <2>4. CASE ~online
    BY <1>2, <2>4 DEF EditsOf
  <2> QED BY <2>1, <2>2, <2>3, <2>4
<1> QED BY <1>1, <1>2

LEMMA EditsStep == TypeOK /\ LockInv /\ EditsAreScheduled /\ [Next]_vars => EditsAreScheduled'
<1> SUFFICES ASSUME TypeOK, LockInv, EditsAreScheduled, [Next]_vars, NEW g \in Hook
             PROVE  EditsOf(g)'
  BY DEF EditsAreScheduled, EditsOf, Mounted, WillPush, Running
<1>1. ASSUME NEW e \in Edit, QueueEdit(e) PROVE EditsOf(g)'
  <2>1. phase'[g] = "mounted" => poke'[g]
    BY <1>1 DEF QueueEdit, PokeAll, Mounted
  <2> QED BY <2>1 DEF EditsOf, Mounted
<1>2. ASSUME NEW o \in Org, OthersPublish(o) \/ RemoveMembership(o) PROVE EditsOf(g)'
  BY <1>2, EditsStayScheduled DEF OthersPublish, RemoveMembership, replica, hooks, runs
<1>3. ASSUME GoOffline PROVE EditsOf(g)'
  BY <1>3 DEF GoOffline, EditsOf
<1>4. ASSUME GoOnline PROVE EditsOf(g)'
  <2>1. phase'[g] = "mounted" => poke'[g]
    BY <1>4 DEF GoOnline, PokeAll, Mounted
  <2> QED BY <2>1 DEF EditsOf, Mounted
<1>5. ASSUME NEW h \in Hook, Mount(h) PROVE EditsOf(g)'
  <2>1. CASE g = h
    <3>1. poke'[g]
      BY <1>5, <2>1 DEF Mount, TypeOK
    <3> QED BY <3>1 DEF EditsOf
  <2>2. CASE g # h
    BY <1>5, <2>2, EditsStayScheduled DEF Mount, TypeOK, replica, runs
  <2> QED BY <2>1, <2>2
<1>6. ASSUME NEW h \in Hook, Unmount(h) \/ CloseTab(h) PROVE EditsOf(g)'
  <2>1. CASE g = h
    <3>1. phase'[g] # "mounted"
      BY <1>6, <2>1 DEF Unmount, CloseTab, Leave, TypeOK
    <3> QED BY <3>1 DEF EditsOf, Mounted
  <2>2. CASE g # h
    <3>1. /\ UNCHANGED <<online, pending, upgrade, rerun>>
          /\ phase'[g] = phase[g] /\ timer'[g] = timer[g] /\ poke'[g] = poke[g]
      BY <1>6, <2>2 DEF Unmount, CloseTab, Leave, TypeOK, replica
    <3>2. run'[g] = run[g]
      BY <1>6, <2>2 DEF Unmount, CloseTab, TypeOK, runs
    <3> QED BY <3>1, <3>2, EditsStayScheduled
  <2> QED BY <2>1, <2>2
<1>7. ASSUME NEW h \in Hook, Notified(h) PROVE EditsOf(g)'
  <2>1. timer \in [Hook -> BOOLEAN] /\ poke \in [Hook -> BOOLEAN]
    BY DEF TypeOK
  <2>2. Synchronize(h, timer) /\ poke' = [poke EXCEPT ![h] = FALSE]
    BY <1>7 DEF Notified
  <2>3. \A f \in Hook \ {h} : poke'[f] = poke[f]
    BY <2>1, <2>2
  <2>4. UNCHANGED <<online, phase, pending, upgrade>>
    BY <1>7 DEF Notified, replica
  <2> QED BY <2>1, <2>2, <2>3, <2>4, EditsOfSynchronize
<1>8. ASSUME NEW h \in Hook, TimerFires(h) PROVE EditsOf(g)'
  <2> DEFINE timers == [timer EXCEPT ![h] = FALSE]
  <2>1. timers \in [Hook -> BOOLEAN] /\ \A f \in Hook \ {h} : timers[f] = timer[f]
    BY DEF TypeOK
  <2>2. Synchronize(h, timers) /\ UNCHANGED <<online, phase, pending, upgrade, poke>>
    BY <1>8 DEF TimerFires, replica
  <2> HIDE DEF timers
  <2> QED BY <2>1, <2>2, EditsOfSynchronize
<1>9. ASSUME NEW h \in Hook, Running(h), NEW stage \in Stages,
             At(h, stage) \/ Continue(h, stage) \/ NextOrg(h) \/ End(h),
             UNCHANGED <<online, phase>>,
             pending' \subseteq pending, upgrade \subseteq upgrade',
             \A f \in Hook : timer[f] => timer'[f], \A f \in Hook : poke[f] => poke'[f],
             \A e \in pending' :
                WillPush(h, e) =>
                   \/ EditOrg[e] \in upgrade' \/ WillPush(h, e)'
                   \/ Mounted(h) => timer'[h] \/ poke'[h]
      PROVE  EditsOf(g)'
  <2>1. CASE g = h
    BY <1>9, <2>1, OnlyTheRunMoves, EditsOfTheRun
  <2>2. CASE g # h
    BY <1>9, <2>2, OnlyTheRunMoves, EditsStayScheduled
  <2> QED BY <2>1, <2>2
<1>0. ASSUME NEW h \in Hook, List(h) PROVE EditsOf(g)'
  <2>1. /\ Running(h) /\ run[h].stage = "list" /\ Continue(h, "look")
        /\ UNCHANGED <<online, phase, timer, poke, pending, upgrade>>
    BY <1>0 DEF List, Running, replica
  <2>2. \A e \in pending : WillPush(h, e) /\ Mounted(h) => WillPush(h, e)'
    BY <2>1, NextStage DEF Continue, WillPush, Running, Stages
  <2> QED BY <1>9, <2>1, <2>2 DEF Stages
<1>10. ASSUME NEW h \in Hook, Look(h) PROVE EditsOf(g)'
  <2>1. /\ Running(h) /\ run[h].stage = "look"
        /\ UNCHANGED <<online, phase, timer, poke, pending, upgrade>>
        /\ \/ run[h].org \in upgrade /\ NextOrg(h)
           \/ At(h, "pull")
    BY <1>10 DEF Look, Running, replica
  <2>2. CASE run[h].org \in upgrade /\ NextOrg(h)
    BY <1>9, <2>1, <2>2, StillToVisit DEF Stages
  <2>3. CASE At(h, "pull")
    <3>1. \A e \in pending : WillPush(h, e) => WillPush(h, e)'
      BY <2>1, <2>3, NextStage DEF WillPush, Running, Stages
    <3> QED BY <1>9, <2>1, <2>3, <3>1 DEF Stages
  <2> QED BY <2>1, <2>2, <2>3
<1>11. ASSUME NEW h \in Hook, Pull(h) PROVE EditsOf(g)'
  <2>1. /\ Running(h) /\ run[h].stage = "pull"
        /\ UNCHANGED <<online, phase, timer, poke, pending>>
        /\ \/ upgrade' = upgrade \cup {run[h].org} /\ NextOrg(h)
           \/ upgrade' = upgrade /\ Continue(h, "read")
    BY <1>11 DEF Pull, Running
  <2>2. CASE upgrade' = upgrade \cup {run[h].org} /\ NextOrg(h)
    BY <1>9, <2>1, <2>2, StillToVisit DEF Stages
  <2>3. CASE upgrade' = upgrade /\ Continue(h, "read")
    <3>1. \A e \in pending : WillPush(h, e) /\ Mounted(h) => WillPush(h, e)'
      BY <2>1, <2>3, NextStage DEF Continue, WillPush, Running, Stages
    <3> QED BY <1>9, <2>1, <2>3, <3>1 DEF Stages
  <2> QED BY <2>1, <2>2, <2>3
<1>12. ASSUME NEW h \in Hook, Read(h) PROVE EditsOf(g)'
  <2> DEFINE mine == {e \in pending : EditOrg[e] = run[h].org}
  <2>1. /\ Running(h) /\ run[h].stage = "read"
        /\ UNCHANGED <<online, phase, timer, poke, pending, upgrade>>
    BY <1>12 DEF Read, Running, replica
  <2>2. CASE mine = {}
    <3>1. Continue(h, "upload")
      BY <1>12, <2>2 DEF Read
    <3>2. \A e \in pending : WillPush(h, e) /\ Mounted(h) => WillPush(h, e)'
      BY <2>1, <2>2, <3>1, NextStage DEF Continue, WillPush, Running, Stages
    <3> QED BY <1>9, <2>1, <3>1, <3>2 DEF Stages
  <2>3. CASE mine # {}
    <3>1. run' = [run EXCEPT ![h].stage = "push", ![h].took = mine] /\ UNCHANGED <<rerun, lock>>
      BY <1>12, <2>3 DEF Read
    <3>2. \A e \in pending : EditOrg[e] = run[h].org => e \in mine
      OBVIOUS
    <3> HIDE DEF mine
    <3>3. /\ run'[h].stage = "push" /\ run'[h].took = mine
          /\ run'[h].org = run[h].org /\ run'[h].rest = run[h].rest
          /\ \A f \in Hook \ {h} : run'[f] = run[f]
      BY <3>1 DEF TypeOK
    <3>4. \A e \in pending : WillPush(h, e) => WillPush(h, e)'
      BY <2>1, <3>2, <3>3 DEF WillPush, Running
    <3>5. CASE g = h
      BY <2>1, <3>1, <3>4, <3>5, EditsOfTheRun
    <3>6. CASE g # h
      BY <2>1, <3>1, <3>3, <3>6, EditsStayScheduled
    <3> QED BY <3>5, <3>6
  <2> QED BY <2>2, <2>3
<1>13. ASSUME NEW h \in Hook, Push(h) PROVE EditsOf(g)'
  <2>1. phase'[g] = "mounted" => poke'[g]
    BY <1>13 DEF Push, PokeAll, Mounted
  <2> QED BY <2>1 DEF EditsOf, Mounted
<1>14. ASSUME NEW h \in Hook, Upload(h) PROVE EditsOf(g)'
  <2>1. /\ Running(h) /\ run[h].stage = "upload" /\ Continue(h, "drain")
        /\ UNCHANGED <<online, phase, timer, poke, pending, upgrade>>
    BY <1>14 DEF Upload, Running, replica
  <2>2. \A e \in pending : WillPush(h, e) /\ Mounted(h) => WillPush(h, e)'
    BY <2>1, NextStage DEF Continue, WillPush, Running, Stages
  <2> QED BY <1>9, <2>1, <2>2 DEF Stages
<1>15. ASSUME NEW h \in Hook, Drain(h) PROVE EditsOf(g)'
  <2>1. /\ Running(h) /\ run[h].stage = "drain"
        /\ Continue(h, "drain") \/ NextOrg(h)
        /\ UNCHANGED <<online, phase, timer, poke, pending, upgrade>>
    BY <1>15 DEF Drain, Running
  <2>2. CASE NextOrg(h)
    <3>1. \A e \in pending : WillPush(h, e) /\ Mounted(h) => WillPush(h, e)'
      BY <2>1, <2>2, StillToVisit DEF WillPush
    <3> QED BY <1>9, <2>1, <2>2, <3>1 DEF Stages
  <2>3. CASE Continue(h, "drain")
    <3>1. \A e \in pending : WillPush(h, e) /\ Mounted(h) => WillPush(h, e)'
      BY <2>1, <2>3, NextStage DEF Continue, WillPush, Running, Stages
    <3> QED BY <1>9, <2>1, <2>3, <3>1 DEF Stages
  <2> QED BY <2>1, <2>2, <2>3
<1>16. ASSUME NEW h \in Hook, RequestFails(h) PROVE EditsOf(g)'
  <2>1. /\ Running(h) /\ End(h)
        /\ UNCHANGED <<online, phase, poke, pending, upgrade>>
    BY <1>16 DEF RequestFails, Running, replica
  <2>2. /\ \A f \in Hook : timer[f] => timer'[f]
        /\ Mounted(h) => timer'[h]
    BY <1>16 DEF RequestFails, TypeOK
  <2> QED BY <1>9, <2>1, <2>2 DEF Stages
<1>17. ASSUME NEW h \in Hook, Hint(h) \/ SocketCloses(h) PROVE EditsOf(g)'
  <2>1. /\ UNCHANGED <<online, phase, timer, rerun, run, pending, upgrade>>
        /\ poke[g] => poke'[g]
    BY <1>17 DEF Hint, SocketOpens, Subscribe, Poll, Reconnect, SocketCloses,
                 replica, hooks, runs, TypeOK
  <2> QED BY <2>1, EditsStayScheduled
<1>18. ASSUME UNCHANGED vars PROVE EditsOf(g)'
  BY <1>18, EditsStayScheduled DEF vars, replica, hooks, runs
<1> QED
  BY <1>0, <1>1, <1>2, <1>3, <1>4, <1>5, <1>6, <1>7, <1>8, <1>10, <1>11, <1>12, <1>13,
     <1>14, <1>15, <1>16, <1>17, <1>18 DEF Next, Step

(* While the browser is online, every shell that is shown has a reason to    *)
(* look at each pending command again.                                       *)
THEOREM NoEditForgotten == Spec => []EditsAreScheduled
<1> QED
  BY TypeInit, TypeStep, LockInit, LockStep, EditsInit, EditsStep, PTL DEF Spec

-----------------------------------------------------------------------------
(* No change is forgotten.  What ChangesAreScheduled says of one shell:      *)
Visits(g, o) == Running(g) /\ o \in {run[g].org} \cup run[g].rest

ChangesOf(g) ==
    online => \A o \in Org :
       Mounted(g) /\ o \notin upgrade /\ have[o] < head[o] =>
          \/ timer[g] \/ poke[g] \/ rerun[g]
          \/ Visits(g, o)
          \/ socket[g] \in {"opening", "open", "waiting"}
          \/ socket[g] = "subscribed" /\ known[g][o] # head[o]

LEMMA ChangesStayScheduled ==
    ASSUME TypeOK, ChangesAreScheduled, NEW g \in Hook,
           online' => online, phase'[g] = "mounted" => phase[g] = "mounted",
           upgrade \subseteq upgrade', head' = head,
           have' \in [Org -> Nat], \A o \in Org : have[o] <= have'[o],
           run'[g] = run[g], rerun[g] => rerun'[g],
           timer[g] => timer'[g], poke[g] => poke'[g],
           socket'[g] = socket[g], known'[g] = known[g]
    PROVE  ChangesOf(g)'
<1> SUFFICES ASSUME online', phase'[g] = "mounted", NEW o \in Org, o \notin upgrade',
                    have'[o] < head[o]
             PROVE  \/ timer'[g] \/ poke'[g] \/ rerun'[g]
                    \/ Visits(g, o)'
                    \/ socket'[g] \in {"opening", "open", "waiting"}
                    \/ socket'[g] = "subscribed" /\ known'[g][o] # head[o]
  BY DEF ChangesOf, Mounted
<1>1. have \in [Org -> Nat] /\ head \in [Org -> Nat]
  BY DEF TypeOK
<1>2. have[o] < head[o]
  BY <1>1
<1> QED BY <1>2 DEF ChangesAreScheduled, Visits, Running, Mounted

LEMMA ChangesOfTheRun ==
    ASSUME TypeOK, ChangesAreScheduled, NEW h \in Hook, Running(h),
           UNCHANGED <<online, phase, head, sockets>>, upgrade \subseteq upgrade',
           have' \in [Org -> Nat], \A o \in Org : have[o] <= have'[o],
           timer[h] => timer'[h], poke[h] => poke'[h],
           rerun'[h] = rerun[h] \/ End(h),
           \A o \in Org :
              Visits(h, o) /\ have'[o] < head[o] =>
                 \/ o \in upgrade' \/ Visits(h, o)'
                 \/ Mounted(h) => timer'[h]
    PROVE  ChangesOf(h)'
<1> SUFFICES ASSUME online, Mounted(h), NEW o \in Org, o \notin upgrade', have'[o] < head[o]
             PROVE  \/ timer'[h] \/ poke'[h] \/ rerun'[h]
                    \/ Visits(h, o)'
                    \/ socket[h] \in {"opening", "open", "waiting"}
                    \/ socket[h] = "subscribed" /\ known[h][o] # head[o]
  BY DEF ChangesOf, Mounted, sockets
<1>1. have \in [Org -> Nat] /\ head \in [Org -> Nat]
  BY DEF TypeOK
<1>2. have[o] < head[o]
  BY <1>1
<1>3. \/ timer[h] \/ poke[h] \/ rerun[h]
      \/ Visits(h, o)
      \/ socket[h] \in {"opening", "open", "waiting"}
      \/ socket[h] = "subscribed" /\ known[h][o] # head[o]
  BY <1>2 DEF ChangesAreScheduled, Visits
<1>4. CASE rerun[h] /\ End(h)
  <2>1. run'[h] = Started
    BY <1>4, EndOfRun
  <2> QED BY <2>1, StartedVisitsAll DEF Visits, Running
<1> QED BY <1>3, <1>4

LEMMA ChangesOfSynchronize ==
    ASSUME TypeOK, LockInv, ChangesAreScheduled, NEW h \in Hook, NEW g \in Hook,
           NEW timers \in [Hook -> BOOLEAN], Synchronize(h, timers),
           UNCHANGED <<online, phase, head, have, upgrade, sockets>>,
           \A f \in Hook \ {h} : timers[f] = timer[f] /\ poke'[f] = poke[f]
    PROVE  ChangesOf(g)'
<1>1. CASE g # h
  <2>1. have \in [Org -> Nat] /\ \A o \in Org : have[o] <= have[o]
    BY DEF TypeOK
  <2> QED BY <1>1, <2>1, ChangesStayScheduled, RunOfSynchronize DEF sockets
<1>2. CASE g = h
  <2>1. CASE online /\ ~LockTaken /\ ~Running(h)
    <3>1. run'[h] = Started
      BY <2>1, RunOfSynchronize
    <3> QED BY <1>2, <3>1, StartedVisitsAll DEF ChangesOf, Visits, Running
  <2>2. CASE LockTaken
    <3>1. timer'[h]
      BY <2>2, RunOfSynchronize
    <3> QED BY <1>2, <3>1 DEF ChangesOf
  <2>3. CASE ~LockTaken /\ Running(h) /\ online
    <3>1. ~Locks
      BY <2>3, HookAssumption DEF LockInv, LockTaken
    <3>2. rerun'[h]
      BY <2>3, <3>1, RunOfSynchronize
    <3> QED BY <1>2, <3>2 DEF ChangesOf
  <2>4. CASE ~online
    BY <1>2, <2>4 DEF ChangesOf
  <2> QED BY <2>1, <2>2, <2>3, <2>4
<1> QED BY <1>1, <1>2

LEMMA ChangesInit == Init => ChangesAreScheduled
  BY DEF Init, ChangesAreScheduled

(* What a run that moves on still visits.                                    *)
LEMMA VisitsLeft ==
    ASSUME TypeOK, NEW h \in Hook, Running(h), NEW stage \in Stages, NEW o \in Org, Visits(h, o)
    PROVE  /\ At(h, stage) => Visits(h, o)'
           /\ NextOrg(h) /\ Mounted(h) /\ o # run[h].org => Visits(h, o)'
<1>1. ASSUME At(h, stage) PROVE Visits(h, o)'
  BY <1>1, NextStage DEF Visits, Running, Stages
<1>2. ASSUME NextOrg(h), Mounted(h), o # run[h].org PROVE Visits(h, o)'
  <2>1. run[h].rest # {}
    BY <1>2 DEF Visits
  <2> QED BY <1>2, <2>1, RunGoesOn DEF Visits, Running
<1> QED BY <1>1, <1>2

LEMMA ChangesStep ==
    TypeOK /\ LockInv /\ HintInv /\ ChangesAreScheduled /\ [Next]_vars => ChangesAreScheduled'
<1> SUFFICES ASSUME TypeOK, LockInv, HintInv, ChangesAreScheduled, [Next]_vars, NEW g \in Hook
             PROVE  ChangesOf(g)'
  BY DEF ChangesAreScheduled, ChangesOf, Mounted, Visits, Running
<1>0. /\ have \in [Org -> Nat] /\ head \in [Org -> Nat]
      /\ timer \in [Hook -> BOOLEAN] /\ poke \in [Hook -> BOOLEAN]
      /\ \A o \in Org : have[o] <= have[o]
  BY DEF TypeOK
<1>1. ASSUME phase'[g] = "mounted" => poke'[g] PROVE ChangesOf(g)'
  BY <1>1 DEF ChangesOf, Mounted
<1>2. ASSUME NEW e \in Edit, QueueEdit(e) PROVE ChangesOf(g)'
  BY <1>1, <1>2 DEF QueueEdit, PokeAll, Mounted
<1>3. ASSUME NEW p \in Org, OthersPublish(p) PROVE ChangesOf(g)'
  <2>1. /\ UNCHANGED <<online, have, upgrade, phase, timer, rerun, poke, run, socket, known>>
        /\ head' = [head EXCEPT ![p] = @ + 1]
    BY <1>3 DEF OthersPublish, replica, hooks, runs, sockets
  <2>2. SUFFICES ASSUME online, Mounted(g), NEW o \in Org, o \notin upgrade, have[o] < head'[o]
                 PROVE  \/ timer[g] \/ poke[g] \/ rerun[g]
                        \/ Visits(g, o)
                        \/ socket[g] \in {"opening", "open", "waiting"}
                        \/ socket[g] = "subscribed" /\ known[g][o] # head'[o]
    BY <2>1 DEF ChangesOf, Mounted, Visits, Running
  <2>3. CASE o = p
    <3>1. known[g][o] \in Nat /\ known[g][o] <= head[o] /\ socket[g] # "down"
      BY <2>2 DEF HintInv, TypeOK
    <3>2. known[g][o] # head'[o]
      BY <1>0, <2>1, <2>3, <3>1
    <3> QED BY <3>1, <3>2 DEF TypeOK
  <2>4. CASE o # p
    <3>1. head'[o] = head[o]
      BY <1>0, <2>1, <2>4
    <3> QED BY <2>2, <3>1 DEF ChangesAreScheduled, Visits
  <2> QED BY <2>3, <2>4
<1>4. ASSUME NEW o \in Org, RemoveMembership(o) PROVE ChangesOf(g)'
  BY <1>0, <1>4, ChangesStayScheduled DEF RemoveMembership, replica, hooks, runs, sockets
<1>5. ASSUME GoOffline PROVE ChangesOf(g)'
  BY <1>5 DEF GoOffline, ChangesOf
<1>6. ASSUME GoOnline PROVE ChangesOf(g)'
  BY <1>1, <1>6 DEF GoOnline, PokeAll, Mounted
<1>7. ASSUME NEW h \in Hook, Mount(h) PROVE ChangesOf(g)'
  <2>1. CASE g = h
    BY <1>1, <1>7, <2>1, <1>0 DEF Mount
  <2>2. CASE g # h
    BY <1>0, <1>7, <2>2, ChangesStayScheduled DEF Mount, TypeOK, replica, server, runs
  <2> QED BY <2>1, <2>2
<1>8. ASSUME NEW h \in Hook, Unmount(h) \/ CloseTab(h) PROVE ChangesOf(g)'
  <2>1. CASE g = h
    <3>1. phase'[g] # "mounted"
      BY <1>8, <2>1 DEF Unmount, CloseTab, Leave, TypeOK
    <3> QED BY <3>1 DEF ChangesOf, Mounted
  <2>2. CASE g # h
    <3>1. /\ UNCHANGED <<online, head, have, upgrade, rerun, known>>
          /\ phase'[g] = phase[g] /\ timer'[g] = timer[g] /\ poke'[g] = poke[g]
          /\ socket'[g] = socket[g]
      BY <1>8, <2>2 DEF Unmount, CloseTab, Leave, TypeOK, replica, server
    <3>2. run'[g] = run[g]
      BY <1>8, <2>2 DEF Unmount, CloseTab, TypeOK, runs
    <3> QED BY <1>0, <3>1, <3>2, ChangesStayScheduled
  <2> QED BY <2>1, <2>2
<1>9. ASSUME NEW h \in Hook, Notified(h) PROVE ChangesOf(g)'
  <2>1. Synchronize(h, timer) /\ poke' = [poke EXCEPT ![h] = FALSE]
    BY <1>9 DEF Notified
  <2>2. \A f \in Hook \ {h} : poke'[f] = poke[f]
    BY <1>0, <2>1
  <2>3. UNCHANGED <<online, phase, head, have, upgrade, sockets>>
    BY <1>9 DEF Notified, replica, server
  <2> QED BY <1>0, <2>1, <2>2, <2>3, ChangesOfSynchronize
<1>10. ASSUME NEW h \in Hook, TimerFires(h) PROVE ChangesOf(g)'
  <2> DEFINE timers == [timer EXCEPT ![h] = FALSE]
  <2>1. timers \in [Hook -> BOOLEAN] /\ \A f \in Hook \ {h} : timers[f] = timer[f]
    BY <1>0
  <2>2. Synchronize(h, timers)
    BY <1>10 DEF TimerFires
  <2>3. UNCHANGED <<online, phase, head, have, upgrade, sockets, poke>>
    BY <1>10 DEF TimerFires, replica, server
  <2> HIDE DEF timers
  <2> QED BY <2>1, <2>2, <2>3, ChangesOfSynchronize
<1>11. ASSUME NEW h \in Hook, Running(h), NEW stage \in Stages,
              At(h, stage) \/ Continue(h, stage) \/ NextOrg(h) \/ End(h),
              UNCHANGED <<online, phase, head, sockets, poke>>, upgrade \subseteq upgrade',
              have' \in [Org -> Nat], \A o \in Org : have[o] <= have'[o],
              \A f \in Hook : timer[f] => timer'[f],
              \A o \in Org :
                 Visits(h, o) /\ have'[o] < head[o] =>
                    \/ o \in upgrade' \/ Visits(h, o)'
                    \/ Mounted(h) => timer'[h]
       PROVE  ChangesOf(g)'
  <2>1. CASE g = h
    BY <1>11, <2>1, OnlyTheRunMoves, ChangesOfTheRun
  <2>2. CASE g # h
    BY <1>11, <2>2, OnlyTheRunMoves, ChangesStayScheduled DEF sockets
  <2> QED BY <2>1, <2>2
<1>12. ASSUME NEW p \in Org, Page(p)
       PROVE  have' \in [Org -> Nat] /\ \A o \in Org : have[o] <= have'[o]
  BY <1>0, <1>12 DEF Page
<1>13. ASSUME NEW h \in Hook, List(h) \/ Look(h) PROVE ChangesOf(g)'
  <2>1. /\ Running(h) /\ UNCHANGED <<online, phase, head, sockets, have, upgrade, timer, poke>>
        /\ \/ run[h].org \in upgrade /\ NextOrg(h)
           \/ At(h, "pull") \/ Continue(h, "look")
    BY <1>13 DEF List, Look, Running, replica, server
  <2>2. \A o \in Org : Visits(h, o) /\ Mounted(h) => o \in upgrade' \/ Visits(h, o)'
    BY <2>1, VisitsLeft DEF Continue, Stages
  <2> QED BY <1>0, <1>11, <2>1, <2>2 DEF Stages
<1>14. ASSUME NEW h \in Hook, Pull(h) PROVE ChangesOf(g)'
  <2>1. /\ Running(h) /\ run[h].org \in Org
        /\ UNCHANGED <<online, phase, head, sockets, timer, poke>>
        /\ \/ upgrade' = upgrade \cup {run[h].org} /\ NextOrg(h) /\ have' = have
           \/ upgrade' = upgrade /\ Continue(h, "read") /\ Page(run[h].org)
    BY <1>14 DEF Pull, Running, server, TypeOK
  <2>2. \A o \in Org : Visits(h, o) /\ Mounted(h) => o \in upgrade' \/ Visits(h, o)'
    BY <2>1, VisitsLeft DEF Continue, Stages
  <2>3. have' \in [Org -> Nat] /\ \A o \in Org : have[o] <= have'[o]
    BY <1>0, <1>12, <2>1
  <2> QED BY <1>11, <2>1, <2>2, <2>3 DEF Stages
<1>15. ASSUME NEW h \in Hook, Read(h) PROVE ChangesOf(g)'
  <2> DEFINE mine == {e \in pending : EditOrg[e] = run[h].org}
  <2>1. Running(h) /\ UNCHANGED <<online, phase, head, sockets, have, upgrade, timer, poke>>
    BY <1>15 DEF Read, Running, replica, server
  <2>2. CASE mine = {}
    <3>1. Continue(h, "upload")
      BY <1>15, <2>2 DEF Read
    <3>2. \A o \in Org : Visits(h, o) /\ Mounted(h) => Visits(h, o)'
      BY <2>1, <3>1, VisitsLeft DEF Continue, Stages
    <3> QED BY <1>0, <1>11, <2>1, <3>1, <3>2 DEF Stages
  <2>3. CASE mine # {}
    <3>1. run' = [run EXCEPT ![h].stage = "push", ![h].took = mine] /\ UNCHANGED <<rerun, lock>>
      BY <1>15, <2>3 DEF Read
    <3> HIDE DEF mine
    <3>2. /\ run'[h].stage = "push"
          /\ run'[h].org = run[h].org /\ run'[h].rest = run[h].rest
          /\ \A f \in Hook \ {h} : run'[f] = run[f]
      BY <3>1 DEF TypeOK
    <3>3. \A o \in Org : Visits(h, o) => Visits(h, o)'
      BY <3>2 DEF Visits, Running
    <3>4. CASE g = h
      BY <1>0, <2>1, <3>1, <3>3, <3>4, ChangesOfTheRun
    <3>5. CASE g # h
      BY <1>0, <2>1, <3>1, <3>2, <3>5, ChangesStayScheduled DEF sockets
    <3> QED BY <3>4, <3>5
  <2> QED BY <2>2, <2>3
<1>16. ASSUME NEW h \in Hook, Push(h) PROVE ChangesOf(g)'
  BY <1>1, <1>16 DEF Push, PokeAll, Mounted
<1>17. ASSUME NEW h \in Hook, Upload(h) PROVE ChangesOf(g)'
  <2>1. /\ Running(h) /\ Continue(h, "drain")
        /\ UNCHANGED <<online, phase, head, sockets, have, upgrade, timer, poke>>
    BY <1>17 DEF Upload, Running, replica, server
  <2>2. \A o \in Org : Visits(h, o) /\ Mounted(h) => Visits(h, o)'
    BY <2>1, VisitsLeft DEF Continue, Stages
  <2> QED BY <1>0, <1>11, <2>1, <2>2 DEF Stages
<1>18. ASSUME NEW h \in Hook, Drain(h) PROVE ChangesOf(g)'
  <2>1. /\ Running(h) /\ run[h].org \in Org /\ Page(run[h].org)
        /\ UNCHANGED <<online, phase, head, sockets, upgrade, timer, poke>>
        /\ \/ Continue(h, "drain")
           \/ ~(have[run[h].org] < head[run[h].org]) /\ NextOrg(h)
    BY <1>18 DEF Drain, Running, server, TypeOK
  <2>2. have' \in [Org -> Nat] /\ \A o \in Org : have[o] <= have'[o]
    BY <1>12, <2>1
  <2>3. \A o \in Org : Visits(h, o) /\ have'[o] < head[o] /\ Mounted(h) => Visits(h, o)'
    <3>1. CASE Continue(h, "drain")
      BY <2>1, <3>1, VisitsLeft DEF Continue, Stages
    <3>2. CASE ~(have[run[h].org] < head[run[h].org]) /\ NextOrg(h)
      <4>1. ~(have'[run[h].org] < head[run[h].org])
        BY <1>0, <2>1, <2>2, <3>2
      <4> QED BY <2>1, <3>2, <4>1, VisitsLeft DEF Stages
    <3> QED BY <2>1, <3>1, <3>2
  <2> QED BY <1>11, <2>1, <2>2, <2>3 DEF Stages
<1>19. ASSUME NEW h \in Hook, RequestFails(h) PROVE ChangesOf(g)'
  <2>1. Running(h) /\ End(h) /\ UNCHANGED <<online, phase, head, sockets, have, upgrade, poke>>
    BY <1>19 DEF RequestFails, Running, replica, server
  <2>2. /\ \A f \in Hook : timer[f] => timer'[f]
        /\ Mounted(h) => timer'[h]
    BY <1>0, <1>19 DEF RequestFails
  <2> QED BY <1>0, <1>11, <2>1, <2>2 DEF Stages
<1>20. ASSUME NEW h \in Hook, Hint(h) \/ SocketCloses(h) PROVE ChangesOf(g)'
  <2>1. CASE g = h
    <3>1. CASE SocketOpens(h) \/ Poll(h) \/ (Subscribe(h) /\ denied = {})
      BY <1>0, <1>1, <2>1, <3>1 DEF SocketOpens, Subscribe, Poll
    <3>2. CASE (Subscribe(h) /\ denied # {}) \/ SocketCloses(h)
      <4>1. socket'[h] = "waiting"
        BY <3>2 DEF Subscribe, SocketCloses, TypeOK
      <4> QED BY <2>1, <4>1 DEF ChangesOf
    <3>3. CASE Reconnect(h)
      <4>1. /\ online' = online
            /\ online => socket'[h] = "opening"
        BY <3>3 DEF Reconnect, TypeOK
      <4> QED BY <2>1, <4>1 DEF ChangesOf
    <3> QED BY <1>20, <3>1, <3>2, <3>3 DEF Hint
  <2>2. CASE g # h
    <3>1. /\ UNCHANGED <<online, phase, timer, rerun, run, have, head, upgrade>>
          /\ poke'[g] = poke[g]
      BY <1>0, <1>20, <2>2 DEF Hint, SocketOpens, Subscribe, Poll, Reconnect, SocketCloses,
                   replica, server, hooks, runs
    <3>2. socket'[g] = socket[g] /\ known'[g] = known[g]
      BY <1>20, <2>2 DEF Hint, SocketOpens, Subscribe, Poll, Reconnect, SocketCloses, TypeOK
    <3> QED BY <1>0, <3>1, <3>2, ChangesStayScheduled
  <2> QED BY <2>1, <2>2
<1>21. ASSUME UNCHANGED vars PROVE ChangesOf(g)'
  BY <1>0, <1>21, ChangesStayScheduled DEF vars, server, replica, hooks, runs, sockets
<1> QED
  BY <1>2, <1>3, <1>4, <1>5, <1>6, <1>7, <1>8, <1>9, <1>10, <1>13, <1>14, <1>15, <1>16,
     <1>17, <1>18, <1>19, <1>20, <1>21 DEF Next, Step

(* While the browser is online and a cursor is behind the feed, every shell  *)
(* that is shown has a run, a hint, a connection or a timer to come.         *)
THEOREM NoChangeForgotten == Spec => []ChangesAreScheduled
<1> QED
  BY TypeInit, TypeStep, LockInit, LockStep, HintInit, HintStep, ChangesInit, ChangesStep, PTL
     DEF Spec

=============================================================================
