--------------------------- MODULE SyncScheduler ---------------------------
(***************************************************************************)
(* When a browser synchronizes: the hook useOutboxSynchronization of       *)
(* frontend/src/sync-lifecycle.ts, and the change-hint socket it keeps     *)
(* with the server (http_sync.py, change_hints in synchronization.py).     *)
(*                                                                         *)
(* A hook belongs to one mounted shell: a tab, or the shell of the next    *)
(* user of a tab after the previous one signed out.  Its run visits the    *)
(* organizations one after the other: pull a page, push the outbox batch   *)
(* by batch, send the receipt photos, pull until there is nothing new.  The run starts on *)
(* a change of the outbox, a hint, the online event or the retry timer,    *)
(* and is guarded by navigator.locks where the browser has them, by the    *)
(* flags running and rerun elsewhere.  What a pull or a push does to the   *)
(* replica is SyncReplica's subject: here a pull moves the cursor by one   *)
(* page and a batch takes the commands it carried out of the outbox.       *)
(***************************************************************************)
EXTENDS Integers, FiniteSets

CONSTANTS
    Hook,          \* mounted shells
    NoHook,        \* no shell
    Org,           \* organizations of the browser; their order is the id order
    Edit,          \* commands the user queues
    EditOrg,       \* the organization of each
    Locks,         \* whether navigator.locks exists
    Deniable,      \* organizations whose membership may be removed
    Newer,         \* organizations that publish records this build cannot read
    MaxOthers,     \* bound: changes by other members, per organization
    MaxFailures,   \* bound: requests and sockets that fail while online
    MaxOffline     \* bound: times the browser goes offline

ASSUME HookAssumption == NoHook \notin Hook
ASSUME OrgAssumption == Org \subseteq Nat /\ Org # {} /\ EditOrg \in [Edit -> Org]
ASSUME LocksAssumption == Locks \in BOOLEAN
ASSUME ServerAssumption == Deniable \subseteq Org /\ Newer \subseteq Org
ASSUME BoundsAssumption == MaxOthers \in Nat /\ MaxFailures \in Nat /\ MaxOffline \in Nat

VARIABLES
    online,        \* navigator.onLine
    denied,        \* organizations whose membership was removed
    head,          \* how often the feed of each organization advanced
    have,          \* the advance each cursor of the replica stands at
    pending,       \* pending commands of the outbox
    upgrade,       \* organizations whose activity is upgradeRequired
    phase,         \* the hook's shell: new, mounted or gone
    timer,         \* retry.current holds an armed timer
    rerun,         \* rerun.current
    poke,          \* a trigger is about to call synchronize
    run,           \* how far dispatchPending is
    lock,          \* who holds the browser-wide lock
    socket,        \* the hint socket
    known,         \* the heads the server last told through the socket
    queued,        \* history: commands queued so far
    failures,      \* history: requests and sockets that failed while online
    offline        \* history: times the browser went offline

replica == <<have, pending, upgrade, queued>>
server == <<denied, head>>
hooks == <<phase, timer, rerun, poke>>
runs == <<run, lock>>
sockets == <<socket, known>>
counters == <<failures, offline>>
vars == <<online, server, replica, hooks, runs, sockets, counters>>

Stages == {"list", "look", "pull", "read", "push", "upload", "drain"}
Idle == [stage |-> "idle", org |-> 0, rest |-> {}, took |-> {}]
Running(h) == run[h].stage # "idle"
Mounted(h) == phase[h] = "mounted"

TypeOK ==
    /\ online \in BOOLEAN
    /\ denied \subseteq Deniable
    /\ head \in [Org -> Nat] /\ have \in [Org -> Nat]
    /\ \A o \in Org : have[o] \in 0 .. head[o]
    /\ pending \subseteq Edit /\ queued \subseteq Edit
    /\ upgrade \subseteq Org
    /\ phase \in [Hook -> {"new", "mounted", "gone"}]
    /\ timer \in [Hook -> BOOLEAN] /\ rerun \in [Hook -> BOOLEAN] /\ poke \in [Hook -> BOOLEAN]
    /\ run \in [Hook -> [stage : Stages \cup {"idle"}, org : Nat,
                         rest : SUBSET Org, took : SUBSET Edit]]
    /\ \A h \in Hook : Running(h) => run[h].org \in Org
    /\ lock \in Hook \cup {NoHook}
    /\ socket \in [Hook -> {"down", "opening", "open", "subscribed", "waiting"}]
    /\ known \in [Hook -> [Org -> Nat]]
    /\ failures \in Nat /\ offline \in Nat

Init ==
    /\ online = TRUE
    /\ denied = {}
    /\ head = [o \in Org |-> 0] /\ have = [o \in Org |-> 0]
    /\ pending = {} /\ queued = {}
    /\ upgrade = {}
    /\ phase = [h \in Hook |-> "new"]
    /\ timer = [h \in Hook |-> FALSE]
    /\ rerun = [h \in Hook |-> FALSE]
    /\ poke = [h \in Hook |-> FALSE]
    /\ run = [h \in Hook |-> Idle]
    /\ lock = NoHook
    /\ socket = [h \in Hook |-> "down"]
    /\ known = [h \in Hook |-> [o \in Org |-> 0]]
    /\ failures = 0 /\ offline = 0

PokeAll == poke' = [h \in Hook |-> poke[h] \/ Mounted(h)]

-----------------------------------------------------------------------------
(* The user, the browser and the other members. *)

(* A command enters the outbox: the live query of every shell fires. *)
QueueEdit(e) ==
    /\ e \notin queued
    /\ queued' = queued \cup {e}
    /\ pending' = pending \cup {e}
    /\ PokeAll
    /\ UNCHANGED <<online, server, have, upgrade, phase, timer, rerun, runs, sockets, counters>>

OthersPublish(o) ==
    /\ head[o] < MaxOthers
    /\ head' = [head EXCEPT ![o] = @ + 1]
    /\ UNCHANGED <<online, denied, replica, hooks, runs, sockets, counters>>

RemoveMembership(o) ==
    /\ o \in Deniable \ denied
    /\ denied' = denied \cup {o}
    /\ UNCHANGED <<online, head, replica, hooks, runs, sockets, counters>>

GoOffline ==
    /\ online /\ offline < MaxOffline
    /\ online' = FALSE
    /\ offline' = offline + 1
    /\ UNCHANGED <<server, replica, hooks, runs, sockets, failures>>

(* The online event calls synchronize and reconnects the sockets. *)
GoOnline ==
    /\ ~online
    /\ online' = TRUE
    /\ PokeAll
    /\ socket' = [h \in Hook |-> IF Mounted(h) THEN "opening" ELSE socket[h]]
    /\ UNCHANGED <<server, replica, phase, timer, rerun, runs, known, counters>>

(* The effects of a mounting hook: the live query fires once, the socket opens. *)
Mount(h) ==
    /\ phase[h] = "new"
    /\ phase' = [phase EXCEPT ![h] = "mounted"]
    /\ poke' = [poke EXCEPT ![h] = TRUE]
    /\ socket' = [socket EXCEPT ![h] = IF online THEN "opening" ELSE "down"]
    /\ UNCHANGED <<online, server, replica, timer, rerun, runs, known, counters>>

(* Another shell stays or will come.  The code leaves retry.current set when *)
(* it clears the timer; nobody reads it, for a later shell has its own refs. *)
Leave(h) ==
    /\ Mounted(h)
    /\ \E g \in Hook \ {h} : phase[g] # "gone"
    /\ phase' = [phase EXCEPT ![h] = "gone"]
    /\ timer' = [timer EXCEPT ![h] = FALSE]
    /\ poke' = [poke EXCEPT ![h] = FALSE]
    /\ socket' = [socket EXCEPT ![h] = "down"]
    /\ UNCHANGED <<online, server, replica, rerun, known, counters>>

(* Bug: the shell that goes away gives up the lock of its unfinished run. *)
UnmountReleasing(h) ==
    /\ Leave(h)
    /\ lock' = IF lock = h THEN NoHook ELSE lock
    /\ UNCHANGED run

(* The shell unmounts (sign-out, expired session); its run is still awaiting. *)
Unmount(h) == Leave(h) /\ UNCHANGED runs

(* The tab is closed: the browser frees its lock. *)
CloseTab(h) ==
    /\ Leave(h)
    /\ run' = [run EXCEPT ![h] = Idle]
    /\ lock' = IF lock = h THEN NoHook ELSE lock

-----------------------------------------------------------------------------
(* synchronize and dispatchPending. *)

First(orgs) == CHOOSE o \in orgs : \A p \in orgs : o <= p
Started == [stage |-> "list", org |-> First(Org), rest |-> Org \ {First(Org)}, took |-> {}]

LockTaken == Locks /\ lock # NoHook

(* Bug: a shell that finds the lock taken leaves the work to its holder. *)
SynchronizeOrDrop(h, timers) ==
    /\ timer' = timers
    /\ rerun' = [rerun EXCEPT ![h] = @ \/ (~Locks /\ online /\ Running(h))]
    /\ IF online /\ ~LockTaken /\ ~Running(h)
       THEN run' = [run EXCEPT ![h] = Started] /\ lock' = IF Locks THEN h ELSE lock
       ELSE UNCHANGED runs

(* Without the lock a shell tries again later; without locks a run in        *)
(* progress is asked to start over; offline, nothing is done.                *)
Synchronize(h, timers) ==
    /\ timer' = [timers EXCEPT ![h] = @ \/ LockTaken]
    /\ rerun' = [rerun EXCEPT ![h] = @ \/ (~Locks /\ online /\ Running(h))]
    /\ IF online /\ ~LockTaken /\ ~Running(h)
       THEN run' = [run EXCEPT ![h] = Started] /\ lock' = IF Locks THEN h ELSE lock
       ELSE UNCHANGED runs

Notified(h) ==
    /\ Mounted(h) /\ poke[h]
    /\ poke' = [poke EXCEPT ![h] = FALSE]
    /\ Synchronize(h, timer)
    /\ UNCHANGED <<online, server, replica, phase, sockets, counters>>

TimerFires(h) ==
    /\ timer[h]
    /\ Synchronize(h, [timer EXCEPT ![h] = FALSE])
    /\ UNCHANGED <<online, server, replica, phase, poke, sockets, counters>>

(* The finally block: release the lock, and start over when asked to. *)
End(h) ==
    /\ lock' = IF lock = h THEN NoHook ELSE lock
    /\ rerun' = [rerun EXCEPT ![h] = @ /\ ~Mounted(h)]
    /\ run' = [run EXCEPT ![h] = IF rerun[h] /\ Mounted(h) /\ online THEN Started ELSE Idle]

At(h, stage) == run' = [run EXCEPT ![h].stage = stage] /\ UNCHANGED <<rerun, lock>>

(* The next organization of the run, if there is one and the shell is shown. *)
NextOrg(h) ==
    IF run[h].rest = {} \/ ~Mounted(h) THEN End(h)
    ELSE LET o == First(run[h].rest)
         IN  /\ run' = [run EXCEPT ![h] = [stage |-> "look", org |-> o,
                                          rest |-> run[h].rest \ {o}, took |-> {}]]
             /\ UNCHANGED <<rerun, lock>>

(* A run looks whether its shell is still shown after each call it awaits. *)
Continue(h, stage) == IF Mounted(h) THEN At(h, stage) ELSE End(h)

(* The organizations are listed first: each has metadata from its first pull. *)
List(h) ==
    /\ run[h].stage = "list"
    /\ Continue(h, "look")
    /\ UNCHANGED <<online, server, replica, phase, timer, poke, sockets, counters>>

(* Between the look at the metadata and the pull the shell is not asked for. *)
Look(h) ==
    /\ run[h].stage = "look"
    /\ IF run[h].org \in upgrade THEN NextOrg(h) ELSE At(h, "pull")
    /\ UNCHANGED <<online, server, replica, phase, timer, poke, sockets, counters>>

(* The server answers requests for the organization the run is at. *)
Answered(h) == online /\ run[h].org \notin denied

(* Bug: every page is taken to hold a change. *)
PagePastHead(o) == have' = [have EXCEPT ![o] = @ + 1]

(* One page: the cursor moves on, unless it is at the head. *)
Page(o) == have' = [have EXCEPT ![o] = IF @ < head[o] THEN @ + 1 ELSE @]

(* Bug: the run does not look whether its shell is still there. *)
PullRegardless(h) ==
    /\ run[h].stage = "pull" /\ Answered(h)
    /\ \/ /\ run[h].org \in Newer
          /\ upgrade' = upgrade \cup {run[h].org}
          /\ NextOrg(h)
          /\ UNCHANGED have
       \/ /\ run[h].org \notin Newer
          /\ Page(run[h].org)
          /\ At(h, "read")
          /\ UNCHANGED upgrade
    /\ UNCHANGED <<online, server, pending, queued, phase, timer, poke, sockets, counters>>

Pull(h) ==
    /\ run[h].stage = "pull" /\ Answered(h)
    /\ \/ /\ run[h].org \in Newer
          /\ upgrade' = upgrade \cup {run[h].org}
          /\ NextOrg(h)
          /\ UNCHANGED have
       \/ /\ run[h].org \notin Newer
          /\ Page(run[h].org)
          /\ Continue(h, "read")
          /\ UNCHANGED upgrade
    /\ UNCHANGED <<online, server, pending, queued, phase, timer, poke, sockets, counters>>

(* dispatchOutbox reads the pending commands of the organization ... *)
Read(h) ==
    LET mine == {e \in pending : EditOrg[e] = run[h].org}
    IN  /\ run[h].stage = "read"
        /\ IF mine = {} THEN Continue(h, "upload")
           ELSE /\ run' = [run EXCEPT ![h].stage = "push", ![h].took = mine]
                /\ UNCHANGED <<rerun, lock>>
        /\ UNCHANGED <<online, server, replica, phase, timer, poke, sockets, counters>>

(* ... and sends them in batches, whether or not the shell is still shown: a *)
(* batch leaves the outbox with its outcomes, and the live queries fire.     *)
Push(h) ==
    /\ run[h].stage = "push" /\ Answered(h)
    /\ \E batch \in (SUBSET run[h].took) \ {{}} :
          /\ pending' = pending \ batch
          /\ IF batch = run[h].took THEN Continue(h, "upload")
             ELSE /\ run' = [run EXCEPT ![h].took = @ \ batch]
                  /\ UNCHANGED <<rerun, lock>>
    /\ head' = [head EXCEPT ![run[h].org] = @ + 1]
    /\ PokeAll
    /\ UNCHANGED <<online, denied, have, upgrade, queued, phase, timer, sockets, counters>>

Upload(h) ==
    /\ run[h].stage = "upload" /\ Answered(h)
    /\ Continue(h, "drain")
    /\ UNCHANGED <<online, server, replica, phase, timer, poke, sockets, counters>>

Drain(h) ==
    /\ run[h].stage = "drain" /\ Answered(h)
    /\ Page(run[h].org)
    /\ IF have[run[h].org] < head[run[h].org] THEN Continue(h, "drain") ELSE NextOrg(h)
    /\ UNCHANGED <<online, server, pending, upgrade, queued, phase, timer, poke, sockets, counters>>

(* Bug: the run that failed is not tried again. *)
RequestFailsForGood(h) ==
    /\ run[h].stage \in {"pull", "push", "upload", "drain"}
    /\ Answered(h) => failures < MaxFailures
    /\ failures' = IF Answered(h) THEN failures + 1 ELSE failures
    /\ End(h)
    /\ UNCHANGED <<online, server, replica, phase, timer, poke, sockets, offline>>

(* A request fails: offline, refused (403), or for another reason.  The      *)
(* whole run is given up and tried again later.                              *)
RequestFails(h) ==
    /\ run[h].stage \in {"pull", "push", "upload", "drain"}
    /\ Answered(h) => failures < MaxFailures
    /\ failures' = IF Answered(h) THEN failures + 1 ELSE failures
    /\ timer' = [timer EXCEPT ![h] = @ \/ Mounted(h)]
    /\ End(h)
    /\ UNCHANGED <<online, server, replica, phase, poke, sockets, offline>>

Step(h) == List(h) \/ Look(h) \/ Pull(h) \/ Read(h) \/ Push(h) \/ Upload(h) \/ Drain(h)

-----------------------------------------------------------------------------
(* The hint socket. *)

SocketOpens(h) ==
    /\ socket[h] = "opening" /\ online
    /\ socket' = [socket EXCEPT ![h] = "open"]
    /\ poke' = [poke EXCEPT ![h] = TRUE]
    /\ UNCHANGED <<online, server, replica, phase, timer, rerun, runs, known, counters>>

(* The server answers the subscription with the current heads, or closes it  *)
(* when one of the organizations is denied.                                  *)
Subscribe(h) ==
    /\ socket[h] = "open" /\ online
    /\ \/ /\ denied # {}
          /\ socket' = [socket EXCEPT ![h] = "waiting"]
          /\ UNCHANGED <<known, poke>>
       \/ /\ denied = {}
          /\ socket' = [socket EXCEPT ![h] = "subscribed"]
          /\ known' = [known EXCEPT ![h] = head]
          /\ poke' = [poke EXCEPT ![h] = TRUE]
    /\ UNCHANGED <<online, server, replica, phase, timer, rerun, runs, counters>>

(* Bug: the server remembers the heads it polled without telling them. *)
PollSilently(h) ==
    /\ socket[h] = "subscribed" /\ online
    /\ known' = [known EXCEPT ![h] = head]
    /\ UNCHANGED <<online, server, replica, hooks, runs, socket, counters>>

(* Every HINT_POLL_SECONDS the server compares the heads with those it told. *)
Poll(h) ==
    /\ socket[h] = "subscribed" /\ online
    /\ \/ /\ denied # {}
          /\ socket' = [socket EXCEPT ![h] = "waiting"]
          /\ UNCHANGED known
       \/ /\ denied = {} /\ known[h] # head
          /\ known' = [known EXCEPT ![h] = head]
          /\ UNCHANGED socket
    /\ poke' = [poke EXCEPT ![h] = TRUE]
    /\ UNCHANGED <<online, server, replica, phase, timer, rerun, runs, counters>>

SocketCloses(h) ==
    /\ socket[h] \in {"opening", "open", "subscribed"}
    /\ online => failures < MaxFailures
    /\ failures' = IF online THEN failures + 1 ELSE failures
    /\ socket' = [socket EXCEPT ![h] = "waiting"]
    /\ UNCHANGED <<online, server, replica, hooks, runs, known, offline>>

Reconnect(h) ==
    /\ socket[h] = "waiting"
    /\ socket' = [socket EXCEPT ![h] = IF online THEN "opening" ELSE "down"]
    /\ UNCHANGED <<online, server, replica, hooks, runs, known, counters>>

Hint(h) == SocketOpens(h) \/ Subscribe(h) \/ Poll(h) \/ Reconnect(h)

-----------------------------------------------------------------------------
Next ==
    \/ \E e \in Edit : QueueEdit(e)
    \/ \E o \in Org : OthersPublish(o) \/ RemoveMembership(o)
    \/ GoOffline \/ GoOnline
    \/ \E h \in Hook :
          \/ Mount(h) \/ Unmount(h) \/ CloseTab(h)
          \/ Notified(h) \/ TimerFires(h)
          \/ Step(h) \/ RequestFails(h)
          \/ Hint(h) \/ SocketCloses(h)

Spec == Init /\ [][Next]_vars

(* The browser comes back online, some shell is shown, timers fire, promises *)
(* settle, and the server answers and polls.                                 *)
FairSpec ==
    /\ Spec
    /\ WF_vars(GoOnline)
    /\ \A h \in Hook :
          /\ WF_vars(Mount(h))
          /\ WF_vars(Notified(h))
          /\ WF_vars(TimerFires(h))
          /\ WF_vars(Step(h) \/ RequestFails(h))
          /\ WF_vars(Hint(h))

-----------------------------------------------------------------------------
(* Properties. *)

(* The run of h still has to read the outbox of the command e, or has it.    *)
WillPush(h, e) ==
    /\ Running(h)
    /\ \/ EditOrg[e] \in run[h].rest
       \/ EditOrg[e] = run[h].org /\ run[h].stage \in {"list", "look", "pull", "read"}
       \/ run[h].stage = "push" /\ e \in run[h].took

(* No edit is forgotten: while the browser is online every shell that is     *)
(* shown will look at each pending command again, whatever run failed, found *)
(* the lock taken or had already passed the organization when it was queued. *)
EditsAreScheduled ==
    online => \A h \in Hook, e \in pending :
       Mounted(h) /\ EditOrg[e] \notin upgrade =>
          timer[h] \/ poke[h] \/ rerun[h] \/ WillPush(h, e)

(* The same for changes of other members: while a cursor is behind, a hint,  *)
(* a reconnection, a timer or a run will bring every shell to pull again.    *)
ChangesAreScheduled ==
    online => \A h \in Hook, o \in Org :
       Mounted(h) /\ o \notin upgrade /\ have[o] < head[o] =>
          \/ timer[h] \/ poke[h] \/ rerun[h]
          \/ Running(h) /\ o \in {run[h].org} \cup run[h].rest
          \/ socket[h] \in {"opening", "open", "waiting"}
          \/ socket[h] = "subscribed" /\ known[h][o] # head[o]

(* Where there are locks, one run at a time touches the replica, the run     *)
(* left behind by a shell that has gone included.                            *)
OneRunAtATime ==
    Locks => \A g, h \in Hook : Running(g) /\ Running(h) => g = h

(* A run that goes from w to v stays within the call that it awaits: it has  *)
(* looked and pulls one page, has read the outbox, or has sent a batch of    *)
(* what it had read.                                                         *)
SameCall(w, v) ==
    \/ v \in {w, Idle}
    \/ w.stage = "look" /\ v = [w EXCEPT !.stage = "pull"]
    \/ w.stage = "read" /\ v = [w EXCEPT !.stage = "push", !.took = v.took]
    \/ /\ w.stage = "push"
       /\ v = [w EXCEPT !.took = v.took]
       /\ v.took \subseteq w.took /\ v.took # w.took

(* A shell that has gone only finishes the call it was in.  It begins no     *)
(* other organization, reads no outbox and drains no feed, whatever timer,   *)
(* rerun or answer comes; of the commands that it has read it may still send *)
(* the batches that are left, each command once.                             *)
GoneShellFinishesItsCall ==
    [][\A h \in Hook : phase[h] = "gone" => SameCall(run[h], run'[h])]_vars

(* Everything the server will let the browser do gets done: with no          *)
(* membership removed, every command this build can send leaves the outbox   *)
(* and every cursor reaches the head.                                        *)
Settled ==
    /\ \A e \in pending : EditOrg[e] \in upgrade
    /\ \A o \in Org \ upgrade : have[o] = head[o]
WorkIsDone == <>[]Settled

(* The documented rule: a queued command is synchronized once the browser    *)
(* is online; only the organization that refuses it may keep it waiting.     *)
QueuedWorkIsDelivered ==
    \A e \in Edit :
       e \in pending ~> (e \notin pending \/ EditOrg[e] \in denied \cup upgrade)
=============================================================================
