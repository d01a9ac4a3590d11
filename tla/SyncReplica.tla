---------------------------- MODULE SyncReplica ----------------------------
(***************************************************************************)
(* One browser's replica of an organization (frontend/src/sync-*.ts,       *)
(* local-db.ts, event-attendance.ts) and the server it synchronizes with   *)
(* (CommandService).  The replica's IndexedDB tables are shared by every   *)
(* tab and every component of the page: a context is one asynchronous      *)
(* function that pulls or pushes, either the synchronization loop of a tab *)
(* or a component that calls pullOrganization on its own.  Contexts        *)
(* interleave at every await, requests are answered late, and a context    *)
(* may fail (network error, closed tab) while the server goes on with what *)
(* it was sent.                                                            *)
(*                                                                         *)
(* A group of the change feed is named by its position in feed, so a       *)
(* cursor is the position of the last group read, and the record that the  *)
(* replica stores for a row is named by the position it was read at.       *)
(***************************************************************************)
EXTENDS CommandService

CONSTANTS
    Context,       \* asynchronous functions of this browser
    Loop,          \* those that are the synchronization loop of a tab
    Locks,         \* whether navigator.locks exists
    Own,           \* the commands this browser's user issues
    Oversized,     \* those larger than MAX_PUSH_BYTES
    PageLimit,     \* transaction_group_limit of a pull
    BatchLimit,    \* MAX_COMMANDS_PER_PUSH
    MaxFailures    \* bound: contexts that fail

ASSUME ContextAssumption == Loop \subseteq Context /\ Locks \in BOOLEAN
ASSUME OwnAssumption == Own \subseteq Command /\ Oversized \subseteq Own
ASSUME LimitAssumption ==
    PageLimit \in Nat \ {0} /\ BatchLimit \in Nat \ {0} /\ MaxFailures \in Nat

VARIABLES
    outbox,        \* the outbox table: the sequence number and state of a command
    canonical,     \* canonicalRecords: the position each row was read at
    overlay,       \* optimisticOverlays: the command whose value an event shows
    cursor,        \* syncMetadata.cursor
    context,       \* how far each context is
    flight,        \* commands of each context's last push the server has yet to run
    failures       \* history: contexts that failed so far

tables == <<outbox, canonical, overlay, cursor>>
replicaVars == <<tables, context, flight, failures>>
syncVars == <<serverVars, replicaVars>>

Absent == -1
NoCursor == -1
NoCommand == -1

Stages == {"none", "first", "drain", "panel"}
Steps == {"resting", "reading", "asking", "applying", "installing",
          "gathering", "sizing", "noting", "saving", "sending", "waiting"}

(* at: the cursor read, and then the group applied last; upto: the last group *)
(* of the answer; more: the answer had groups; todo: pending commands to send *)
(* and not yet answered; large: those read that no request can carry.         *)
Resting == [step |-> "resting", stage |-> "none", at |-> 0, upto |-> 0,
            more |-> FALSE, todo |-> <<>>, large |-> {}]

OutboxRow == [sequence : Nat \ {0}, state : {"pending", "failed"}]

SyncTypeOK ==
    /\ TypeOK
    /\ \E S \in SUBSET Own : outbox \in [S -> OutboxRow]
    /\ canonical \in [Entity -> Nat \cup {Absent}]
    /\ overlay \in [Event -> Own \cup {NoCommand}]
    /\ cursor \in Nat \cup {NoCursor}
    /\ context \in [Context -> [step : Steps, stage : Stages, at : Nat \cup {NoCursor},
                                upto : Nat, more : BOOLEAN, todo : Seq(Own),
                                large : SUBSET Oversized]]
    /\ flight \in [Context -> Seq(Own)]
    /\ failures \in Nat

SyncInit ==
    /\ ServerInit
    /\ outbox = [c \in {} |-> 0]
    /\ canonical = [x \in Entity |-> Absent]
    /\ overlay = [e \in Event |-> NoCommand]
    /\ cursor = NoCursor
    /\ context = [x \in Context |-> Resting]
    /\ flight = [x \in Context |-> <<>>]
    /\ failures = 0

-----------------------------------------------------------------------------
(* The replica's records. *)

Pending(box) == {c \in DOMAIN box : box[c].state = "pending"}

IsArchived(e, n) == RowFromFeed(e, n).lifecycle = "archived"

(* The replica stores the event, and not as archived. *)
Editable(e, records) == records[e] # Absent /\ ~IsArchived(e, records[e])

(* The command of S queued last. *)
Newest(S, box) == CHOOSE c \in S : \A d \in S : box[d].sequence <= box[c].sequence

(* replayOptimisticCommands over cleared overlays: the pending commands on an *)
(* event replace one another's value in outbox order.                         *)
Replayed(records, box) ==
    [e \in Event |->
       LET mine == {c \in Pending(box) : request[c].target = e}
       IN  IF Editable(e, records) /\ mine # {} THEN Newest(mine, box) ELSE NoCommand]

(* Bug: the overlays are cleared and the pending commands not replayed. *)
ClearOverlays(records) == overlay' = [e \in Event |-> NoCommand]

(* Clear the overlays and replay the pending commands over the new records. *)
RebuildOverlays(records) == overlay' = Replayed(records, outbox)

(* appendOutboxCommand: one more than the largest number in the table. *)
NextSequence ==
    IF DOMAIN outbox = {} THEN 1 ELSE outbox[Newest(DOMAIN outbox, outbox)].sequence + 1

(* queueEventAttendanceUpdate: the overlay and the command in one transaction. *)
Queue(c, req) ==
    /\ c \in Own
    /\ req.kind = "update_base_attendance"
    /\ Editable(req.target, canonical)
    /\ Issue(c, req)
    /\ outbox' = [d \in DOMAIN outbox \cup {c} |->
                    IF d = c THEN [sequence |-> NextSequence, state |-> "pending"] ELSE outbox[d]]
    /\ overlay' = [overlay EXCEPT ![req.target] = c]
    /\ UNCHANGED <<canonical, cursor, context, flight, failures>>

(* discardFailedOutboxCommand *)
Discard(c) ==
    /\ c \in DOMAIN outbox
    /\ outbox[c].state = "failed"
    /\ outbox' = [d \in DOMAIN outbox \ {c} |-> outbox[d]]
    /\ UNCHANGED <<serverVars, canonical, overlay, cursor, context, flight, failures>>

-----------------------------------------------------------------------------
(* pullOrganization and bootstrapOrganization. *)

(* synchronize: at most one tab holds the lock, where there are locks. *)
StartLoop(x) ==
    /\ x \in Loop
    /\ context[x].step = "resting"
    /\ Locks => \A y \in Loop : context[y].step = "resting"
    /\ context' = [context EXCEPT ![x].step = "reading", ![x].stage = "first"]
    /\ UNCHANGED <<serverVars, tables, flight, failures>>

(* A component refreshes the replica without the lock. *)
StartPanel(x) ==
    /\ x \in Context \ Loop
    /\ context[x].step = "resting"
    /\ context' = [context EXCEPT ![x].step = "reading", ![x].stage = "panel"]
    /\ UNCHANGED <<serverVars, tables, flight, failures>>

ReadCursor(x) ==
    /\ context[x].step = "reading"
    /\ context' = [context EXCEPT ![x].step = "asking", ![x].at = cursor]
    /\ UNCHANGED <<serverVars, tables, flight, failures>>

(* Bug: the last group of the feed is left for later. *)
PageEndShort(at) ==
    IF at + PageLimit < Len(feed) THEN at + PageLimit
    ELSE IF Len(feed) > at + 1 THEN Len(feed) - 1 ELSE at

PageEnd(at) == IF at + PageLimit < Len(feed) THEN at + PageLimit ELSE Len(feed)

(* The server answers a pull with the first groups after the cursor ... *)
AnswerPull(x) ==
    LET upto == PageEnd(context[x].at)
    IN  /\ context[x].step = "asking"
        /\ context[x].at # NoCursor
        /\ context' = [context EXCEPT ![x].step = "applying", ![x].upto = upto,
                                      ![x].more = (upto > context[x].at)]
        /\ UNCHANGED <<serverVars, tables, flight, failures>>

(* ... and, without a cursor, a bootstrap with a snapshot. *)
AnswerBootstrap(x) ==
    /\ context[x].step = "asking"
    /\ context[x].at = NoCursor
    /\ context' = [context EXCEPT ![x].step = "installing", ![x].upto = Len(feed),
                                  ![x].more = TRUE]
    /\ UNCHANGED <<serverVars, tables, flight, failures>>

(* What the context does after a pull that was answered. *)
AfterPull(x) ==
    LET w == context[x]
    IN  CASE w.stage = "first" -> [Resting EXCEPT !.step = "gathering", !.stage = "first"]
          [] w.stage = "drain" /\ w.more -> [Resting EXCEPT !.step = "reading", !.stage = "drain"]
          [] OTHER -> Resting

(* One IndexedDB transaction per group: its records overwrite those stored,  *)
(* and the overlays are rebuilt.                                             *)
ApplyGroup(x) ==
    LET i == context[x].at + 1
        records == [y \in Entity |->
                      IF y \in DOMAIN feed[i].records THEN i ELSE canonical[y]]
    IN  /\ context[x].step = "applying"
        /\ i <= context[x].upto
        /\ canonical' = records
        /\ RebuildOverlays(records)
        /\ context' = [context EXCEPT ![x].at = i]
        /\ UNCHANGED <<serverVars, outbox, cursor, flight, failures>>

(* Bug: the cursor is put before the groups are applied. *)
WriteCursorEarly(x) ==
    /\ context[x].step = "applying"
    /\ cursor' = context[x].upto
    /\ context' = [context EXCEPT ![x] = AfterPull(x)]
    /\ UNCHANGED <<serverVars, outbox, canonical, overlay, flight, failures>>

(* The cursor is put after the last group, in a write of its own. *)
WriteCursor(x) ==
    /\ context[x].step = "applying"
    /\ context[x].at = context[x].upto
    /\ cursor' = context[x].upto
    /\ context' = [context EXCEPT ![x] = AfterPull(x)]
    /\ UNCHANGED <<serverVars, outbox, canonical, overlay, flight, failures>>

(* The snapshot: every event, and the recipes of the active ones. *)
Snapshot(n) ==
    [x \in Entity |->
       IF x \in Recipe /\ IsArchived(EventOf[x], n) THEN Absent ELSE n]

InstallSnapshot(x) ==
    LET n == context[x].upto
    IN  /\ context[x].step = "installing"
        /\ canonical' = Snapshot(n)
        /\ RebuildOverlays(Snapshot(n))
        /\ cursor' = n
        /\ context' = [context EXCEPT ![x] = AfterPull(x)]
        /\ UNCHANGED <<serverVars, outbox, flight, failures>>

-----------------------------------------------------------------------------
(* dispatchOutbox. *)

(* orderedCommands: the commands of S in outbox order. *)
InOrder(S, box) ==
    {s \in [1..Cardinality(S) -> S] :
       /\ S = {s[i] : i \in DOMAIN s}
       /\ \A i, j \in DOMAIN s : i < j => box[s[i]].sequence < box[s[j]].sequence}

(* Where a context goes after its commands: to the pulls that drain the feed. *)
Draining == [Resting EXCEPT !.step = "reading", !.stage = "drain"]

GatherNothing(x) ==
    /\ context[x].step = "gathering"
    /\ Pending(outbox) = {}
    /\ context' = [context EXCEPT ![x] = Draining]
    /\ UNCHANGED <<serverVars, tables, flight, failures>>

(* Read the pending commands once, in order, and set the oversized apart ... *)
Gather(x) ==
    /\ context[x].step = "gathering"
    /\ Pending(outbox) # {}
    /\ \E todo \in InOrder(Pending(outbox) \ Oversized, outbox) :
          context' = [context EXCEPT ![x].step = "sizing", ![x].todo = todo,
                                     ![x].large = Pending(outbox) \cap Oversized]
    /\ UNCHANGED <<serverVars, tables, flight, failures>>

(* ... and mark those failed, in another transaction: rejectCommands. *)
RejectOversized(x) ==
    /\ context[x].step = "sizing"
    /\ outbox' = [c \in DOMAIN outbox |-> IF c \in context[x].large
                     THEN [outbox[c] EXCEPT !.state = "failed"] ELSE outbox[c]]
    /\ context' = [context EXCEPT ![x].step = "noting", ![x].large = {}]
    /\ UNCHANGED <<serverVars, canonical, overlay, cursor, flight, failures>>

(* updateMetadata, before the batches, after them and when one has failed:   *)
(* it reads the metadata ...                                                 *)
ReadMetadata(x) ==
    /\ context[x].step = "noting"
    /\ context' = [context EXCEPT ![x].step = "saving", ![x].at = cursor]
    /\ UNCHANGED <<serverVars, tables, flight, failures>>

AfterNote(x) ==
    CASE context[x].stage = "first" -> [context[x] EXCEPT !.step = "sending"]
      [] context[x].stage = "drain" -> Draining
      [] OTHER -> Resting

(* ... and puts them back, with another activity and the cursor it read. *)
WriteMetadata(x) ==
    /\ context[x].step = "saving"
    /\ cursor' = context[x].at
    /\ context' = [context EXCEPT ![x] = AfterNote(x)]
    /\ UNCHANGED <<serverVars, outbox, canonical, overlay, flight, failures>>

Batch(todo) == SubSeq(todo, 1, IF Len(todo) < BatchLimit THEN Len(todo) ELSE BatchLimit)
Rest(todo) == SubSeq(todo, Len(Batch(todo)) + 1, Len(todo))

(* The next batch, or, after the last one, the metadata. *)
SendBatch(x) ==
    /\ context[x].step = "sending"
    /\ context[x].todo # <<>>
    /\ flight' = [flight EXCEPT ![x] = Batch(context[x].todo)]
    /\ context' = [context EXCEPT ![x].step = "waiting"]
    /\ UNCHANGED <<serverVars, tables, failures>>

FinishDispatch(x) ==
    /\ context[x].step = "sending"
    /\ context[x].todo = <<>>
    /\ context' = [context EXCEPT ![x] = [Resting EXCEPT !.step = "noting", !.stage = "drain"]]
    /\ UNCHANGED <<serverVars, tables, flight, failures>>

(* push runs the commands of a request in order, each in its transaction, and *)
(* goes on when nobody waits for the response any more.                       *)
Serve(x) ==
    /\ flight[x] # <<>>
    /\ Deliver(Head(flight[x]))
    /\ flight' = [flight EXCEPT ![x] = Tail(@)]
    /\ UNCHANGED <<tables, context, failures>>

(* Bug: every answered command leaves the outbox. *)
SettledByDropping(box, batch) ==
    [c \in DOMAIN box \ {batch[i] : i \in DOMAIN batch} |-> box[c]]

(* Bug: only an accepted command leaves the outbox. *)
SettledIfAccepted(box, batch) ==
    LET named == {batch[i] : i \in DOMAIN batch}
        kept == {c \in DOMAIN box : c \in named => retained[c] # "accepted"}
    IN  [c \in kept |-> IF c \in named THEN [box[c] EXCEPT !.state = "failed"] ELSE box[c]]

(* The outbox after the outcomes of a batch: rejected commands stay as failed. *)
Settled(box, batch) ==
    LET named == {batch[i] : i \in DOMAIN batch}
        kept == {c \in DOMAIN box : c \in named => retained[c] = "rejected"}
    IN  [c \in kept |-> IF c \in named THEN [box[c] EXCEPT !.state = "failed"] ELSE box[c]]

ReceiveOutcomes(x) ==
    /\ context[x].step = "waiting"
    /\ flight[x] = <<>>
    /\ outbox' = Settled(outbox, Batch(context[x].todo))
    /\ context' = [context EXCEPT ![x].step = "sending", ![x].todo = Rest(@)]
    /\ UNCHANGED <<serverVars, canonical, overlay, cursor, flight, failures>>

(* A pull or a push fails, its response is lost, or the tab is closed; the   *)
(* server may or may not go on with a push.                                  *)
Fail(x) ==
    /\ context[x].step # "resting"
    /\ failures < MaxFailures
    /\ failures' = failures + 1
    /\ context' = [context EXCEPT ![x] = Resting]
    /\ flight' \in {flight, [flight EXCEPT ![x] = <<>>]}
    /\ UNCHANGED <<serverVars, tables>>

(* The page lives on after a push that failed, and notes that it retries. *)
PushFails(x) ==
    /\ context[x].step = "waiting"
    /\ failures < MaxFailures
    /\ failures' = failures + 1
    /\ context' = [context EXCEPT ![x] = [Resting EXCEPT !.step = "noting"]]
    /\ flight' \in {flight, [flight EXCEPT ![x] = <<>>]}
    /\ UNCHANGED <<serverVars, tables>>

-----------------------------------------------------------------------------
(* Commands of other members, delivered by their own clients. *)
Others ==
    /\ \/ \E c \in Command \ Own, req \in Request : Issue(c, req)
       \/ \E c \in Command \ Own : Deliver(c)
       \/ Tick
    /\ UNCHANGED replicaVars

(* A step of a context, once started. *)
Continue(x) ==
    \/ ReadCursor(x)
    \/ AnswerPull(x)
    \/ AnswerBootstrap(x)
    \/ ApplyGroup(x)
    \/ WriteCursor(x)
    \/ InstallSnapshot(x)
    \/ GatherNothing(x)
    \/ Gather(x)
    \/ RejectOversized(x)
    \/ ReadMetadata(x)
    \/ WriteMetadata(x)
    \/ SendBatch(x)
    \/ FinishDispatch(x)
    \/ Serve(x)
    \/ ReceiveOutcomes(x)

SyncNext ==
    \/ Others
    \/ \E c \in Own, req \in Request : Queue(c, req)
    \/ \E c \in Own : Discard(c)
    \/ \E x \in Context : StartLoop(x) \/ StartPanel(x) \/ Continue(x) \/ Fail(x) \/ PushFails(x)

SyncSpec == SyncInit /\ [][SyncNext]_syncVars

(* Every await ends, and the hints, the outbox subscription and the retry    *)
(* timer start the loop of some tab again.                                   *)
FairSyncSpec ==
    /\ SyncSpec
    /\ WF_syncVars(\E x \in Loop : StartLoop(x))
    /\ \A x \in Context : WF_syncVars(Continue(x))

-----------------------------------------------------------------------------
(* Properties. *)

(* The cursor never claims a group that the replica does not hold: every row *)
(* is stored as of its last change up to the cursor, or later.  A recipe may *)
(* be missing when its event was archived.                                   *)
CursorCoversCanonical ==
    \A x \in Entity : \A i \in 1..cursor :
       x \in DOMAIN feed[i].records =>
          \/ canonical[x] >= i
          \/ canonical[x] = Absent /\ x \in Recipe

(* No lock, no tab and no component is trusted for that: whatever pulls and   *)
(* pushes run at once and wherever they fail, the cursor claims too much only *)
(* after one of them stored groups, or put the metadata back, between         *)
(* another's reading of the cursor and its writing.                           *)
HoldsCursor(x) == context[x].step \in {"asking", "applying", "installing", "saving"}
CursorHeldOnce == \A x, y \in Context : HoldsCursor(x) /\ HoldsCursor(y) => x = y
SerialCursorCovers == []CursorHeldOnce => []CursorCoversCanonical

(* What the user asked for and the server has not answered stays in sight:   *)
(* whichever groups and snapshots arrive meanwhile, an event shows the last  *)
(* of the pending edits made to it, or an edit that failed since.            *)
Refused(c) == retained[c] = "rejected" \/ c \in Oversized
PendingEditsAreShown ==
    \A e \in Event :
       LET c == Replayed(canonical, outbox)[e]
       IN  c # NoCommand /\ overlay[e] # c => overlay[e] \in Own /\ Refused(overlay[e])

(* A command leaves the outbox only after the server applied it, or when it  *)
(* had failed and the user discards it: no crash, lost response or second    *)
(* tab loses an intent.                                                      *)
Held(c) == c \in DOMAIN outbox
Failed(c) == Held(c) /\ outbox[c].state = "failed"
NoIntentIsLost ==
    [][\A c \in Own : Held(c) /\ ~Held(c)' => retained[c] \in Applied \/ Failed(c)]_syncVars

(* Recoverable work is work the server refused: a command marked failed was  *)
(* never applied.                                                            *)
FailedWasRefused ==
    \A c \in Own : Failed(c) => Refused(c)

(* No command overtakes an earlier one of the same browser, in any request   *)
(* of any tab.                                                               *)
ServedInOrder ==
    \A c, d \in DOMAIN outbox :
       outbox[c].sequence < outbox[d].sequence /\ retained[d] # "none" =>
          retained[c] # "none" \/ c \in Oversized

(* In the end nothing is pending, the cursor is at the head, and every row   *)
(* the replica stores is the server's.                                       *)
Converged ==
    /\ Pending(outbox) = {}
    /\ cursor = Len(feed)
    /\ \A x \in Entity : canonical[x] # Absent => RowFromFeed(x, canonical[x]) = Row(x)
ReplicaConverges == <>[]Converged

(* The documented rule: an accepted edit stays visible until the canonical   *)
(* record that carries its outcome has replaced it.                          *)
Reconciled(c) ==
    \E i \in DOMAIN feed : feed[i].mutation = c /\ canonical[request[c].target] >= i
AcceptedEditsStayVisible ==
    \A c \in Own :
       retained[c] = "accepted" /\ Editable(request[c].target, canonical) =>
          Reconciled(c) \/ overlay[request[c].target] # NoCommand
=============================================================================
