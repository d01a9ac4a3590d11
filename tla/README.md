# CookOps: a TLA+ verification of its synchronization and its services

CookOps is an offline-first planner: browsers keep a replica of each
organization in IndexedDB, queue every edit in an outbox, and exchange commands
and changes with a Python/PostgreSQL server. This directory holds TLA+ models of
the parts on which the users' data depends, TLC configurations that check them
on small instances, and TLAPS proofs of the main invariants for every instance.
Paths below are relative to the repository; `S17`, `S18`, ... are the files of
`specification/` with that number.

To check a run: `tlc -config <cfg> <MC module>.tla`. To check the proofs:
`tlapm` on each of the modules named `...Proofs`.

## The system

| Component | Where | State | Operations |
| --- | --- | --- | --- |
| Change feed | `backend/alembic/versions/0009_organization_change_feed.py` | `organization_change_heads`, `organization_change_transactions`, `organization_changes` | reserve a range of sequence numbers, write change rows, deferred checks at commit |
| Command services | `backend/src/cookops/application/*.py` | domain rows with per-field clocks, `mutations` (retained outcomes) | one database transaction per command: lock the organization and the mutation identity, replay a retained outcome or decide, write rows, change rows and the outcome |
| Push, pull, bootstrap | `application/synchronization.py`, `http_sync.py` | none of its own | push runs a batch one command after the other; pull answers groups after a cursor or `bootstrap_required`; bootstrap answers a snapshot and a cursor |
| Replica and outbox | `frontend/src/local-db.ts`, `sync-bootstrap.ts`, `sync-dispatcher.ts`, `event-attendance.ts` | `outbox`, `canonicalRecords`, `optimisticOverlays`, `syncMetadata` | queue a command with its overlay, pull and apply groups, push batches, bootstrap |
| Scheduler and hints | `frontend/src/sync-lifecycle.ts`, the socket of `http_sync.py` | refs `running`, `rerun`, `retry`, `active`, `generation`; the lock of the browser; the socket and the heads it was told | start a run on a trigger, visit every organization, retry, clean up |
| Receipt photos | `frontend/src/receipt-media.ts`, `application/receipt_media.py`, `http_media.py`, `media_storage.py` | `pendingUploads`, `receipt_attachments`, `media_upload_tickets` | create, ticket, upload and finalize, status, retry, remove |
| Event plan | `application/events.py`, `event_*.py`, `scheduled_recipe_{moves,note,lifecycle}.py` | `events`, `event_days`, `event_meal_roles`, `scheduled_recipes`, `event_dietary_exceptions` and their tags | create and change events, days, roles, exceptions; schedule, place, move and retire recipes; duplicate |
| Menu and prices | `scheduled_recipes.py`, `scheduled_recipe_{overrides,context,catalog_update}.py`, `event_prices.py` | the pinned version, scale and overrides of each scheduled recipe; price streams of the event | schedule, override, rescale, bring to another version, refresh prices |
| Catalog | `catalog_configuration.py`, `ingredient*.py`, `recipes.py`, `recipe_*.py` | configuration rows, ingredients and recipes with immutable versions and a current pointer, price estimates | configure, publish, retire, copy from another organization |
| Shopping lists | `shopping_lists.py` | a list, its generation revisions and snapshots, rows, contributions with credit, ad-hoc items | generate, refresh, check, correct |
| Everything else | memberships, sessions, OAuth server, MCP, receipts, archive snapshots, projections | | see *Not modelled* |

How they interact. A **command service** publishes what it did by reserving
numbers from the **feed** inside its own transaction. A **replica** pushes the
commands of its outbox to the services through **push**, and reads the feed
through **pull**; the two directions meet in IndexedDB, where a group of the feed
replaces canonical records and rebuilds the optimistic overlays. The
**scheduler** decides when a tab does either; the hint socket tells it that a head
moved. The **photos** ride on the scheduler's runs after the outbox.

What is hard in it, and where it is addressed:

* *Interleavings.* Database sessions on the allocator (`ChangeFeed`); the
  `await`s of several asynchronous functions on one IndexedDB (`SyncReplica`);
  triggers, timers, locks and unmounting (`SyncScheduler`); two tabs and late
  requests on one upload ticket (`ReceiptUpload`).
* *Delivery.* Commands delivered late, twice, out of order, or with a lost
  answer (`CommandService`, `SyncReplica`, `ReceiptUpload`).
* *Failure.* Aborted transactions, rows lost in a restore, closed tabs between
  two IndexedDB transactions, offline periods, removed memberships.
* *Stale intent.* A command decided against rows that its client has not seen: a
  refresh from another branch of a list, an update previewed against older
  versions, an override of a line that is gone (`ShoppingLists`, `Catalog`, `Menu`),
  a move next to a recipe that has moved (`EventPlan`).
* *Progress.* Every queued edit and photo is worked on until it has an outcome;
  every replica reaches the head.

## Modules

| Module | What it is |
| --- | --- |
| `FeedLog` | What the feed promises: an append-only log of groups, read by cursors that stop between groups and never move back |
| `ChangeFeed` | The feed as PostgreSQL and `pull` implement it; implements `FeedLog` through the refinement mapping `Log` |
| `ChangeFeedProofs` | Its invariants and the refinement, proved |
| `CommandService` | The services for attendance, recipe lifecycle and event lifecycle, with clocks and retained outcomes; publishes groups to an ideal feed |
| `SyncReplica` | One browser's replica on top of `CommandService`: outbox, records, overlays, cursor and the functions that work on them |
| `SyncReplicaProofs` | The safety properties of `CommandService` and of `SyncReplica`, and that the server in the second is the first, proved |
| `SyncScheduler` | When a browser synchronizes |
| `SyncSchedulerProofs` | Its safety properties, proved |
| `ReceiptUpload` | The upload queue for receipt photos and the services behind it |
| `ReceiptUploadProofs` | Its safety properties, proved |
| `CommandLog` | What the next four modules share: retained outcomes, field clocks, the group a command publishes, and a transaction that the database refuses |
| `ShoppingLists` | The services of shopping lists, over a plan that changes |
| `ShoppingListsProofs` | All its properties, proved |
| `EventPlan` | The services of an event's dates, days, roles, scheduled recipes and dietary exceptions, and duplication |
| `EventPlanProofs` | All its properties, proved |
| `Catalog` | The services of the catalog, and copies from another organization's |
| `CatalogProofs` | All its properties, proved |
| `Menu` | The services of scheduled recipes' versions, scales, overrides and prices |
| `MenuProofs` | All its properties, proved |
| `MC*` | Model values and small sets for TLC |

### FeedLog and ChangeFeed

`head`, `transactions` and `changes` are the three tables; `retained[m]` is the
row of `mutations` for a command; `work[s]` is what session `s` has written in
its open transaction, invisible to the others. A session opens a transaction
for a mutation (`OpenCommand`), reserves a range (`Reserve`: the insert into
`organization_change_transactions`, whose trigger locks and advances the head
row), writes its change rows one by one (`WriteChange`) and commits
(`Commit`, enabled only if the deferred triggers accept: `PublicationComplete`)
or aborts (`Abort`). `RetainRejection` is the transaction of a rejected command.
`PartialRestore` deletes a committed row, of the transactions or of the changes,
as a partial restore may (`deploy/README.md`).

A replica's pull is two steps because `pull` reads in several statements:
`BeginPull` picks the group limit, and `PullPage` reads head, oldest row and page.
`NeedsBootstrap`, `AtTransactionBoundary`, `PageEnds` and `PageIsContiguous` are
the checks of `synchronization.py`, in its order; `Bootstrap` moves a cursor
that the feed cannot serve.

The services also lock the organization row. The model relies only on the head
row the allocator itself locks, so it contains more interleavings than the code
has, and what it shows does not depend on the discipline of each service.

### CommandService

`lifecycle`, `attendance` and `scheduled` are the rows, `clock` the stamp of each
field, `retained[c]` the outcome kept for a command, `feed` the published groups. A
delivery of a command is one action, `UpdateBaseAttendance`,
`SetRecipeAttendance`, `SetRecipeLifecycle` or `SetEventLifecycle`, because the
service holds the organization lock and the advisory lock of the mutation until
it commits. The exception is in the code: `set_event_lifecycle` ends its
transaction before a second one retains the rejection (`event_lifecycle.py:580-637`),
so `RefuseEventLifecycle` and `RetainLifecycleRejection` are separate actions.
A command may be delivered at any time and any number of times after `Issue`.
`Wins` is the comparison of `_field_clock_wins`: the wall time, then the identity.
The events are there from the start. Of the fields modelled, `create_event` stamps the
attendance alone (`events.py:1213-1220`), and an event older than the clocks has no
stamp at all (`events.py:1002-1004`): `Creation` gives the stamp, or `NoClock`, and an
attendance recorded before the creation loses to it.

### SyncReplica

A *context* is an asynchronous function: the loop of a tab or a component that
calls `pullOrganization` (the planner and the shopping page do, outside the lock).
Its `stage` says at which `await` it stands; between two awaits it runs alone,
an IndexedDB transaction is one step. `outbox` is the table as it is stored, a row
with a `sequence` and a `state` for each command; `Newest`, `InOrder` and
`NextSequence` are what the code finds by its index. A pull asks, receives an answer computed
at the server's moment, applies one group per transaction (`ApplyGroup`, which
clears and rebuilds the overlays), and writes the cursor (`WriteCursor`). A push
reads the pending commands (`Gather`), marks those too large in a second transaction
(`RejectOversized`), sends batches, and settles the outcomes of each in one
transaction (`Settled`). Before the batches and after them it runs `updateMetadata`
(`sync-dispatcher.ts:181-188`), which reads the row of `syncMetadata` and puts it
back with another activity: `ReadMetadata` and `WriteMetadata` carry the cursor of
that row across the `await`. `Fail` ends a context anywhere, `PushFails` a push whose
page lives on and notes the failure in the metadata; the server may still run what it
was sent. `pull` never answers `bootstrap_required` here after the first bootstrap:
when it may is `ChangeFeed`'s subject. Nor does it answer with records that this build
cannot read, whose notes in the metadata (`sync-bootstrap.ts:787-793`) are left out:
`SyncScheduler` has the organization skipped. When an abandoned push is followed by another of the
same context the older batch is forgotten, as if the network had dropped it.

### SyncScheduler

A *hook* is one mounted shell. `Synchronize` is the guard of
`synchronize()`: the browser-wide lock where `navigator.locks` exists (a held
lock arms the timer), otherwise `running` and `rerun`. `List` is the reading of the
organizations, `Look`, `Pull`, `Read`, `Push`, `Upload` and `Drain` are the loop body
of `dispatchPending`. Between these calls it checks `active` and `generation`, within
them it does not: a shell that has gone while `dispatchOutbox` was reading the outbox
or waiting for an outcome sends the batches that are left
(`sync-dispatcher.ts:217-252`), and `Push` is one batch. `Unmount` is the clean-up, also
used for a `401`; each shell is a fresh component (`App.tsx:380`, `736`), so the timer
handle that the clean-up leaves in `retry.current` is never read again. Otherwise the
interiors of a pull and of a push are `SyncReplica`'s. `Poll` and `Hint` are the two
ends of the change-hint socket.

### ReceiptUpload

`local[u]` is the row of `pendingUploads` (or why there is none); `run[t]` is
how far the loop of a tab is in `dispatchReceiptUploads`; `removal[u]` how far
`removeReceiptUpload` is; `created`, `attachment`, `retired`, `live` are the
server's rows. A request is asked, served (`Serve`) and received (`Receive`);
one that is given up moves to `late` and may be served afterwards. The server's
handlers lock the organization and are one step.

### CommandLog

Every service decides one command in one transaction that holds the
organization's row and the mutation's advisory lock, so a delivery is one action,
over the variables `retained`, `request`, `clock` and `shown` (what the feed's
latest record of each row says). Its outcomes are four operators: `Malformed` and
`Reject` retain a rejection, `Conclude` moves the clocks that were won, publishes
one group and retains the outcome, `Abort` stands for a transaction that a
trigger or a constraint refuses (nothing is retained, `aborted` remembers it).
`ClocksHold` is the trigger of `0012_event_archives_field_clocks.py:152`: it takes a
clock only from a mutation that is accepted as a whole. The four modules that
extend `CommandLog` differ from `CommandService` in that they deliver a command
once and let retries stutter: retries are `CommandService`'s subject.

Requests are chosen from the state (`...Requests`), late and with stamps in any
order. `Scenarios` names which kinds of commands are taken together and on which
rows, so that a run visits every combination that interferes and no other.

### ShoppingLists

`list`, `revision`, `row`, `credit` and `item` are the tables: a list points at a
generation revision, a revision has a parent and a snapshot of each contribution
(what a recipe needs of an ingredient), a row collects the contributions of an
ingredient with its own credit, supply and target. `Create` and `Refresh` generate a
revision from `plan`, what the event cooks at the moment; refreshes of one parent
make branches, and `Refreshed` has the snapshots of contributions that only
another branch knows, retired. `Check` writes one contribution; `CheckRow` all
that `Touched` gives and the row, or nothing (`WinsAll`). `SetRowField`, the item
actions and `Rename` have a clock per field.

### EventPlan

`event` is the row of the event, `row` those of the other tables by table and
identity. `UpdateEvent` changes name and dates, and adds the days that the range
lacks. An ordering key is a sequence of digits: `Candidate` is `_between` for keys of
up to `KeyLength` characters, `NewKeys` what a relative move writes, `Index` where it
lands. `SetField` is the pattern of the services that write one field. `Place` and
`Move` share the clock of the placement. `Duplicate` is there for what makes it
fail (`Dangling`).

### Catalog

`row` has the rows of one organization, `other` how far another organization's
catalog is. Configuration rows, roots, versions and prices are separate keys, as
in the tables. `PublishIngredient` and `PublishPrice` advance a pointer with a
clock, `PublishRecipe` only from the current version (`BasedOnCurrent`), and
`UpdateRecipe` in addition checks that every line follows to the current version of
its ingredient with the amount it had, in the new unit (`LineFollows`,
`SameAmount`). `CopyIngredient` maps units and tags and copies the whole history;
`CopyRecipe` writes what `CreateRecipe` writes, of the current version alone. `Break` is
where the database refuses. `IsCatalog` says what the columns and foreign keys of the
tables say: what each row holds, and that what it refers to is there. Identities are
UUIDs: those that clients give (`Version`) and those that the server makes for a copy
(`Copied`) differ, which `IdentityAssumption` states.

### Menu

`row` has scheduled recipes (pinned version, scale, mode), overrides and price
streams; `catalog` what other services publish. A replacement override is of a line
of the pinned version, an addition of an ingredient the version does not have;
`Fits` is the database's trigger (`0011_scheduled_recipes.py:220`), and what does not
fit breaks the transaction. `Captures` gives an ingredient its first estimate;
`RefreshPrices` appends one to every stream and to every ingredient that
`Resolved` finds. `UpdateCatalog` repins and carries or retires the overrides.

## Runs

Every property of a passing run is one that a plausible fault of the code breaks; the
type invariants are proved and not run, that an ordering key never outgrows its column
included (`PlanTypes`).

`CHECK_DEADLOCK FALSE` appears where the modelled world really comes to rest:
every command published and read, or no shell left with anything to do.

| Run | Instance | Shows |
| --- | --- | --- |
| `ChangeFeed` | 2 sessions, 3 mutations, 1 replica, up to 2 records per command and 2 groups per page, 1 lost row | the groups tile the sequence numbers; one group per mutation; the replica has everything up to its cursor; no bootstrap without a lost row; cursors do not move back; the feed implements `FeedLog`; a replica reaches the head |
| `CommandService` | 1 event that a member created, 1 recipe, 3 commands of any kind, equal and late wall times, one beyond the horizon | last writer wins, at most once, the same answer again; groups carry what changed; an archived event takes no edit of after its archiving |
| `SyncReplica` | a tab and a component that pulls outside the lock, 3 commands (2 own, 1 of a member who edits or archives), pages of one group, 2 failures | no intent is lost, a failed row was refused, pending edits are shown; whatever overlaps, the cursor claims too much only after two contexts held it at once |
| `SyncConverges` | 2 tabs under the lock, one event with a recipe, archive and reactivation, 1 command too large to push, 1 failure | the cursor never claims a group the replica lacks; the outbox empties and the replica ends with the server's rows |
| `SyncScheduler` | 2 shells, 2 organizations, 1 edit, 1 failure, 1 offline period, locks | a shell that has gone finishes the call it is in, and begins nothing else; all work is done |
| `SchedulerNoLocks` | 1 shell, 2 organizations, 3 edits, one needing a newer build, one that may remove the member, 1 change of others | no edit and no change is forgotten without `navigator.locks` |
| `ShoppingLists` | 2 recipes that need 1 ingredient, a plan that drops one and changes the other, 1 ad-hoc item, 4 commands in 4 scenarios | no credit is left without its contribution; the feed has every row; last writer wins; a checked row is settled; no check undoes a newer one |
| `EventPlan` | 3 dates of which a range may have 2, 3 recipes, 2 roles, keys of 2 characters over 3 digits, 3 commands in 7 scenarios | a change of dates leaves one day per date; a move lands where it was asked to; last writer wins in each field; the feed tells the plan |
| `Catalog` | 2 ingredients, 2 recipes, 2 tags, mass and count units, another catalog in 2 states, up to 3 commands in 11 scenarios | names are unique; recipe versions are one line; updates keep amounts; copies keep the history; last writer wins |
| `Menu` | 1 scheduled soup in 3 versions, 3 ingredients, 2 lines, up to 3 commands in 8 scenarios | the last choice holds; the feed tells the menu; prices move only by a refresh, which covers what is cooked; an update keeps or discards every override |
| `Republication` | 1 ingredient published again | a violation: see *Disagreements* |
| `ReceiptUpload` | 1 photo, 2 tabs without locks, 1 failure or closed tab, late requests, expiring tickets, a removal, retries | the photo is stored once; its row goes only when the server has it; one ticket is good; it settles |

Why the bounds are enough. Three mutations and two sessions are the smallest
instance with a group on either side of one that aborts while another session
waits for the head row; two records are the smallest group a page could split.
Two concurrent writers of one field, and a third command that archives, retires
or restores between them, need three commands. Two contexts are enough for every
pairwise interleaving of the asynchronous functions, which share only the
tables, and pages of one group let an answer be older than another;
one failure hits every await. Two organizations are needed for a run
that has passed one of them; a second shell for the lock and for the next
user's shell. One photo is enough because the rows of two are independent, but
for the run that is given up on the first failure, which the retry covers.
The one edit of `SyncScheduler` makes one batch; `SchedulerNoLocks` pushes several, and
that a shell that has gone sends only what it had read is proved for any number of them.
Likewise a row that fails because it is too large is in `SyncConverges`, and
`FailedWasRefused` of such rows is proved.
In the four modules over `CommandLog` three commands are one that makes or changes
a row and two that contend for it, in both orders of arrival and of stamps; a
fourth is needed for a check between two refreshes of a list. A scenario has the
kinds of commands that read or write common rows; kinds that share nothing but
the pattern are in different ones. Keys of two characters over three digits have
neighbours with room, without room and equal ones, and run out of length.
The proofs below need none of the bounds.

Counters that the bounds cap: `MaxChanges`, `MaxGroups`, `MaxLost`, `MaxNow`,
`MaxFailures`, `MaxOffline`, `MaxOthers`, `MaxTickets`; each is commented at its
`CONSTANT`.

### Disagreements between code and documents

One run ends in a violation.

* `Republication` (`EveryPublicationIsDecided`): publishing a version of an
  ingredient inserts a clock of `current_version_id` whenever its pointer wins
  (`ingredient_versions.py:443-459`), and the second such insertion meets the row of
  the first. A republication fails, retains nothing, and fails again at every
  retry, against S17:219-221. A copied ingredient has such a row from the start
  (`ingredient_copy.py:1301-1317`), so its first publication that wins
  fails. Prices and recipe versions update the clock they find.

Others were met while modelling. Each is stated by a definition of its module,
which TLC finds violated when it is put in place of the properties of a
configuration with the changes named here; it has no run, so that the runs stay few.

* `EveryFollowerAgrees` (`CommandService`; one wall time, kinds attendance, retire,
  restore): a recipe that follows its event is retired, the attendance of the
  event changes, the recipe is restored and keeps the old number of diners
  (`scheduled_recipe_lifecycle.py:237`, `events.py:1539`), against S04:47-48.
* `CursorCoversCanonical` (`SyncReplica` with a component that pulls, nothing queued,
  pages of one group): a component's pull (`router.tsx:341`, the planner, the shopping
  page) takes no lock. Interleaved with the loop's it leaves older records under a newer
  cursor (`sync-bootstrap.ts:825`), against S18:29-30. `SerialCursorCovers`, which its
  run checks, says when the cursor is to be trusted.
* `AcceptedEditsStayVisible` (`SyncReplica`, `Event <- MCTwoEvents`, one tab): an
  accepted edit disappears from the screen until its own group is applied
  (`sync-bootstrap.ts:813`), against S18:205-206.
* `QueuedWorkIsDelivered` (`SyncScheduler`, `Deniable = {1}`, no failures): one
  organization that answers 403 stops every run before the organizations after it
  (`sync-lifecycle.ts:106`), against S10:33-34.
* `UploadsFollowReceipts` (`ReceiptUpload`, `Spec`, one tab, no failures): a photo
  queued with its receipt while a run is between reading the outbox and reading the
  uploads is sent first and refused, and the refusal is retained under the identity
  that every retry uses (`receipt-media.ts:245`), against the comment at
  `receipt-media.ts:239`.
* `EveryUpdateIsDecided` (`EventPlan`, `Scenarios <- Created`): an update that wins
  some of its fields moves their clocks under the outcome `partially_superseded`
  (`event_metadata.py:418`, and the same in `event_dietary_exceptions.py:731`), and the
  trigger of the clocks takes only `accepted` ones
  (`0012_event_archives_field_clocks.py:152`): the transaction fails, against
  S18:209-210 and S17:131-132.
* `FeedCarriesPlacements` (`EventPlan`): a relative move that renumbers publishes the
  recipes whose keys it changed and not the one it moved, unless it was renumbered
  too (`scheduled_recipe_moves.py:615`), against S18:108-109.
* `ArchivedPlanIsCopyable` (`EventPlan`): duplicating an event with an active recipe
  on a retired day or under a retired role raises `KeyError`
  (`event_duplication.py:547`), against S03:73-74.
* `OverridesCanBeKept` (`Menu`, `Scenarios <- Kept`): preserving an override whose
  line has another ingredient version turns it into an addition of an ingredient
  that the version has, which the trigger refuses, and so does a preserved addition
  that the new version has on a line (`scheduled_recipe_catalog_update.py:299`,
  `0011_scheduled_recipes.py:220`), against S04:90-97.
* `FutureCommandsAreRejected` (`ShoppingLists`, `Horizon = 1`): creating a list (and
  scheduling a recipe) does not look at how far ahead the clock of the client is
  (`shopping_lists.py:764`), against S18:190-191.

Further observations, without a property:

* `event_lifecycle.py:580-637` retains a rejection in a second transaction, so
  two deliveries of one command may be answered differently (S17:110-111).
  `OutcomeIsFinal` states what does hold: an outcome that is retained stays.
* A bootstrap leaves out the recipes of archived events
  (`synchronization.py:2161`), and a reactivation publishes the event alone
  (`event_lifecycle.py:766-789`): a replica bootstrapped in between shows the
  active event without its recipes (S10:23-24).
* After the change row at the head is lost, `bootstrap_required` is answered
  again after every bootstrap, and `while (await pullOrganization(...))`
  (`sync-lifecycle.ts:121`) does not end.
* A rejected `organization.update` retains no outcome (`organization_update.py:185`).
* A tab closed during an upload leaves the row `uploading`, which no later run
  selects (`receipt-media.ts:246`); `UploadsSettle` names the case (`Stranded`).
* A photo removed while its status was `absent` may be uploaded all the same,
  if a run already holds it (`receipt-media.ts:378`).
* A commit that succeeds but is reported as failed makes `upload_attachment`
  discard the bytes of an attachment that is `ready` (`http_media.py`, the
  `finally` block). `ReceiptUpload` has no such commit.
* Restoring a day whose date another day has meanwhile raises on a unique index
  instead of being rejected (`event_day_lifecycle.py:224`; `RestoreRaises`).
* A clear of an override that arrives before the set it follows is rejected for
  good, and the set then holds (`scheduled_recipe_overrides.py:687`).
* A scale chosen in the unit of an older version, arriving after an update to a
  version in another unit, overwrites the scale that the update suggested: their
  clocks have different names (`scheduled_recipe_context.py:312`,
  `scheduled_recipe_catalog_update.py:334`).
* A change of scale or of version that first brings in an ingredient captures no
  price (S07:21-22); a refresh does, which is what `RefreshCoversTheMenu` says.
* Copying a recipe keeps the amounts of its lines whatever unit the mapped
  ingredient version has (`recipe_copy.py:422`).

## Fairness

* `ChangeFeed`: `WF` on the reading of each replica; a browser that is open
  pulls again (that it does is `SyncScheduler`'s result). Nothing is assumed of
  the sessions. `ReplicasCatchUp` assumes no row was lost.
* `SyncReplica`: `WF` on every started context, since every `await` of it ends
  (a request that never ends is one that fails), and on starting some loop, which
  the scheduler's triggers do.
* `SyncScheduler`: `WF` on each shell's next step, on its armed timer, its
  pending trigger and its open socket, on mounting a shell, and on coming back
  online. Failures and offline periods are bounded, that is: they end.
* `ShoppingLists`, `EventPlan`, `Catalog`, `Menu`: none. A service owes nothing until
  it is called, and what it then does is one step; their properties are safety.
* `ReceiptUpload`: `WF` on each tab's next step. Nothing is assumed of the
  user, of late requests or of the server's other clients. A tab may be closed
  as often as `MaxFailures` says.

## What is proved

For every value of the constants allowed by the `ASSUME`s of the modules: any
number of sessions, mutations, replicas, shells, organizations and edits, and
any bound.

**ChangeFeed** (`ChangeFeedProofs`). `FeedIsPartitioned` is not inductive: it
says nothing of the transactions that are still open. `IInv` is the
conjunction of `TypeOK`, `FeedInv` and `ReaderInv`.

* `FeedInv`: an open transaction belongs to a mutation without a retained
  outcome (`WorkIsFresh`), no two sessions work on one mutation
  (`WorkIsDistinct`), a reserved range starts at the next number, since its
  session holds the head row (`RangeIsNext`), and all published groups are
  below the head (`GroupsAreBelow`), with the two properties themselves.
* `ReaderInv`: the rows that survive a restore were published, the head is the
  end of a group, a pull in progress has a cursor, with `CursorBetweenGroups` and
  `ReplicaIsComplete`.

The step lemmas (`TypeStep`, `FeedStep`, `ReaderStep`) have one step per action;
`CommitKeepsFeed` and `PageMovesForward` carry the two that matter. Results:
`TypeCorrect`, `FeedPartitioned`, `PublishedOnce`, `ReplicasComplete`,
`CursorsBetweenGroups`, `CursorsMoveForward`, and `FeedImplementsLog`, the
safety part of the refinement: each step of `ChangeFeed` is a step of `FeedLog`
or a stutter under `Log`.

**CommandService** (the first part of `SyncReplicaProofs`). All safety properties its run checks,
for any events, recipes, commands, wall-clock times and horizon, in three layers.

* `IInv` ties outcomes, answers and groups together: every group belongs to an
  applied command, no two to one command, every applied command has one
  (`Published`), and what is waiting for the second transaction of a rejection is
  a lifecycle command (`Decided`). `AppliedOnce` and `AnswersAreKept` follow.
* `WriterInv` is why last writer wins: the clock of a field is the stamp of the
  latest command applied to it, superseded ones included, or of the event's creation
  when no applied command is later (`WrittenBy`), and the
  field holds what that command asked for (`FieldsHold`). `LastWriterWins` alone is
  not inductive, since it says nothing of the clock the next command is
  compared with. The comparison has to be a strict total order on the stamps of
  different commands (`StampOrder`). `FollowersAgree` needs in addition that a recipe
  whose lifecycle has no clock is not retired.
* `CarriedInv`: the last group that mentions a row has the row, which gives
  `FeedCarriesRows` without reasoning about the `CHOOSE` in it at every step.

Results: `TypeCorrect`, `LatestWins`, `FeedIsComplete`, `PublishedOnce`,
`AnswersKept`, `FollowersFollow`, `OutcomesFinal`, `ArchivesFrozen`.

**SyncScheduler** (`SyncSchedulerProofs`). `EditsAreScheduled` and
`ChangesAreScheduled` list everything that may still take care of an edit or of
a cursor that is behind (a timer, a trigger, a rerun, the rest of a run, a
socket), so each action that uses up one of them has to leave another. The
strengthenings are `LockInv` (under locks a running shell holds the lock and
never sets `rerun`) and `HintInv` (the server tells no head the feed has not
reached; a shown shell that is online has a socket or a timer for one). Results:
`TypeCorrect`, `RunsAreSerial`, `GoneShellsFinish`, `NoEditForgotten`,
`NoChangeForgotten`. `GoneShellsFinish` says of each step of a shell that has gone that it
stays within the call it awaits (`SameCall`).

**ReceiptUpload** (`ReceiptUploadProofs`). That a photo is not lost hangs on an
answer that is older than the step it justifies: the tab removes the row
(`Stored`) some time after the server answered `ready`. The invariant therefore
says that such an answer is still true (`RequestsAreTrue`), which holds because
no step of the server takes `ready` back (`ReadyStays`, shown by `HandleStep` with
the rest of the server's half). `StoredOnce` and `OneLiveTicket` need
`CreatedFirst`: tickets and finalizations belong to attachments that the accepted
command created. Results: `TypeCorrect`, `PhotosKept`, `FinalizedOnce`,
`TicketsAreOne`, with and without locks.

**SyncReplica** (the second part of `SyncReplicaProofs`). `ServerImplemented` is the composition:
every step of the replica is a step of `CommandService` or leaves the server's
variables alone, so its `IInv` holds here too and the replica may use what is
proved there, above all that an outcome that is retained stays. Then three layers.

* `OutboxInv`: the rows have distinct numbers with a largest one, own commands are
  attendance updates that are in the outbox before anyone sends them, each
  command of a batch that is waited for has an outcome or is still to be served
  (`Answered`), and an event shows its newest pending command or one that was
  refused (`NewestIsShown`). `FailedWasRefused` and `PendingEditsAreShown` follow, and
  `NoIntentIsLost` from `Answered`: a row leaves the outbox on an outcome that some
  earlier answer carried.
* `SentInv`: whatever precedes a command of a request in the outbox has an outcome,
  is too large to be sent, or is earlier in the same request (`Preceded`). With
  `EarlierFirst` of the first layer it gives `ServedInOrder`, which is in no run.
* `HoldInv`: the rows stored cover the cursor, and what each context holds between its
  reading of the cursor and its writing: the group it has reached, or the metadata it is
  about to put back. It is inductive as long as at most one context is between the two
  (`CursorHeldOnce`), which is what `CursorsCovered` supposes of a behaviour and all that
  it supposes: it needs no lock, nor that only tabs pull. A behaviour without
  such an overlap keeps `CursorCoversCanonical` throughout, however its contexts fail.
  The loops of tabs under the lock cannot overlap; a component can.

**ShoppingLists** (`ShoppingListsProofs`). All five properties of its run, and
`TypeOK`, for any recipes, ingredients, needs, items and commands.

* `IInv` has, for the clocks, that a field's clock is the stamp of the latest command
  applied to it (`ClocksRemember`) and that the row holds what it asked for
  (`ListIsTheirs`, `RowsAreTheirs`, `ItemsAreTheirs`); that nothing is there before
  the list (`Created`); and the feed and the credit as the properties state them. A
  refresh keeps the credit explained because the snapshot it makes has every
  contribution with credit, those included that only another branch knows; a check
  keeps it because it credits what the current revision has.
* `CheckedRowIsSettled` is about a sum over the contributions of a row. `Total` folds
  over a set in an order that nothing fixes, so `TotalUnfolds` takes one element out
  and the results about sums (`SumsExtend`, `TotalIn`, `TotalIsZero`) go by the
  least counterexample over the size of the set, which needs the sets finite
  (`FiniteAssumption`). `Typed`, a second
  invariant on top of the first, says that the amounts are natural numbers.

**Menu** (`MenuProofs`). All five properties of its run, and `TypeOK`, for any
versions, ingredients, scenarios and commands. `IInv` is `TypeOK` with five parts:
the applied commands refer to scheduled recipes that are there (`Shaped`), a line of
a scheduled recipe is replaced by one row at most, retired ones included
(`ReplacedOnce`: the service takes the row there is), the clock of a choice is the stamp of
the latest command that made it (`ClocksRemember`), the override holds that choice as long as
no update came between (`ChoicesHold`), and the feed. `LatestChoiceHolds` alone is not
inductive: it says nothing of the clock that the next choice has to beat, and a
choice that loses must find the winner in the row. With two
rows for one line, a choice written in one of them would leave the older choice in
the other.

**Catalog** (`CatalogProofs`). All five properties of its run, `TypeOK`, and
`NoNewRetiredTag`, for any rows to start from, mappings, units, factors and commands.
`IInv` is `TypeOK` with

* `UniqueNames` and `Linear`, which are inductive given the types: a name is compared
  with those of all rows of its table, retired ones included, and a version of a
  recipe is based on the one that is current, or is the first. That adding it adds one
  to the versions and one to the bases is `LinearGrows`, for any number of them;
* `ClocksRemember` and `FieldsHold`, as in the other modules: the clock of a field is the
  stamp of the latest command applied to it, and the field holds what that one asked
  for. A copy counts as a write of what it makes: `CopiedClocks` gives the new root
  and tags clocks with the copy's stamp, so that a publication recorded before the copy
  loses to it. A run with a copy and publications of its prices shows the case;
* `Shaped`: no row has an identity that a command has yet to give. Without it a copy could
  meet rows under its own new identities, and what it adds would not be all there is.

`CommitStep` carries every command but for what is special to it (`Honours`: it writes
what it won and nothing else that has a clock). `CopyKeepsHistory` compares the size of
two sets by a bijection from the versions shown to the versions made.
`UpdateKeepsAmounts` is over any factors: it needs nothing of multiplication but what the
guard states.

**EventPlan** (`EventPlanProofs`). All four properties of its run, and `TypeOK`, for any plan to start
from, any dates, keys, texts and commands. `IInv` is `TypeOK` with

* `IsPlan`: one active day for a date, which is what the unique index and the guards of
  the services keep between them, and the server's days numbered in the order in
  which they came, so that a day made for a date is never one that is there. It gives
  `ChangeCoversTheRange`: a change of dates makes a day where there is no active one
  (`DaysForAre`), so there is one, and no plan has two (`OneDay`);
* `ClocksRemember` and `FieldsHold`, as in the other modules, over the fields of all
  tables, with the placement that `Place` and `Move` share and the set of tags of an
  exception as fields of their own. `Logged` says that a clock belongs to a field
  that is there. A relative move that renumbers its neighbours changes their keys
  and no clock, so the key of a recipe is not among the fields that a clock speaks for;
* `FeedCarriesPlan`. `CommitStep` says what any command has to do to keep the invariant
  (`Honours`, `Tells`); on top of it there is one lemma for each pattern of commands.

`MoveLandsInPlace` needs no more of the past than the types. The order of keys is strict and
total on keys of any length (`LessIsStrict`, by the first letter at which two keys
differ), so the order of a scope with identities for ties is strict and total too
(`PrecedesIsStrict`). `OrderedIs` and `OrderedOnly` say that sorting a finite set gives the one
sequence that ascends, which holds because no two have the same rank (`RanksAre`).
A key made between two neighbours lies between them (`BetweenIs`), so the others keep their
order around it (`FitsBetween`); where there is none, the whole scope is numbered in the
order it has with the recipe put in (`NewKeysAre`, `MovedAscends`). Such a number is one
letter of the model, where the code writes a numeral of fixed width: `KeyAssumption`
has as many letters as there are recipes.

Constants. The assumptions that these modules state of their constants say what the
database's schema says: `None` (NULL) is no row's identity, needs and scales are
natural numbers with a positive scale, sets of recipes, ingredients and items are
finite, versions refer to lines, ingredients and units there are, and a scenario
starts from rows the services can have made (`PlanAssumption`: from a plan, see
`IsPlan`).

Only model-checked: every liveness property (`ReplicasCatchUp`,
`ReplicaConverges`, `WorkIsDone`, `UploadsSettle`: liveness under fairness is out
of the prover's reach), `CursorCoversCanonical` as `SyncConverges` checks it, of tabs
under the lock (the theorem is about `SerialCursorCovers`), and the violation.
Every other property of a run is a theorem.

Proved and not run, since the proof covers every instance: the type invariants of
the modules with proofs, `NoNewRetiredTag`, `ServedInOrder`, `FeedIsPartitioned`,
`CursorBetweenGroups`, `CursorNeverMovesBack`, `AppliedOnce`, `FollowersAgree`,
`OutcomeIsFinal`, `ArchivedIsFrozen`, `OneRunAtATime` and `OneLiveTicket`.

## Not modelled

Wire formats, parsing and validation of ill-formed commands (they are one
rejection, `Malformed`); what the user sees beyond whether a record or an overlay is
there; the status page. Of the rows: texts, colours and positions are members of
small sets, amounts are small numbers, portion weights, currencies and the notes
of overrides are left out. In `SyncReplica`, the overlays of commands other than the
attendance and the other columns of `syncMetadata`. In `ReceiptUpload`, replacing a
photo, other members retiring an attachment, the files and their clean-up, and
images the server cannot read. In `EventPlan`, what a duplication copies beyond
whether it can; in `Catalog`, the authorization over two organizations and the keys of built-in
translations, which a reconfiguration may not change
(`catalog_configuration.py:558-573`).

Not modelled at all: sessions and sign-in, the OAuth server and the MCP resource,
memberships and roles, receipts and budgets, archive snapshots and their cache, the
projections of the browser, which are pure functions of the replica. The
deployment scripts are operator workflows; of them only a restore that loses feed
rows is modelled.

## Plan

1. Done: `FeedLog`, `ChangeFeed`, `CommandService`, `SyncReplica`,
   `SyncScheduler`, `ReceiptUpload`, with their runs, and the proofs about the
   feed, the services, the scheduler and the photos.
2. Done: `CommandLog` with `ShoppingLists`, `EventPlan`, `Catalog` and `Menu`.
3. Done: the proofs of `SyncReplica`, `ShoppingLists`, `Menu`, `Catalog` and
   `EventPlan`, and `NoNeedlessBootstrap`. No safety property of a run is left
   without one.
4. Receipts, and the overlays of further commands in the replica.
5. Sessions and OAuth: rotation, expiry and revocation of browser sessions
   (`browser_sessions.py`), and the approval that is recorded and consumed once
   (`interaction-approvals.ts`) with an abstract one-shot decision that it implements.
6. Memberships: invitations, roles and the last administrator.
7. `ChangeFeed` extended by the restore of an older dump; archive snapshots
   fetched while an event is reactivated.

The run table stays small: an extension of a module replaces or widens its run
before it adds one.
