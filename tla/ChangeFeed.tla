---------------------------- MODULE ChangeFeed -----------------------------
(***************************************************************************)
(* The change feed of one organization: the allocator and the constraint   *)
(* triggers of alembic/versions/0009_organization_change_feed.py, the      *)
(* database transactions of the command services that publish through it,  *)
(* and SynchronizationQueryService.pull and bootstrap, which read it.      *)
(*                                                                         *)
(* Rows a transaction has written but not committed live in work[s], seen  *)
(* by session s only; they reach the committed tables in Commit and vanish *)
(* in Abort (an exception, a lost connection, a crash of the API).  Every  *)
(* service also locks the organization row; the model relies only on the   *)
(* lock on the head row that the allocator itself takes, so it allows more *)
(* interleavings than the services produce.                                *)
(***************************************************************************)
EXTENDS Integers, FiniteSets

CONSTANTS
    Session,      \* database sessions of the API
    Mutation,     \* mutation identities
    NoMutation,   \* no mutation
    Replica,      \* browsers that pull the organization
    MaxChanges,   \* bound: records published by one command
    MaxGroups,    \* bound: transaction_group_limit of a pull
    MaxLost       \* bound: rows missing after a partial restore

ASSUME NoMutationAssumption == NoMutation \notin Mutation
ASSUME BoundsAssumption ==
    /\ MaxChanges \in Nat \ {0}
    /\ MaxGroups \in Nat \ {0}
    /\ MaxLost \in Nat

VARIABLES
    head,         \* organization_change_heads.next_sequence; 0: no row yet
    transactions, \* rows of organization_change_transactions
    changes,      \* rows of organization_changes
    retained,     \* outcome kept in mutations for each identity
    work,         \* what each session has done in its open transaction
    cursor,       \* the cursor each replica holds; NoCursor before bootstrap
    pulling,      \* group limit of the pull a replica has in progress; 0: none
    seen,         \* sequence numbers whose changes each replica has received
    published,    \* history: every transaction row ever committed
    lost          \* history: number of rows a partial restore left out

feedVars == <<head, transactions, changes, retained, work, published, lost>>
readVars == <<cursor, pulling, seen>>
vars == <<feedVars, readVars>>

NoCursor == -1

Idle == [phase |-> "idle", mutation |-> NoMutation, first |-> 0, last |-> 0, written |-> 0]

Transaction == [mutation : Mutation, first : Nat, last : Nat]

TypeOK ==
    /\ head \in Nat
    /\ transactions \subseteq Transaction
    /\ changes \subseteq [sequence : Nat, mutation : Mutation]
    /\ retained \in [Mutation -> {"none", "rejected", "published"}]
    /\ work \in [Session -> [phase : {"idle", "open", "reserved"},
                             mutation : Mutation \cup {NoMutation},
                             first : Nat, last : Nat, written : Nat]]
    /\ \A s \in Session : work[s].phase # "idle" => work[s].mutation \in Mutation
    /\ cursor \in [Replica -> Nat \cup {NoCursor}]
    /\ pulling \in [Replica -> 0..MaxGroups]
    /\ seen \in [Replica -> SUBSET Nat]
    /\ published \subseteq Transaction
    /\ lost \in Nat

Init ==
    /\ head = 0
    /\ transactions = {}
    /\ changes = {}
    /\ retained = [m \in Mutation |-> "none"]
    /\ work = [s \in Session |-> Idle]
    /\ cursor = [r \in Replica |-> NoCursor]
    /\ pulling = [r \in Replica |-> 0]
    /\ seen = [r \in Replica |-> {}]
    /\ published = {}
    /\ lost = 0

-----------------------------------------------------------------------------
(* Writing: one database transaction of a command service. *)

NextSequence == IF head = 0 THEN 1 ELSE head

(* Bug: the service does not look for a retained outcome.                    *)
OpenCommandAgain(s, m) ==
    /\ work[s].phase = "idle"
    /\ \A t \in Session : work[t].mutation # m
    /\ work' = [work EXCEPT ![s] = [Idle EXCEPT !.phase = "open", !.mutation = m]]
    /\ UNCHANGED <<head, transactions, changes, retained, published, lost, readVars>>

(* A command service takes the advisory lock of the mutation identity and   *)
(* finds no retained outcome; with one, it would answer it and write nothing. *)
OpenCommand(s, m) ==
    /\ work[s].phase = "idle"
    /\ \A t \in Session : work[t].mutation # m
    /\ retained[m] = "none"
    /\ work' = [work EXCEPT ![s] = [Idle EXCEPT !.phase = "open", !.mutation = m]]
    /\ UNCHANGED <<head, transactions, changes, retained, published, lost, readVars>>

(* The command is rejected: the transaction commits the rejection alone. *)
RetainRejection(s) ==
    /\ work[s].phase = "open"
    /\ retained' = [retained EXCEPT ![work[s].mutation] = "rejected"]
    /\ work' = [work EXCEPT ![s] = Idle]
    /\ UNCHANGED <<head, transactions, changes, published, lost, readVars>>

(* Bug: the head row is read without FOR UPDATE. *)
HeadRowIgnored == TRUE

(* The head row is locked FOR UPDATE (or its insertion blocks) while another *)
(* transaction has advanced it without committing.                          *)
HeadRowFree == \A t \in Session : work[t].phase # "reserved"

(* reserve_organization_change_transaction: lock the head row, take n numbers. *)
Reserve(s, n) ==
    /\ work[s].phase = "open"
    /\ HeadRowFree
    /\ work' = [work EXCEPT ![s] = [@ EXCEPT !.phase = "reserved",
                                             !.first = NextSequence,
                                             !.last = NextSequence + n - 1]]
    /\ UNCHANGED <<head, transactions, changes, retained, published, lost, readVars>>

(* Insert the next organization_changes row of the reserved range. *)
WriteChange(s) ==
    /\ work[s].phase = "reserved"
    /\ work[s].first + work[s].written <= work[s].last
    /\ work' = [work EXCEPT ![s].written = @ + 1]
    /\ UNCHANGED <<head, transactions, changes, retained, published, lost, readVars>>

(* The deferred constraint triggers: the group is completely published. *)
PublicationComplete(s) == work[s].first + work[s].written = work[s].last + 1

(* Bug: the head row stays at the last number used. *)
CommitKeepsHead(s) ==
    LET w == work[s]
        row == [mutation |-> w.mutation, first |-> w.first, last |-> w.last]
    IN  /\ w.phase = "reserved"
        /\ PublicationComplete(s)
        /\ head' = w.last
        /\ transactions' = transactions \cup {row}
        /\ published' = published \cup {row}
        /\ changes' = changes \cup {[sequence |-> q, mutation |-> w.mutation] :
                                       q \in w.first..(w.first + w.written - 1)}
        /\ retained' = [retained EXCEPT ![w.mutation] = "published"]
        /\ work' = [work EXCEPT ![s] = Idle]
        /\ UNCHANGED <<lost, readVars>>

Commit(s) ==
    LET w == work[s]
        row == [mutation |-> w.mutation, first |-> w.first, last |-> w.last]
    IN  /\ w.phase = "reserved"
        /\ PublicationComplete(s)
        /\ head' = w.last + 1
        /\ transactions' = transactions \cup {row}
        /\ published' = published \cup {row}
        /\ changes' = changes \cup {[sequence |-> q, mutation |-> w.mutation] :
                                       q \in w.first..(w.first + w.written - 1)}
        /\ retained' = [retained EXCEPT ![w.mutation] = "published"]
        /\ work' = [work EXCEPT ![s] = Idle]
        /\ UNCHANGED <<lost, readVars>>

Abort(s) ==
    /\ work[s].phase # "idle"
    /\ work' = [work EXCEPT ![s] = Idle]
    /\ UNCHANGED <<head, transactions, changes, retained, published, lost, readVars>>

(* The operator restores a dump that misses a feed row, with traffic stopped. *)
PartialRestore ==
    /\ lost < MaxLost
    /\ lost' = lost + 1
    /\ \A s \in Session : work[s].phase = "idle"
    /\ \A r \in Replica : pulling[r] = 0
    /\ \/ \E row \in changes : changes' = changes \ {row} /\ UNCHANGED transactions
       \/ \E row \in transactions : transactions' = transactions \ {row} /\ UNCHANGED changes
    /\ UNCHANGED <<head, retained, work, published, readVars>>

-----------------------------------------------------------------------------
(* Reading: pull and bootstrap. *)

(* current_sequence *)
CurrentSequence == IF head = 0 THEN 0 ELSE head - 1

(* The head row agrees with the highest stored change. *)
HeadIsPhysical ==
    IF head = 0 THEN changes = {}
    ELSE /\ \A c \in changes : c.sequence <= CurrentSequence
         /\ \E c \in changes : c.sequence = CurrentSequence

(* Bug: a replica that misses nothing counts as behind. *)
BehindOldestOffByOne(r) ==
    /\ changes # {}
    /\ \A c \in changes : cursor[r] <= c.sequence - 1

(* The change right after the cursor is older than the oldest stored one. *)
BehindOldest(r) ==
    /\ changes # {}
    /\ \A c \in changes : cursor[r] < c.sequence - 1

(* _is_transaction_boundary *)
AtTransactionBoundary(r) ==
    cursor[r] = 0 \/ \E t \in transactions : t.last = cursor[r]

(* pull answers bootstrap_required before it looks at a page: the oldest       *)
(* change is looked at only for a cursor that stands on a boundary.            *)
NeedsBootstrap(r) ==
    \/ cursor[r] = NoCursor
    \/ ~HeadIsPhysical
    \/ cursor[r] > CurrentSequence
    \/ AtTransactionBoundary(r) /\ cursor[r] < CurrentSequence /\ BehindOldest(r)

(* The first limit transactions after the cursor. *)
Page(r, limit) ==
    LET after == {t \in transactions : t.last > cursor[r]}
    IN  {t \in after : Cardinality({u \in after : u.first < t.first}) < limit}

(* Bug: the cursor is taken from the first number of the last group. *)
PageEndsEarly(page) ==
    {n \in {t.first : t \in page} : \A t \in page : t.first <= n}

(* groups[-1].last_sequence *)
PageEnds(page) == {n \in {t.last : t \in page} : \A t \in page : t.last <= n}

(* Bug: only the transaction rows are compared, not their changes. *)
PageIsAdjacent(after, page, end) ==
    \A t \in page : t.first = after + 1 \/ \E u \in page : t.first = u.last + 1

(* _page_is_contiguous: each transaction begins where the previous one, or   *)
(* the cursor, ends; and every number up to the end of the page is stored    *)
(* under the mutation of the transaction it belongs to.                      *)
PageIsContiguous(after, page, end) ==
    /\ \A t \in page : t.first = after + 1 \/ \E u \in page : t.first = u.last + 1
    /\ \A q \in (after + 1)..end :
          \E t \in page : /\ q \in t.first..t.last
                          /\ [sequence |-> q, mutation |-> t.mutation] \in changes

(* Bug: one group more is asked for, to learn whether it is there. *)
BeginPullOneMore(r, limit) ==
    /\ pulling[r] = 0
    /\ ~NeedsBootstrap(r)
    /\ AtTransactionBoundary(r)
    /\ cursor[r] # CurrentSequence
    /\ pulling' = [pulling EXCEPT ![r] = limit + 1]
    /\ UNCHANGED <<feedVars, cursor, seen>>

(* Bug: the head is taken for the last number used. *)
BeginPullShort(r, limit) ==
    /\ pulling[r] = 0
    /\ ~NeedsBootstrap(r)
    /\ AtTransactionBoundary(r)
    /\ cursor[r] + 1 # CurrentSequence
    /\ cursor[r] # CurrentSequence
    /\ pulling' = [pulling EXCEPT ![r] = limit]
    /\ UNCHANGED <<feedVars, cursor, seen>>

(* The first statements of pull: the heads, the boundary, the oldest change. *)
BeginPull(r, limit) ==
    /\ pulling[r] = 0
    /\ ~NeedsBootstrap(r)
    /\ AtTransactionBoundary(r)
    /\ cursor[r] # CurrentSequence
    /\ pulling' = [pulling EXCEPT ![r] = limit]
    /\ UNCHANGED <<feedVars, cursor, seen>>

(* The page statements of pull; the replica applies the page it is sent. *)
PullPage(r) ==
    LET page == Page(r, pulling[r])
    IN  /\ pulling[r] # 0
        /\ \E end \in PageEnds(page) :
              /\ PageIsContiguous(cursor[r], page, end)
              /\ cursor' = [cursor EXCEPT ![r] = end]
              /\ seen' = [seen EXCEPT ![r] = @ \cup
                            {c.sequence : c \in {d \in changes :
                                d.sequence > cursor[r] /\ d.sequence <= end}}]
        /\ pulling' = [pulling EXCEPT ![r] = 0]
        /\ UNCHANGED feedVars

(* The page misses a row: bootstrap_required. *)
PageIsBroken(r) ==
    LET page == Page(r, pulling[r])
    IN  \A end \in PageEnds(page) : ~PageIsContiguous(cursor[r], page, end)

(* Bug: the cursor of a snapshot is the highest stored change. *)
BootstrapFromChanges(r) ==
    LET stored == {c.sequence : c \in changes} \cup {0}
        highest == CHOOSE n \in stored : \A m \in stored : m <= n
    IN  /\ \/ pulling[r] = 0 /\ NeedsBootstrap(r)
           \/ pulling[r] # 0 /\ PageIsBroken(r)
        /\ cursor' = [cursor EXCEPT ![r] = highest]
        /\ seen' = [seen EXCEPT ![r] = 1..highest]
        /\ pulling' = [pulling EXCEPT ![r] = 0]
        /\ UNCHANGED feedVars

(* bootstrap: one repeatable-read snapshot of the projection and its cursor. *)
Bootstrap(r) ==
    /\ \/ pulling[r] = 0 /\ NeedsBootstrap(r)
       \/ pulling[r] # 0 /\ PageIsBroken(r)
    /\ cursor' = [cursor EXCEPT ![r] = CurrentSequence]
    /\ seen' = [seen EXCEPT ![r] = 1..CurrentSequence]
    /\ pulling' = [pulling EXCEPT ![r] = 0]
    /\ UNCHANGED feedVars

-----------------------------------------------------------------------------
Write(s) ==
    \/ \E m \in Mutation : OpenCommand(s, m)
    \/ RetainRejection(s)
    \/ \E n \in 1..MaxChanges : Reserve(s, n)
    \/ WriteChange(s)
    \/ Commit(s)
    \/ Abort(s)

Read(r) ==
    \/ \E limit \in 1..MaxGroups : BeginPull(r, limit)
    \/ PullPage(r)
    \/ Bootstrap(r)

Next ==
    \/ \E s \in Session : Write(s)
    \/ PartialRestore
    \/ \E r \in Replica : Read(r)

Spec == Init /\ [][Next]_vars

(* The browser's retry timer and hints keep pulling. *)
LiveSpec == Spec /\ \A r \in Replica : WF_vars(Read(r))

-----------------------------------------------------------------------------
(* Properties. *)

(* The groups ever published number 1, 2, ... up to the head without a gap   *)
(* and without two groups sharing a number, whatever transactions abort      *)
(* between taking their numbers and committing.                              *)
FeedIsPartitioned ==
    \A q \in 1..CurrentSequence :
       \E t \in published : /\ q \in t.first..t.last
                            /\ \A u \in published : q \in u.first..u.last => u = t

(* A mutation identity publishes at most one group, and exactly when its     *)
(* retained outcome says so: a retried or concurrent delivery adds nothing.  *)
OneGroupPerMutation ==
    /\ \A t, u \in published : t.mutation = u.mutation => t = u
    /\ \A m \in Mutation :
          retained[m] = "published" <=> \E t \in published : t.mutation = m

(* A replica has received exactly the changes up to its cursor: pages never  *)
(* carry it past a row that is missing, even after a partial restore.        *)
ReplicaIsComplete ==
    \A r \in Replica : cursor[r] # NoCursor => seen[r] = 1..cursor[r]

(* A cursor always stands between two groups: no page splits a command.      *)
CursorBetweenGroups ==
    \A r \in Replica :
       cursor[r] \in {NoCursor, 0} \cup {t.last : t \in published}

(* As long as no row was lost, a replica with a cursor is always served      *)
(* incrementally: the gap checks raise no false alarm.                       *)
NoNeedlessBootstrap ==
    lost = 0 =>
       \A r \in Replica :
          /\ cursor[r] # NoCursor => ~NeedsBootstrap(r) /\ AtTransactionBoundary(r)
          /\ pulling[r] # 0 => ~PageIsBroken(r)

(* No replica ever moves backwards, bootstraps after a restore included.     *)
CursorNeverMovesBack ==
    [][\A r \in Replica : cursor'[r] >= cursor[r]]_vars

(* The feed of rows, locks and pages implements the feed it stands for.      *)
Log == INSTANCE FeedLog WITH next <- NextSequence, groups <- published, position <- cursor
LogSpec == Log!LogSpec

(* Once the writers are done every replica reaches the head, unless a restore *)
(* left a row out.                                                           *)
ReplicasCatchUp ==
    [](lost = 0) => <>[](\A r \in Replica : cursor[r] = CurrentSequence)
=============================================================================
