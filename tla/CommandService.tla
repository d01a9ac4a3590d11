-------------------------- MODULE CommandService ---------------------------
(***************************************************************************)
(* The server's command services for one organization, seen through the    *)
(* commands that set the attendance of an event and of its scheduled       *)
(* recipes, retire and restore a scheduled recipe, and archive and         *)
(* reactivate an event (events.py, scheduled_recipe_attendance.py,         *)
(* scheduled_recipe_lifecycle.py, event_lifecycle.py).                     *)
(*                                                                         *)
(* A service runs in one database transaction that first locks the         *)
(* organization row and the mutation identity, so a delivery of a command  *)
(* is one step, except where the source uses a second transaction: the     *)
(* event lifecycle service retains a rejection only after the transaction  *)
(* that found it has ended.  Any command may be delivered any number of    *)
(* times, by retries and by overlapping requests.                          *)
(***************************************************************************)
EXTENDS Integers, Sequences, FiniteSets

CONSTANTS
    Event, Recipe,     \* the events and scheduled recipes of the organization
    EventOf,           \* the event each scheduled recipe belongs to
    Creation,          \* the stamp create_event left on each event's attendance
    Command,           \* mutation identities; their order is the UUID order
    Kinds,             \* bound: command kinds that are issued
    WallTimes,         \* bound: client wall-clock times of commands
    Attendances,       \* bound: attendance values of commands
    Horizon,           \* a command this far ahead of the server is rejected
    MaxNow             \* bound: server time

AllKinds == {"update_base_attendance", "archive", "reactivate",
             "set_manual", "follow_event", "retire", "restore"}

ASSUME EventOfAssumption == EventOf \in [Recipe -> Event]
ASSUME CommandAssumption == Command \subseteq Nat
ASSUME KindsAssumption == Kinds \subseteq AllKinds
ASSUME WallTimesAssumption == WallTimes \subseteq Nat
ASSUME AttendancesAssumption == Attendances \subseteq Nat
ASSUME TimeAssumption == Horizon \in Nat /\ MaxNow \in Nat
ASSUME DistinctAssumption == Event \cap Recipe = {}

VARIABLES
    now,          \* the server's clock
    request,      \* the command each client has recorded; NoRequest before
    lifecycle,    \* events.lifecycle
    attendance,   \* events.base_expected_attendance
    scheduled,    \* rows of scheduled_recipes: mode, diners, retired
    clock,        \* field_clocks: the winning stamp of each field
    retained,     \* mutations.outcome
    feed,         \* committed transaction groups: mutation and records
    deciding,     \* lifecycle commands rejected but not yet retained
    answers       \* history: the outcomes answered for each command

rows == <<lifecycle, attendance, scheduled, clock>>
serverVars == <<now, request, rows, retained, feed, deciding, answers>>

Entity == Event \cup Recipe
NoRequest == [kind |-> "none"]

(* What a client may ask: the kind, the row, the wall-clock time, the value  *)
(* where the kind has one.                                                   *)
Request ==
    UNION {[kind : Kinds \cap {"update_base_attendance"}, target : Event,
            time : WallTimes, value : Attendances],
           [kind : Kinds \cap {"archive", "reactivate"}, target : Event,
            time : WallTimes, value : {0}],
           [kind : Kinds \cap {"set_manual"}, target : Recipe,
            time : WallTimes, value : Attendances],
           [kind : Kinds \cap {"follow_event", "retire", "restore"}, target : Recipe,
            time : WallTimes, value : {0}]}

Field == Entity \X {"attendance", "lifecycle"}

(* Stamps order writes by wall-clock time, then by mutation identity. *)
Stamp == (Nat \cup {-1}) \X (Nat \cup {-1})
NoClock == <<-1, -1>>
(* A created event has a clock of its attendance, with the stamp of the       *)
(* creating command; one that is older than the clocks has none.  Nothing     *)
(* else that is modelled is stamped when its row is made.                     *)
ASSUME CreationAssumption ==
    Creation \in [Event -> (Nat \X (Nat \ Command)) \cup {NoClock}]

StartOf(x, field) == IF x \in Event /\ field = "attendance" THEN Creation[x] ELSE NoClock

Later(s, t) == s[1] > t[1] \/ (s[1] = t[1] /\ s[2] > t[2])
StampOf(c) == <<request[c].time, c>>

(* Bug: a tie is won by the command that arrives last. *)
WinsTies(c, f) == clock[f] = NoClock \/ request[c].time >= clock[f][1]

(* Without a clock row any write wins; with one, the later stamp. *)
Wins(c, f) == clock[f] = NoClock \/ Later(StampOf(c), clock[f])

Outcome == {"accepted", "partially_superseded", "rejected"}
Applied == {"accepted", "partially_superseded"}

EventRow == [lifecycle : {"active", "archived"}, attendance : Nat]
RecipeRow == [mode : {"follows_event", "manual"}, diners : Nat, retired : BOOLEAN]

TypeOK ==
    /\ now \in Nat
    /\ request \in [Command -> Request \cup {NoRequest}]
    /\ lifecycle \in [Event -> {"active", "archived"}]
    /\ attendance \in [Event -> Nat]
    /\ scheduled \in [Recipe -> RecipeRow]
    /\ clock \in [Field -> Stamp]
    /\ retained \in [Command -> Outcome \cup {"none"}]
    /\ deciding \subseteq Command
    /\ answers \in [Command -> SUBSET Outcome]

(* An active event whose recipes were scheduled following its attendance. *)
ServerInit ==
    /\ now = 0
    /\ request = [c \in Command |-> NoRequest]
    /\ lifecycle = [e \in Event |-> "active"]
    /\ attendance = [e \in Event |-> 0]
    /\ scheduled = [r \in Recipe |->
                      [mode |-> "follows_event", diners |-> 0, retired |-> FALSE]]
    /\ clock = [f \in Field |-> StartOf(f[1], f[2])]
    /\ retained = [c \in Command |-> "none"]
    /\ feed = <<>>
    /\ deciding = {}
    /\ answers = [c \in Command |-> {}]

-----------------------------------------------------------------------------
(* Pieces shared by the services. *)

(* A member's client records a command with its own wall-clock time. *)
Issue(c, req) ==
    /\ request[c] = NoRequest
    /\ request' = [request EXCEPT ![c] = req]
    /\ UNCHANGED <<now, rows, retained, feed, deciding, answers>>

Tick ==
    /\ now < MaxNow
    /\ now' = now + 1
    /\ UNCHANGED <<request, rows, retained, feed, deciding, answers>>

(* client_time_too_far_ahead *)
TooFarAhead(c) == request[c].time > now + Horizon

(* Bug: the event lifecycle is not looked at. *)
OpenToLateEdits(c, e) == ~TooFarAhead(c)

(* The event still takes ordinary edits. *)
Open(c, e) == ~TooFarAhead(c) /\ lifecycle[e] = "active"

(* Bug: no retained outcome is looked up. *)
FreshAgain(c, kinds) == request[c].kind \in kinds

(* A command of these kinds that has no retained outcome yet. *)
Fresh(c, kinds) ==
    /\ request[c].kind \in kinds
    /\ retained[c] = "none"

Answer(c, outcome) == answers' = [answers EXCEPT ![c] = @ \cup {outcome}]

(* An accepted or superseded command publishes one group with its outcome. *)
Conclude(c, outcome, records) ==
    /\ retained' = [retained EXCEPT ![c] = outcome]
    /\ feed' = Append(feed, [mutation |-> c, records |-> records])
    /\ Answer(c, outcome)
    /\ UNCHANGED <<now, request, deciding>>

(* A rejected command commits its rejection and nothing else. *)
Reject(c) ==
    /\ retained' = [retained EXCEPT ![c] = "rejected"]
    /\ Answer(c, "rejected")
    /\ UNCHANGED <<now, request, rows, feed, deciding>>

(* _event_change_record, _scheduled_recipe_change_record *)
EventRecord(e) == [lifecycle |-> lifecycle[e], attendance |-> attendance[e]]

(* Bug: a retained rejection is answered like an applied command. *)
ReplayAsAccepted(c) ==
    /\ retained[c] # "none"
    /\ Answer(c, "accepted")
    /\ UNCHANGED <<now, request, rows, retained, feed, deciding>>

(* A retried identity returns its retained outcome and changes nothing. *)
Replay(c) ==
    /\ retained[c] # "none"
    /\ Answer(c, retained[c])
    /\ UNCHANGED <<now, request, rows, retained, feed, deciding>>

-----------------------------------------------------------------------------
(* update_event_base_attendance *)

(* Bug: the condition on the mode is inverted. *)
ManualRecipes(e) ==
    {r \in Recipe : /\ EventOf[r] = e
                    /\ scheduled[r].mode = "manual"
                    /\ ~scheduled[r].retired}

(* The recipes an attendance change carries along. *)
FollowingRecipes(e) ==
    {r \in Recipe : /\ EventOf[r] = e
                    /\ scheduled[r].mode = "follows_event"
                    /\ ~scheduled[r].retired}

(* Bug: the records of the recipes are left out of the group. *)
EventRecordAlone(e, v) == [x \in {e} |-> [EventRecord(e) EXCEPT !.attendance = v]]

(* The records of a new attendance v: the event and the recipes that follow. *)
AttendanceRecords(e, v) ==
    [x \in {e} \cup FollowingRecipes(e) |->
       IF x = e THEN [EventRecord(e) EXCEPT !.attendance = v]
       ELSE [scheduled[x] EXCEPT !.diners = v]]

UpdateBaseAttendance(c) ==
    LET e == request[c].target
        v == request[c].value
        f == <<e, "attendance">>
    IN  /\ Fresh(c, {"update_base_attendance"})
        /\ \/ ~Open(c, e) /\ Reject(c)
           \/ /\ Open(c, e) /\ Wins(c, f)
              /\ attendance' = [attendance EXCEPT ![e] = v]
              /\ scheduled' = [r \in Recipe |->
                                 IF r \in FollowingRecipes(e)
                                 THEN [scheduled[r] EXCEPT !.diners = v] ELSE scheduled[r]]
              /\ clock' = [clock EXCEPT ![f] = StampOf(c)]
              /\ UNCHANGED lifecycle
              /\ Conclude(c, "accepted", AttendanceRecords(e, v))
           \/ /\ Open(c, e) /\ ~Wins(c, f)
              /\ UNCHANGED rows
              /\ Conclude(c, "partially_superseded", [x \in {e} |-> EventRecord(e)])

-----------------------------------------------------------------------------
(* set_scheduled_recipe_attendance *)

SetRecipeAttendance(c) ==
    LET r == request[c].target
        e == EventOf[r]
        f == <<r, "attendance">>
        open == Open(c, e) /\ ~scheduled[r].retired
        row == IF request[c].kind = "follow_event"
               THEN [scheduled[r] EXCEPT !.mode = "follows_event", !.diners = attendance[e]]
               ELSE [scheduled[r] EXCEPT !.mode = "manual", !.diners = request[c].value]
    IN  /\ Fresh(c, {"set_manual", "follow_event"})
        /\ \/ ~open /\ Reject(c)
           \/ /\ open /\ Wins(c, f)
              /\ scheduled' = [scheduled EXCEPT ![r] = row]
              /\ clock' = [clock EXCEPT ![f] = StampOf(c)]
              /\ UNCHANGED <<lifecycle, attendance>>
              /\ Conclude(c, "accepted", [x \in {r} |-> row])
           \/ /\ open /\ ~Wins(c, f)
              /\ UNCHANGED rows
              /\ Conclude(c, "partially_superseded", [x \in {r} |-> scheduled[r]])

-----------------------------------------------------------------------------
(* set_scheduled_recipe_lifecycle *)

SetRecipeLifecycle(c) ==
    LET r == request[c].target
        f == <<r, "lifecycle">>
        open == Open(c, EventOf[r])
        row == [scheduled[r] EXCEPT !.retired = (request[c].kind = "retire")]
    IN  /\ Fresh(c, {"retire", "restore"})
        /\ \/ ~open /\ Reject(c)
           \/ /\ open /\ Wins(c, f)
              /\ scheduled' = [scheduled EXCEPT ![r] = row]
              /\ clock' = [clock EXCEPT ![f] = StampOf(c)]
              /\ UNCHANGED <<lifecycle, attendance>>
              /\ Conclude(c, "accepted", [x \in {r} |-> row])
           \/ /\ open /\ ~Wins(c, f)
              /\ UNCHANGED rows
              /\ Conclude(c, "partially_superseded", [x \in {r} |-> scheduled[r]])

-----------------------------------------------------------------------------
(* set_event_lifecycle *)

(* Bug: the operation is stored for the lifecycle. *)
ResultingOperation(kind) == IF kind = "archive" THEN kind ELSE "active"

(* The lifecycle an operation starts from, and the one it leads to. *)
Expected(kind) == IF kind = "archive" THEN "active" ELSE "archived"
Resulting(kind) == IF kind = "archive" THEN "archived" ELSE "active"

LifecycleRefused(c) ==
    TooFarAhead(c) \/ lifecycle[request[c].target] # Expected(request[c].kind)

SetEventLifecycle(c) ==
    LET e == request[c].target
        after == Resulting(request[c].kind)
    IN  /\ Fresh(c, {"archive", "reactivate"})
        /\ ~LifecycleRefused(c)
        /\ lifecycle' = [lifecycle EXCEPT ![e] = after]
        /\ clock' = [clock EXCEPT ![<<e, "lifecycle">>] = StampOf(c)]
        /\ UNCHANGED <<attendance, scheduled>>
        /\ Conclude(c, "accepted", [x \in {e} |-> [EventRecord(e) EXCEPT !.lifecycle = after]])

(* The transaction that finds the rejection rolls back ... *)
RefuseEventLifecycle(c) ==
    /\ Fresh(c, {"archive", "reactivate"})
    /\ LifecycleRefused(c)
    /\ c \notin deciding
    /\ deciding' = deciding \cup {c}
    /\ UNCHANGED <<now, request, rows, retained, feed, answers>>

(* Bug: the rejection replaces an outcome retained meanwhile. *)
OverwriteOutcome(c) ==
    /\ c \in deciding
    /\ deciding' = deciding \ {c}
    /\ retained' = [retained EXCEPT ![c] = "rejected"]
    /\ Answer(c, "rejected")
    /\ UNCHANGED <<now, request, rows, feed>>

(* ... and _retain_rejection keeps it in another one, unless some outcome is *)
(* retained by then; either way the delivery answers its rejection.          *)
RetainLifecycleRejection(c) ==
    /\ c \in deciding
    /\ deciding' = deciding \ {c}
    /\ retained' = [retained EXCEPT ![c] = IF @ = "none" THEN "rejected" ELSE @]
    /\ Answer(c, "rejected")
    /\ UNCHANGED <<now, request, rows, feed>>

(* The API stops between the two transactions: nothing is kept or answered. *)
LoseLifecycleRejection(c) ==
    /\ c \in deciding
    /\ deciding' = deciding \ {c}
    /\ UNCHANGED <<now, request, rows, retained, feed, answers>>

-----------------------------------------------------------------------------
(* One delivery of a command, or one more step of it. *)
Deliver(c) ==
    \/ Replay(c)
    \/ UpdateBaseAttendance(c)
    \/ SetRecipeAttendance(c)
    \/ SetRecipeLifecycle(c)
    \/ SetEventLifecycle(c)
    \/ RefuseEventLifecycle(c)
    \/ RetainLifecycleRejection(c)
    \/ LoseLifecycleRejection(c)

ServerNext ==
    \/ \E c \in Command, req \in Request : Issue(c, req)
    \/ Tick
    \/ \E c \in Command : Deliver(c)

ServerSpec == ServerInit /\ [][ServerNext]_serverVars

-----------------------------------------------------------------------------
(* The rows as the feed tells them.  The tables hold them before any command. *)
Row(x) == IF x \in Event THEN EventRecord(x) ELSE scheduled[x]

InitialRow(x) ==
    IF x \in Event THEN [lifecycle |-> "active", attendance |-> 0]
    ELSE [mode |-> "follows_event", diners |-> 0, retired |-> FALSE]

(* The row x according to the first n groups. *)
RowFromFeed(x, n) ==
    LET groups == {i \in 1..n : x \in DOMAIN feed[i].records}
    IN  IF groups = {} THEN InitialRow(x)
        ELSE feed[CHOOSE i \in groups : \A j \in groups : j <= i].records[x]

-----------------------------------------------------------------------------
(* Properties. *)

(* Every change a service makes to a row is published: whoever replays the   *)
(* feed from the start holds the server's rows.                              *)
FeedCarriesRows == \A x \in Entity : RowFromFeed(x, Len(feed)) = Row(x)

(* The commands of some kinds applied to a row, and the latest of them. *)
AppliedTo(x, kinds) ==
    {c \in Command : /\ retained[c] \in Applied
                     /\ request[c].kind \in kinds
                     /\ request[c].target = x}
Latest(S) == CHOOSE c \in S : \A d \in S \ {c} : Later(StampOf(c), StampOf(d))

(* Last writer wins, whatever the order of arrival: each field holds what    *)
(* the latest of the commands applied to it asked for.  A command recorded   *)
(* before the event was created, by a clock that is behind, changes nothing. *)
EventAttendanceIsLatest ==
    \A e \in Event :
       LET S == {c \in AppliedTo(e, {"update_base_attendance"}) :
                   Later(StampOf(c), Creation[e])}
       IN  attendance[e] = IF S = {} THEN 0 ELSE request[Latest(S)].value

RecipeAttendanceIsLatest ==
    \A r \in Recipe :
       LET S == AppliedTo(r, {"set_manual", "follow_event"})
           w == Latest(S)
       IN  IF S = {} \/ request[w].kind = "follow_event"
           THEN scheduled[r].mode = "follows_event"
           ELSE scheduled[r].mode = "manual" /\ scheduled[r].diners = request[w].value

RecipeLifecycleIsLatest ==
    \A r \in Recipe :
       LET S == AppliedTo(r, {"retire", "restore"})
       IN  scheduled[r].retired = (S # {} /\ request[Latest(S)].kind = "retire")

LastWriterWins ==
    EventAttendanceIsLatest /\ RecipeAttendanceIsLatest /\ RecipeLifecycleIsLatest

(* A command publishes one group if it was applied and none otherwise,       *)
(* however often it is delivered.                                            *)
AppliedOnce ==
    \A c \in Command :
       Cardinality({i \in DOMAIN feed : feed[i].mutation = c})
         = IF retained[c] \in Applied THEN 1 ELSE 0

(* A client told that its command was applied can rely on it, and one told   *)
(* that it was rejected can too, unless it was an event lifecycle command.   *)
AnswersAreKept ==
    \A c \in Command :
       /\ answers[c] \cap Applied \subseteq {retained[c]}
       /\ "rejected" \in answers[c] =>
             retained[c] = "rejected" \/ request[c].kind \in {"archive", "reactivate"}

(* The outcome retained for an identity never changes.                       *)
OutcomeIsFinal ==
    [][\A c \in Command : retained[c] # "none" => retained'[c] = retained[c]]_serverVars

(* While an event is archived neither its attendance nor the diners, mode or *)
(* retirement of its recipes change: offline edits arriving late are refused. *)
ArchivedIsFrozen ==
    [][\A e \in Event : lifecycle[e] = "archived" =>
          /\ attendance'[e] = attendance[e]
          /\ \A r \in Recipe : EventOf[r] = e => scheduled'[r] = scheduled[r]]_serverVars

(* A scheduled recipe that follows its event and was never retired serves as *)
(* many diners as the event expects, in every order of arrival.              *)
FollowersAgree ==
    \A r \in Recipe :
       scheduled[r].mode = "follows_event" /\ clock[<<r, "lifecycle">>] = NoClock
          => scheduled[r].diners = attendance[EventOf[r]]

(* The documented rule, without the exception: every active recipe that      *)
(* follows its event serves as many diners as the event expects.             *)
EveryFollowerAgrees ==
    \A r \in Recipe :
       scheduled[r].mode = "follows_event" /\ ~scheduled[r].retired
          => scheduled[r].diners = attendance[EventOf[r]]
=============================================================================
