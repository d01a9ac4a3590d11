------------------------------ MODULE EventPlan ------------------------------
(***************************************************************************)
(* The plan of one event: its dates and days, its meal roles, the recipes   *)
(* scheduled on a day under a role in an order, and the dietary exceptions  *)
(* of its guests, with the services that edit them, and the copy that is    *)
(* made of an archived plan.                                               *)
(*                                                                         *)
(* Rows are keyed by their table and identity.  A day that a service makes   *)
(* for a date of the event is <<date, n>>, the n-th day of that date; a day  *)
(* that a client names is <<0, n>>.                                         *)
(***************************************************************************)
EXTENDS CommandLog, Sequences, FiniteSetsExt, SequencesExt

CONSTANTS
    Day, Role, Recipe, Exception,  \* identities that clients choose
    Tag,               \* dietary tags of the organization
    Text,              \* names and notes
    LastDate,          \* bound: dates are 1..LastDate
    MaxDays,           \* MAX_EVENT_DAY_COUNT
    Digits,            \* the letters of ordering keys are 0..Digits - 1
    KeyLength,         \* the longest ordering key, 255 in the code
    Keys,              \* bound: ordering keys that clients send themselves
    Movers,            \* bound: the recipes that are moved
    Presets,           \* the rows of the meal roles that a new event gets
    None,              \* NULL
    Scenarios          \* bound: kinds of steps that are taken together, on a plan

Kinds == {"create", "update", "create_day", "day_note", "day_visibility", "day_lifecycle",
          "create_role", "role_name", "role_position", "role_lifecycle",
          "schedule", "place", "move", "recipe_note", "recipe_lifecycle",
          "add_exception", "update_exception", "exception_lifecycle", "retire_tag",
          "archive", "duplicate"}

ASSUME IdentityAssumption ==
    /\ Day \subseteq {0} \X Nat /\ Role \subseteq Nat
    /\ Recipe \subseteq Nat /\ IsFiniteSet(Recipe)
    /\ 0 \notin Command    \* of the commands that made the plan of a scenario
ASSUME DateAssumption == LastDate \in Nat /\ MaxDays \in Nat \ {0}
ASSUME KeyAssumption ==
    /\ Digits \in Nat \ {0} /\ Cardinality(Recipe) <= Digits /\ KeyLength \in Nat \ {0}

VARIABLES
    event,     \* events
    row,       \* the rows of event_days, event_meal_roles, scheduled_recipes,
               \* event_dietary_exceptions and their tags, by table and identity
    tags,      \* the dietary tags that are not retired
    copy,      \* the rows of the event made by duplicating this one; None before
    kinds      \* the scenario

planVars == <<event, row, copy>>
vars == <<logVars, planVars, tags, kinds>>

Key == UNION {[1 .. n -> 0 .. Digits - 1] : n \in 1 .. KeyLength}
Date == 1 .. LastDate

-----------------------------------------------------------------------------
(* The tables. *)

NoEvent == [start |-> 0, end |-> 0, name |-> None, lifecycle |-> "none"]
Event == [start : 0 .. LastDate, end : 0 .. LastDate, name : Text \cup {None},
          lifecycle : {"none", "active", "archived"}]
DayRow == [date : Date, note : Text \cup {None}, visible : BOOLEAN, retired : BOOLEAN]

(* A built-in role has no name of its own. *)
RoleRow == [name : Text \cup {None}, key : Key, retired : BOOLEAN]
RecipeRow == [day : Day \cup (Date \X Nat), role : Role, key : Key,
              note : Text \cup {None}, retired : BOOLEAN]
ExceptionRow == [name : Text, retired : BOOLEAN]
TagRow == [retired : BOOLEAN]

Ev == <<"event">>
D(d) == <<"day", d>>
R(ro) == <<"role", ro>>
S(s) == <<"recipe", s>>
E(x) == <<"exception", x>>
T(x, t) == <<"tag", x, t>>
Has(k) == k \in DOMAIN row
Live(k) == Has(k) /\ ~row[k].retired
Rows(table) == {k \in DOMAIN row : k[1] = table}
DaysIn(rows) == {k \in DOMAIN rows : k[1] = "day"}
DaysOn(rows, date) == {k \in DaysIn(rows) : rows[k].date = date}

(* r may be the row with key k. *)
IsRow(k, r) ==
    \/ k = D(k[2]) /\ k[2] \in Day \cup (Date \X Nat) /\ r \in DayRow
    \/ k = R(k[2]) /\ k[2] \in Role /\ r \in RoleRow
    \/ k = S(k[2]) /\ k[2] \in Recipe /\ r \in RecipeRow
    \/ k = E(k[2]) /\ k[2] \in Exception /\ r \in ExceptionRow
    \/ k[1] = "tag" /\ k = T(k[2], k[3]) /\ k[2] \in Exception /\ k[3] \in Tag /\ r \in TagRow

TypeOK ==
    /\ retained \in [Command -> Outcome \cup {"none"}]
    /\ \A f \in DOMAIN clock : clock[f] \in Stamp
    /\ event \in Event /\ tags \subseteq Tag
    /\ \A k \in DOMAIN row : IsRow(k, row[k])

(* A plan as commands leave it: one active day for a date, the server's days     *)
(* numbered in the order in which days came, no tag without its exception.    *)
IsPlan(e, rows) ==
    /\ e \in Event /\ (e.lifecycle = "none" <=> e = NoEvent)
    /\ IF e = NoEvent THEN DOMAIN rows = {} ELSE e.start \in Date /\ e.end \in Date
    /\ \A k \in DOMAIN rows : IsRow(k, rows[k])
    /\ \A k \in DOMAIN rows : k[1] = "tag" => E(k[2]) \in DOMAIN rows
    /\ IsFiniteSet(DaysIn(rows))
    /\ \A k, l \in DaysIn(rows) :
          rows[k].date = rows[l].date /\ ~rows[k].retired /\ ~rows[l].retired => k = l
    /\ \A k \in DaysIn(rows) :
          k[2] \in Date \X Nat =>
             rows[k].date = k[2][1] /\ k[2][2] < Cardinality(DaysOn(rows, k[2][1]))

ASSUME PlanAssumption ==
    /\ Keys \subseteq Key
    /\ \A ro \in DOMAIN Presets : ro \in Role /\ Presets[ro] \in RoleRow
    /\ \A s \in Scenarios : IsPlan(s.event, s.row)

(* A scenario starts from a plan that earlier commands have made and told. *)
Init ==
    /\ retained = [c \in Command |-> "none"]
    /\ request = [c \in Command |-> NoRequest]
    /\ aborted = {}
    /\ tags = Tag /\ copy = None
    /\ \E s \in Scenarios :
          /\ kinds = s.kinds /\ event = s.event /\ row = s.row /\ shown = s.row
          /\ clock = [f \in {<<k, "placement">> : k \in {x \in DOMAIN s.row : x[1] = "recipe"}}
                            |-> <<0, 0>>]

-----------------------------------------------------------------------------
(* What clients ask for. *)

CreateRequests ==
    [kind : {"create"}, time : WallTimes, name : Text, start : Date, end : Date]
UpdateRequests ==     \* 0 for no dates
    {q \in [kind : {"update"}, time : WallTimes, name : Text, start : {0} \cup Date,
            end : {0} \cup Date] : (q.start = 0) = (q.end = 0)}
CreateDayRequests == [kind : {"create_day"}, time : WallTimes, day : Day, date : Date]
DayNoteRequests ==
    [kind : {"day_note"}, time : WallTimes, at : Rows("day"), value : Text \cup {None}]
DayVisibilityRequests ==
    [kind : {"day_visibility"}, time : WallTimes, at : Rows("day"), value : BOOLEAN]
DayLifecycleRequests ==
    [kind : {"day_lifecycle"}, time : WallTimes, at : Rows("day"), value : BOOLEAN]
CreateRoleRequests == [kind : {"create_role"}, time : WallTimes, role : Role, name : Text]
RoleNameRequests ==
    [kind : {"role_name"}, time : WallTimes, at : Rows("role"), value : Text]
RolePositionRequests ==
    [kind : {"role_position"}, time : WallTimes, at : Rows("role"), value : Keys]
RoleLifecycleRequests ==
    [kind : {"role_lifecycle"}, time : WallTimes, at : Rows("role"), value : BOOLEAN]

(* A recipe is named on a day and under a role; whether those still take     *)
(* recipes is for the service to see.                                       *)
DayIds == {k[2] : k \in Rows("day")}
RoleIds == {k[2] : k \in Rows("role")}
ScheduleRequests ==
    [kind : {"schedule"}, time : WallTimes, recipe : Recipe, day : DayIds, role : RoleIds,
     key : Keys]
PlaceRequests ==
    [kind : {"place"}, time : WallTimes, recipe : Movers, day : DayIds, role : RoleIds,
     key : Keys]
MoveRequests ==
    {q \in [kind : {"move"}, time : WallTimes, recipe : Movers, day : DayIds, role : RoleIds,
            placement : {"before", "after", "start", "end"}, target : Recipe \cup {None}] :
       /\ q.target # q.recipe
       /\ (q.target = None) = (q.placement \in {"start", "end"})}
RecipeNoteRequests ==
    [kind : {"recipe_note"}, time : WallTimes, at : Rows("recipe"), value : Text \cup {None}]
RecipeLifecycleRequests ==
    [kind : {"recipe_lifecycle"}, time : WallTimes, at : Rows("recipe"), value : BOOLEAN]
AddExceptionRequests ==
    [kind : {"add_exception"}, time : WallTimes, exception : Exception, name : Text,
     tags : SUBSET Tag]
UpdateExceptionRequests ==
    [kind : {"update_exception"}, time : WallTimes, exception : Exception, name : Text,
     tags : SUBSET Tag]
ExceptionLifecycleRequests ==
    [kind : {"exception_lifecycle"}, time : WallTimes, at : Rows("exception"),
     value : BOOLEAN]
DuplicateRequests == [kind : {"duplicate"}, time : WallTimes]

(* The requests of the scenario. *)
Asked(kind, requests) == IF kind \in kinds THEN requests ELSE {}

-----------------------------------------------------------------------------
(* create_event, update_event_metadata *)

EventRecord(e) == Only(Ev, e)
Records(rows, ks) == [k \in ks |-> rows[k]]

NewDay(date) == [date |-> date, note |-> None, visible |-> TRUE, retired |-> FALSE]
DaysOf(date) == DaysOn(row, date)

(* Bug: a date is taken once it has had a day, retired or not. *)
NeverHadDay(from, to) == {date \in from .. to : DaysOf(date) = {}}

(* The dates without a day: one that was retired comes back as a new day. *)
WithoutDay(from, to) == {date \in from .. to : \A k \in DaysOf(date) : row[k].retired}

(* The days made for some dates. *)
DaysFor(dates) ==
    [k \in {D(<<date, Cardinality(DaysOf(date))>>) : date \in dates} |-> NewDay(k[2][1])]

ValidRange(from, to) == from <= to /\ to - from < MaxDays

CreateEventRefused(q) == ~ValidRange(q.start, q.end) \/ event # NoEvent

(* Every day of the range, and every meal role the organization presets. *)
CreateEvent(c, q) ==
    LET new == [start |-> q.start, end |-> q.end, name |-> q.name, lifecycle |-> "active"]
        roles == [k \in {R(ro) : ro \in DOMAIN Presets} |-> Presets[k[2]]]
        rows == Overlaid(roles, DaysFor(q.start .. q.end))
    IN  /\ UNCHANGED copy
        /\ \/ CreateEventRefused(q) /\ Reject(c) /\ UNCHANGED <<event, row>>
           \/ /\ ~CreateEventRefused(q)
              /\ event' = new
              /\ row' = rows
              /\ Conclude(c, q, "accepted", {<<Ev, "start_date">>, <<Ev, "end_date">>},
                          Overlaid(EventRecord(new), rows))

EventActive == event.lifecycle = "active"

(* The dates win and lose together with their clocks. *)
DatesWin(c, q) ==
    q.start # 0 /\ \A f \in {"start_date", "end_date"} : Wins(<<Ev, f>>, StampOf(c, q))

UpdateFields(q) ==
    {<<Ev, "name">>}
      \cup IF q.start = 0 THEN {} ELSE {<<Ev, "start_date">>, <<Ev, "end_date">>}

UpdateRefused(c, q) ==
    \/ q.start # 0 /\ ~ValidRange(q.start, q.end)
    \/ TooFarAhead(q) \/ ~EventActive

UpdateEvent(c, q) ==
    LET won == {f \in UpdateFields(q) : Wins(f, StampOf(c, q))}
        new == [event EXCEPT !.name = IF <<Ev, "name">> \in won THEN q.name ELSE @,
                             !.start = IF DatesWin(c, q) THEN q.start ELSE @,
                             !.end = IF DatesWin(c, q) THEN q.end ELSE @]
        days == DaysFor(WithoutDay(new.start, new.end))
        outcome == IF won = UpdateFields(q) THEN "accepted" ELSE "partially_superseded"
    IN  /\ UNCHANGED copy
        /\ \/ UpdateRefused(c, q) /\ Reject(c) /\ UNCHANGED <<event, row>>
           \/ /\ ~UpdateRefused(c, q) /\ ~ClocksHold(outcome, won)
              /\ Abort(c) /\ UNCHANGED <<event, row>>
           \/ /\ ~UpdateRefused(c, q) /\ ClocksHold(outcome, won)
              /\ event' = new
              /\ row' = Overlaid(row, days)
              /\ Conclude(c, q, outcome, won, Overlaid(EventRecord(new), days))

-----------------------------------------------------------------------------
(* The commands on one field of one row: the later stamp wins it, and the    *)
(* row is published whoever wins.                                           *)
SetField(c, q, f) ==
    LET wins == Wins(<<q.at, f>>, StampOf(c, q))
    IN  /\ row' = IF wins THEN [row EXCEPT ![q.at][f] = q.value] ELSE row
        /\ Conclude(c, q, IF wins THEN "accepted" ELSE "partially_superseded",
                    IF wins THEN {<<q.at, f>>} ELSE {}, Records(row', {q.at}))

(* A field command is refused, or decided by its stamp. *)
Decide(c, q, refused, f) ==
    /\ UNCHANGED <<event, copy>>
    /\ \/ (TooFarAhead(q) \/ refused) /\ Reject(c) /\ UNCHANGED row
       \/ ~TooFarAhead(q) /\ ~refused /\ SetField(c, q, f)

(* A field of a row that is not retired, of an event that takes edits. *)
Frozen(k) == ~EventActive \/ ~Live(k)

SetDayNote(c, q) == Decide(c, q, Frozen(q.at), "note")
SetDayVisibility(c, q) == Decide(c, q, Frozen(q.at), "visible")
SetRolePosition(c, q) == Decide(c, q, Frozen(q.at), "key")
SetRecipeNote(c, q) == Decide(c, q, Frozen(q.at), "note")

(* A built-in role has no name to set, and no two roles of the event have    *)
(* the same, not even a retired one.                                        *)
NameTaken(name, ks) == \E k \in ks : row[k].name = name
SetRoleName(c, q) ==
    Decide(c, q, Frozen(q.at) \/ row[q.at].name = None
                   \/ NameTaken(q.value, Rows("role") \ {q.at}), "name")

SetRoleLifecycle(c, q) == Decide(c, q, ~EventActive \/ ~Has(q.at), "retired")
SetRecipeLifecycle(c, q) == Decide(c, q, ~EventActive \/ ~Has(q.at), "retired")
SetExceptionLifecycle(c, q) == Decide(c, q, ~EventActive \/ ~Has(q.at), "retired")

(* One active day per date, by a unique index: a winning restore of a day     *)
(* whose date has another one raises, and its transaction rolls back.        *)
Occupied(date, k) == \E x \in DaysOf(date) \ {k} : ~row[x].retired
RestoreRaises(c, q) ==
    /\ ~TooFarAhead(q) /\ EventActive /\ Has(q.at)
    /\ ~q.value /\ Wins(<<q.at, "retired">>, StampOf(c, q))
    /\ Occupied(row[q.at].date, q.at)

SetDayLifecycle(c, q) ==
    \/ ~RestoreRaises(c, q) /\ Decide(c, q, ~EventActive \/ ~Has(q.at), "retired")
    \/ RestoreRaises(c, q) /\ Abort(c) /\ UNCHANGED planVars

-----------------------------------------------------------------------------
(* create_event_day, create_event_meal_role, schedule_recipe *)

(* A row is made, with the clocks of some of its fields, and published. *)
Insert(c, q, k, new, fields) ==
    /\ row' = Overlaid(row, Only(k, new))
    /\ Conclude(c, q, "accepted", {<<k, f>> : f \in fields}, Only(k, new))

CreateDayRefused(q) ==
    \/ TooFarAhead(q) \/ ~EventActive \/ Has(D(q.day))
    \/ \E k \in DaysOf(q.date) : ~row[k].retired

CreateDay(c, q) ==
    /\ UNCHANGED <<event, copy>>
    /\ \/ CreateDayRefused(q) /\ Reject(c) /\ UNCHANGED row
       \/ ~CreateDayRefused(q) /\ Insert(c, q, D(q.day), NewDay(q.date), {"visible"})

CreateRoleRefused(q) ==
    TooFarAhead(q) \/ ~EventActive \/ Has(R(q.role)) \/ NameTaken(q.name, Rows("role"))

(* A new role comes last: its key is the last letter, then its identity. *)
NewRole(q) == [name |-> q.name, key |-> <<Digits - 1>>, retired |-> FALSE]

CreateRole(c, q) ==
    /\ UNCHANGED <<event, copy>>
    /\ \/ CreateRoleRefused(q) /\ Reject(c) /\ UNCHANGED row
       \/ ~CreateRoleRefused(q) /\ Insert(c, q, R(q.role), NewRole(q), {"key"})

(* schedule_recipe does not look at how far ahead the command is. *)
ScheduleRefused(q) ==
    Has(S(q.recipe)) \/ ~EventActive \/ ~Live(D(q.day)) \/ ~Live(R(q.role))

Schedule(c, q) ==
    LET new == [day |-> q.day, role |-> q.role, key |-> q.key, note |-> None,
                retired |-> FALSE]
    IN  /\ UNCHANGED <<event, copy>>
        /\ \/ ScheduleRefused(q) /\ Reject(c) /\ UNCHANGED row
           \/ ~ScheduleRefused(q) /\ Insert(c, q, S(q.recipe), new, {"placement"})

-----------------------------------------------------------------------------
(* move_scheduled_recipe *)

(* The letter at a place, below and above all letters where a key has none. *)
Low(k, n) == IF n <= Len(k) THEN k[n] ELSE -1
High(k, n) == IF n <= Len(k) THEN k[n] ELSE Digits

(* Keys are compared letter by letter, a prefix before what it begins. *)
Less(k, l) ==
    \E n \in 1 .. Len(l) : Low(k, n) < l[n] /\ \A i \in 1 .. n - 1 : Low(k, i) = l[i]

(* The key made for a place between two keys, << >> where there is no          *)
(* neighbour: at the first letter with room between them, the one after the   *)
(* lower; what comes before it follows the lower.                             *)
Candidate(left, right) ==
    LET room == {n \in 1 .. KeyLength : High(right, n) - Low(left, n) > 1}
        at == CHOOSE n \in room : \A x \in room : n <= x
    IN  IF room = {} THEN None
        ELSE [n \in 1 .. at |-> IF n = at THEN Low(left, n) + 1
                                ELSE IF Low(left, n) >= 0 THEN Low(left, n) ELSE 0]

(* Bug: the key is used without asking whether it lies between. *)
Unchecked(left, right) == Candidate(left, right)

(* None when it would not lie between them, as for neighbours with one key. *)
Between(left, right) ==
    LET k == Candidate(left, right)
    IN  IF k # None /\ Less(left, k) /\ (right = << >> \/ Less(k, right)) THEN k ELSE None

(* The recipes that are not retired of a day under a role, in their order. *)
Scope(rows, d, ro) ==
    {k \in DOMAIN rows : /\ k[1] = "recipe" /\ ~rows[k].retired
                         /\ rows[k].day = d /\ rows[k].role = ro}
Precedes(rows, k, l) ==
    \/ Less(rows[k].key, rows[l].key)
    \/ rows[k].key = rows[l].key /\ k[2] < l[2]
Rank(rows, ks, k) == Cardinality({l \in ks : Precedes(rows, l, k)})
Ordered(rows, ks) ==
    [i \in 1 .. Cardinality(ks) |-> CHOOSE k \in ks : Rank(rows, ks, k) = i - 1]

(* How many of the others come before the recipe's new place. *)
Index(q, others) ==
    CASE q.placement = "start" -> 0
      [] q.placement = "end" -> Len(others)
      [] q.placement = "before" -> (CHOOSE n \in DOMAIN others : others[n] = S(q.target)) - 1
      [] q.placement = "after" -> CHOOSE n \in DOMAIN others : others[n] = S(q.target)

(* The keys a relative move writes: the recipe's, or where none fits, those   *)
(* of all the scope, numbered from 0.                                        *)
NewKeys(q) ==
    LET k == S(q.recipe)
        others == Ordered(row, Scope(row, q.day, q.role) \ {k})
        n == Index(q, others)
        left == IF n > 0 THEN row[others[n]].key ELSE << >>
        right == IF n < Len(others) THEN row[others[n + 1]].key ELSE << >>
        order == InsertAt(others, n + 1, k)
    IN  IF Between(left, right) # None THEN Only(k, Between(left, right))
        ELSE [x \in ToSet(order) |-> <<(CHOOSE i \in DOMAIN order : order[i] = x) - 1>>]

(* The rows with new keys, and the recipe where it was moved. *)
Moved(q, keys) ==
    [x \in DOMAIN row |->
       IF x = S(q.recipe) THEN [row[x] EXCEPT !.day = q.day, !.role = q.role, !.key = keys[x]]
       ELSE IF x \in DOMAIN keys THEN [row[x] EXCEPT !.key = keys[x]]
       ELSE row[x]]

(* Bug: only the recipe that was asked about is published. *)
OnlyTheMoved(q, keys) == {S(q.recipe)}

(* What a relative move publishes: the rows whose key it changed. *)
Published(q, keys) ==
    LET rekeyed == {x \in DOMAIN keys : row[x].key # keys[x]}
    IN  IF DOMAIN keys = {S(q.recipe)} \/ rekeyed = {} THEN {S(q.recipe)} ELSE rekeyed

MoveRefused(q) ==
    \/ TooFarAhead(q) \/ ~EventActive \/ ~Live(S(q.recipe))
    \/ ~Live(D(q.day)) \/ ~Live(R(q.role))

TargetElsewhere(q) == q.target # None /\ S(q.target) \notin Scope(row, q.day, q.role)

(* A move next to another recipe, or to an end.  One that comes too late is    *)
(* superseded and publishes nothing.                                         *)
Move(c, q) ==
    LET f == <<S(q.recipe), "placement">>
        wins == Wins(f, StampOf(c, q))
        keys == NewKeys(q)
        refused == MoveRefused(q) \/ TargetElsewhere(q)
    IN  /\ UNCHANGED <<event, copy>>
        /\ \/ refused /\ Reject(c) /\ UNCHANGED row
           \/ /\ ~refused /\ ~wins
              /\ UNCHANGED row /\ Conclude(c, q, "partially_superseded", {}, << >>)
           \/ /\ ~refused /\ wins
              /\ row' = Moved(q, keys)
              /\ Conclude(c, q, "accepted", {f}, Records(row', Published(q, keys)))

(* A move to a key of the client's choice. *)
Place(c, q) ==
    LET k == S(q.recipe)
        wins == Wins(<<k, "placement">>, StampOf(c, q))
    IN  /\ UNCHANGED <<event, copy>>
        /\ \/ MoveRefused(q) /\ Reject(c) /\ UNCHANGED row
           \/ /\ ~MoveRefused(q)
              /\ row' = IF wins THEN Moved(q, Only(k, q.key)) ELSE row
              /\ Conclude(c, q, IF wins THEN "accepted" ELSE "partially_superseded",
                          IF wins THEN {<<k, "placement">>} ELSE {}, Records(row', {k}))

-----------------------------------------------------------------------------
(* create_event_dietary_exception, update_event_dietary_exception *)

TagsOf(x) == {t \in Tag : Live(T(x, t))}
Tagged(x, ts) == [k \in {T(x, t) : t \in ts} |-> [retired |-> FALSE]]

AddExceptionRefused(q) ==
    TooFarAhead(q) \/ ~EventActive \/ Has(E(q.exception)) \/ ~(q.tags \subseteq tags)

AddException(c, q) ==
    LET k == E(q.exception)
        rows == Overlaid(Only(k, [name |-> q.name, retired |-> FALSE]),
                         Tagged(q.exception, q.tags))
    IN  /\ UNCHANGED <<event, copy>>
        /\ \/ AddExceptionRefused(q) /\ Reject(c) /\ UNCHANGED row
           \/ /\ ~AddExceptionRefused(q)
              /\ row' = Overlaid(row, rows)
              /\ Conclude(c, q, "accepted",
                          {<<k, "name">>, <<k, "retired">>}
                            \cup {<<T(q.exception, t), "retired">> : t \in q.tags}, rows)

(* A tag that was retired since stays where it is. *)
UpdateExceptionRefused(q) ==
    \/ TooFarAhead(q) \/ Frozen(E(q.exception))
    \/ ~(q.tags \subseteq tags \cup TagsOf(q.exception))

(* Bug: an association that was retired before is left so. *)
AddedTags(q) ==
    LET had == {t \in Tag : Has(T(q.exception, t))}
    IN  [k \in {T(q.exception, t) : t \in had \cup q.tags} |->
           [retired |-> IF Has(k) THEN row[k].retired \/ k[3] \notin q.tags ELSE FALSE]]

(* The associations after the tags are set: those left out are retired, those *)
(* named again come back, those new are made.                                *)
SetTags(q) ==
    LET had == {t \in Tag : Has(T(q.exception, t))}
    IN  [k \in {T(q.exception, t) : t \in had \cup q.tags} |->
           [retired |-> k[3] \notin q.tags]]

UpdateException(c, q) ==
    LET k == E(q.exception)
        won == {f \in {"name", "tags"} : Wins(<<k, f>>, StampOf(c, q))}
        named == Only(k, [row[k] EXCEPT !.name = IF "name" \in won THEN q.name ELSE @])
        set == IF "tags" \in won THEN SetTags(q) ELSE << >>
        changed == {x \in DOMAIN set : ~Has(x) \/ set[x].retired \/ row[x].retired}
        outcome == IF won = {"name", "tags"} THEN "accepted" ELSE "partially_superseded"
    IN  /\ UNCHANGED <<event, copy>>
        /\ \/ UpdateExceptionRefused(q) /\ Reject(c) /\ UNCHANGED row
           \/ /\ ~UpdateExceptionRefused(q) /\ ~ClocksHold(outcome, won)
              /\ Abort(c) /\ UNCHANGED row
           \/ /\ ~UpdateExceptionRefused(q) /\ ClocksHold(outcome, won)
              /\ row' = Overlaid(row, Overlaid(named, set))
              /\ Conclude(c, q, outcome,
                          {<<k, f>> : f \in won} \cup {<<x, "retired">> : x \in changed},
                          Overlaid(named, Records(row', changed)))

-----------------------------------------------------------------------------
(* duplicate_event *)

DuplicateRefused(q) ==
    TooFarAhead(q) \/ event.lifecycle # "archived" \/ copy # None

(* The rows that are copied; each gets a new identity, which the copy of a    *)
(* recipe looks up for its day and its role.                                 *)
Copied == {k \in Rows("day") \cup Rows("role") \cup Rows("recipe") : ~row[k].retired}
Dangling == {k \in Rows("recipe") \cap Copied :
               D(row[k].day) \notin Copied \/ R(row[k].role) \notin Copied}

(* A recipe on a retired day or under a retired role has nothing to look up:  *)
(* the service raises and its transaction rolls back.                        *)
Duplicate(c, q) ==
    /\ UNCHANGED <<event, row>>
    /\ \/ DuplicateRefused(q) /\ Reject(c) /\ UNCHANGED copy
       \/ ~DuplicateRefused(q) /\ Dangling # {} /\ Abort(c) /\ UNCHANGED copy
       \/ /\ ~DuplicateRefused(q) /\ Dangling = {}
          /\ copy' = Records(row, Copied)
          /\ Conclude(c, q, "accepted", {},
                      [k \in {<<"copy", x>> : x \in Copied} |-> row[k[2]]])

-----------------------------------------------------------------------------
(* What other services do meanwhile: the event is archived and reactivated,  *)
(* a dietary tag is retired.                                                *)
Archive ==
    /\ "archive" \in kinds /\ event # NoEvent
    /\ event' = [event EXCEPT !.lifecycle = IF @ = "active" THEN "archived" ELSE "active"]
    /\ shown' = Overlaid(shown, EventRecord(event'))
    /\ UNCHANGED <<retained, request, clock, aborted, row, copy, tags, kinds>>

RetireTag ==
    /\ "retire_tag" \in kinds
    /\ \E t \in tags : tags' = tags \ {t}
    /\ UNCHANGED <<logVars, planVars, kinds>>

Perform(c) ==
    \/ \E q \in Asked("create", CreateRequests) : CreateEvent(c, q)
    \/ \E q \in Asked("update", UpdateRequests) : UpdateEvent(c, q)
    \/ \E q \in Asked("create_day", CreateDayRequests) : CreateDay(c, q)
    \/ \E q \in Asked("day_note", DayNoteRequests) : SetDayNote(c, q)
    \/ \E q \in Asked("day_visibility", DayVisibilityRequests) : SetDayVisibility(c, q)
    \/ \E q \in Asked("day_lifecycle", DayLifecycleRequests) : SetDayLifecycle(c, q)
    \/ \E q \in Asked("create_role", CreateRoleRequests) : CreateRole(c, q)
    \/ \E q \in Asked("role_name", RoleNameRequests) : SetRoleName(c, q)
    \/ \E q \in Asked("role_position", RolePositionRequests) : SetRolePosition(c, q)
    \/ \E q \in Asked("role_lifecycle", RoleLifecycleRequests) : SetRoleLifecycle(c, q)
    \/ \E q \in Asked("schedule", ScheduleRequests) : Schedule(c, q)
    \/ \E q \in Asked("place", PlaceRequests) : Place(c, q)
    \/ \E q \in Asked("move", MoveRequests) : Move(c, q)
    \/ \E q \in Asked("recipe_note", RecipeNoteRequests) : SetRecipeNote(c, q)
    \/ \E q \in Asked("recipe_lifecycle", RecipeLifecycleRequests) : SetRecipeLifecycle(c, q)
    \/ \E q \in Asked("add_exception", AddExceptionRequests) : AddException(c, q)
    \/ \E q \in Asked("update_exception", UpdateExceptionRequests) : UpdateException(c, q)
    \/ \E q \in Asked("exception_lifecycle", ExceptionLifecycleRequests) :
          SetExceptionLifecycle(c, q)
    \/ \E q \in Asked("duplicate", DuplicateRequests) : Duplicate(c, q)

Next ==
    \/ \E c \in Command : Fresh(c) /\ Perform(c) /\ UNCHANGED <<tags, kinds>>
    \/ \E c \in Command : /\ (Malformed(c) \/ Retry(c))
                          /\ UNCHANGED <<planVars, tags, kinds>>
    \/ Archive
    \/ RetireTag

Spec == Init /\ [][Next]_vars

-----------------------------------------------------------------------------
(* Properties. *)

(* The plan as the feed tells it is the plan, rows that were renumbered for    *)
(* another's sake and associations that were retired with an edit included.   *)
(* Of a scheduled recipe this leaves out the day and the role: see            *)
(* FeedCarriesPlacements.                                                    *)
Told(k, r) ==
    k \in DOMAIN shown /\ \A f \in DOMAIN r \ {"day", "role"} : shown[k][f] = r[f]
FeedCarriesPlan ==
    /\ Ev \in DOMAIN shown => shown[Ev] = event
    /\ \A k \in DOMAIN row : Told(k, row[k])

AppliedOf(ks) == {c \in Applied : request[c].kind \in ks}

(* The row and the field that each command on one field of a row writes;         *)
(* creations count for the field that they give a clock.                      *)
FieldKinds == {"day_note", "recipe_note", "day_visibility", "role_name", "role_position",
               "day_lifecycle", "role_lifecycle", "recipe_lifecycle", "exception_lifecycle",
               "create_day", "create_role", "add_exception"}
FieldOf(kind) ==
    CASE kind \in {"day_note", "recipe_note"} -> "note"
      [] kind \in {"day_visibility", "create_day"} -> "visible"
      [] kind = "role_name" -> "name"
      [] kind \in {"role_position", "create_role"} -> "key"
      [] OTHER -> "retired"
RowOf(q) ==
    CASE q.kind = "create_day" -> D(q.day)
      [] q.kind = "create_role" -> R(q.role)
      [] q.kind = "add_exception" -> E(q.exception)
      [] OTHER -> q.at
WroteField(k, f) ==
    {c \in AppliedOf(FieldKinds) : RowOf(request[c]) = k /\ FieldOf(request[c].kind) = f}
Written(q) ==
    CASE q.kind = "create_day" -> TRUE
      [] q.kind = "create_role" -> NewRole(q).key
      [] q.kind = "add_exception" -> FALSE
      [] OTHER -> q.value

(* Last writer wins, whatever the order of arrival: the dates and the name, each *)
(* field of each row, the tags of an exception, and the day and role of a recipe, which *)
(* placements by key and relative moves contend for, are those of their latest *)
(* writes.                                                                   *)
LatestWriteHolds ==
    /\ LET writes == AppliedOf({"create"}) \cup
                       {c \in AppliedOf({"update"}) : request[c].start # 0}
           names == AppliedOf({"update"})
       IN  /\ writes # {} => /\ event.start = request[Latest(writes)].start
                             /\ event.end = request[Latest(writes)].end
           /\ names # {} => event.name = request[Latest(names)].name
    /\ \A c \in AppliedOf(FieldKinds) :
          LET k == RowOf(request[c])
              f == FieldOf(request[c].kind)
          IN  row[k][f] = Written(request[Latest(WroteField(k, f))])
    /\ \A k \in Rows("recipe") :
          LET writes == {c \in AppliedOf({"schedule", "place", "move"}) :
                           request[c].recipe = k[2]}
          IN  writes # {} => /\ row[k].day = request[Latest(writes)].day
                             /\ row[k].role = request[Latest(writes)].role
    /\ \A x \in Exception :
          LET edits == {c \in AppliedOf({"update_exception"}) : request[c].exception = x}
              named == {c \in AppliedOf({"add_exception"}) : request[c].exception = x}
                         \cup edits
          IN  /\ edits # {} => TagsOf(x) = request[Latest(edits)].tags
              /\ named # {} => row[E(x)].name = request[Latest(named)].name

(* Changing an event never leaves a date of its range without a day, nor with  *)
(* two, whatever days were added, retired or made before.                     *)
ChangeCoversTheRange ==
    [][\A c \in Command :
          /\ retained[c] = "none" /\ retained'[c] # "rejected" /\ retained'[c] # "none"
          /\ request'[c].kind \in {"create", "update"}
          => \A date \in event'.start .. event'.end :
                Cardinality({k \in DOMAIN row' : /\ k[1] = "day" /\ row'[k].date = date
                                                 /\ ~row'[k].retired}) = 1]_vars

(* An accepted relative move puts the recipe where it was asked for, next to    *)
(* its target or at the end of the scope, and leaves the others in their order, *)
(* whatever keys the rows had, equal ones and ones without room included.      *)
MoveLandsInPlace ==
    [][\A c \in Command :
          /\ retained[c] = "none" /\ retained'[c] = "accepted" /\ request'[c].kind = "move"
          => LET q == request'[c]
                 before == Ordered(row, Scope(row, q.day, q.role) \ {S(q.recipe)})
             IN  Ordered(row', Scope(row', q.day, q.role))
                   = InsertAt(before, Index(q, before) + 1, S(q.recipe))]_vars

(* The documented rule for a group of changes: it has every record its command *)
(* changed, so the feed has the day and the role of each recipe.              *)
FeedCarriesPlacements == \A k \in Rows("recipe") : k \in DOMAIN shown /\ shown[k] = row[k]

(* The documented rule for an update that is partly superseded: it keeps the      *)
(* fields that it wins, so none that passes its checks is refused.             *)
EveryUpdateIsDecided == aborted = {}

(* The documented promise that an archived event can be duplicated. *)
ArchivedPlanIsCopyable == event.lifecycle = "archived" => Dangling = {}
=============================================================================
