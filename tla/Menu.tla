-------------------------------- MODULE Menu --------------------------------
(***************************************************************************)
(* What an event cooks and what that costs: scheduled recipes pinned to a    *)
(* version of their recipe and scaled to the diners, the local overrides of   *)
(* their ingredients, and the prices that the event has captured.  The        *)
(* services here schedule a recipe, override an ingredient, set the scale,    *)
(* bring a scheduled recipe to another version, and refresh the prices; the   *)
(* catalog and the event change meanwhile.                                   *)
(*                                                                         *)
(* Rows are keyed by their table and identity.  An override is             *)
(* <<schedule, line or ingredient, n>>, the n-th that clients make for it.   *)
(* Of a quantity only its sign and whether it stays are told apart.          *)
(***************************************************************************)
EXTENDS CommandLog, Sequences, FiniteSetsExt, SequencesExt

CONSTANTS
    Schedule, Line, Ingredient,
    Versions,       \* the recipe versions there are to publish
    Place,          \* days and meal roles to schedule under
    Diners,         \* the event's expected attendance
    Percentages, Amounts, Quantities,    \* bound: what clients choose
    Clients,        \* bound: identities that clients make for one override
    Newest,         \* bound: versions of an ingredient, estimates of its price
    None,           \* NULL
    Scenarios       \* bound: what is taken together, on which menu

(* Scales are counted in hundredths, and chosen to need no finer ones. *)
ASSUME ScaleAssumption ==
    /\ Diners \in Nat /\ Percentages \subseteq Nat /\ Amounts \subseteq Nat
    /\ Quantities \subseteq Nat /\ Newest \in Nat
    /\ \A v \in DOMAIN Versions : Versions[v].capacity \notin {None, 0} =>
          \A p \in Percentages : (Diners * p) % Versions[v].capacity = 0

VARIABLES
    event,      \* whether the event is active, the places that take recipes
    catalog,    \* the published versions, those offered, the ingredient versions
                \* sold, and the current price estimate of each ingredient
    row,        \* the rows of scheduled_recipes, scheduled_ingredient_overrides
                \* and event_ingredient_prices
    scene       \* the scenario: kinds of commands and events, how many commands

vars == <<logVars, event, catalog, row, scene>>

-----------------------------------------------------------------------------
(* The tables. *)

S(s) == <<"schedule", s>>
O(o) == <<"override", o>>
P(i) == <<"price", i>>
Has(k) == k \in DOMAIN row
Live(k) == Has(k) /\ ~row[k].retired
Rows(table) == {k \in DOMAIN row : k[1] = table}
Scheduled == {k[2] : k \in Rows("schedule")}

IngredientVersion == Ingredient \X (1 .. Newest)
Identity == Schedule \X (Line \cup Ingredient) \X (1 .. Clients)
ScheduleRow ==
    [version : DOMAIN Versions, place : Place, consumption : Nat, scale : Nat,
     mode : {"suggested", "manual"}, retired : BOOLEAN]
OverrideRow ==
    [of : Schedule, how : {"replace", "add"}, line : Line \cup {None},
     ingredient : IngredientVersion, quantity : Nat, retired : BOOLEAN]

(* A price is a stream of captured estimates, 0 for none; the last one counts. *)
Stream == Seq(0 .. Newest) \ {<< >>}

(* An override of a line replaces it; one of no line adds an ingredient. *)
IsOverride(o) == o \in OverrideRow /\ (o.how = "add" <=> o.line = None)

IsRow(k, r) ==
    \/ k \in {"schedule"} \X Schedule /\ r \in ScheduleRow
    \/ k \in {"override"} \X Identity /\ IsOverride(r)
    \/ k \in {"price"} \X Ingredient /\ r \in Stream
IsMenu(rows) == \A k \in DOMAIN rows : IsRow(k, rows[k])

Catalog ==
    [published : SUBSET DOMAIN Versions, offered : SUBSET DOMAIN Versions,
     known : SUBSET IngredientVersion, sold : SUBSET IngredientVersion,
     estimate : [Ingredient -> 0 .. Newest]]

(* A version's scale is in its unit; capacity is how many one unit feeds.      *)
IsLine(l) == l.ingredient \in IngredientVersion /\ l.amount \in Nat /\ l.fixed \in BOOLEAN
IsVersion(v) ==
    /\ v.base \in Nat /\ v.capacity \in Nat \cup {None} /\ v.round \in BOOLEAN
    /\ DOMAIN v.lines \subseteq Line /\ \A l \in DOMAIN v.lines : IsLine(v.lines[l])

ASSUME VersionsAssumption == \A v \in DOMAIN Versions : IsVersion(Versions[v])
ASSUME NoneAssumption == None \notin Line

(* No line of a scheduled recipe is replaced twice: the service takes the row    *)
(* that the line has, a retired one too, before it makes another.             *)
ReplacedOnce(rows) ==
    \A j \in DOMAIN rows, k \in DOMAIN rows :
       /\ j[1] = "override" /\ k[1] = "override" /\ rows[j].how = "replace"
       /\ rows[k].how = "replace" /\ rows[j].of = rows[k].of /\ rows[j].line = rows[k].line
       => j = k

ASSUME ScenariosAssumption ==
    \A s \in Scenarios : /\ s.scene.commands \subseteq Command /\ s.catalog \in Catalog
                         /\ IsMenu(s.row) /\ ReplacedOnce(s.row)

TypeOK ==
    /\ retained \in [Command -> Outcome \cup {"none"}] /\ aborted \subseteq Command
    /\ \A f \in DOMAIN clock : clock[f] \in Stamp
    /\ event \in [active : BOOLEAN, places : SUBSET Place] /\ catalog \in Catalog
    /\ IsMenu(row)

Init ==
    /\ retained = [c \in Command |-> "none"]
    /\ request = [c \in Command |-> NoRequest]
    /\ clock = << >> /\ aborted = {}
    /\ event = [active |-> TRUE, places |-> Place]
    /\ \E s \in Scenarios :
          scene = s.scene /\ catalog = s.catalog /\ row = s.row /\ shown = s.row

-----------------------------------------------------------------------------
(* What clients ask for.  An override is of a line, or adds an ingredient. *)

ScheduleRequests ==
    [kind : {"schedule"}, time : WallTimes, schedule : Schedule,
     version : catalog.published, place : Place, consumption : Percentages]
ReplaceRequests ==
    {[kind |-> "override", how |-> "replace", op |-> "set", time |-> t, schedule |-> s,
      line |-> l, ingredient |-> None, quantity |-> n, override |-> <<s, l, c>>] :
        t \in WallTimes, s \in Scheduled, l \in Line, n \in Quantities, c \in 1 .. Clients}
AddRequests ==
    {[kind |-> "override", how |-> "add", op |-> "set", time |-> t, schedule |-> s,
      line |-> None, ingredient |-> v, quantity |-> n, override |-> <<s, v[1], c>>] :
        t \in WallTimes, s \in Scheduled, v \in catalog.known, n \in Quantities,
        c \in 1 .. Clients}
ClearRequests ==
    {[kind |-> "override", how |-> row[k].how, op |-> "clear", time |-> t,
      schedule |-> row[k].of, line |-> row[k].line, ingredient |-> None, quantity |-> 0,
      override |-> k[2]] : t \in WallTimes, k \in Rows("override")}
ContextRequests ==
    [kind : {"context"}, op : {"manual"}, time : WallTimes, schedule : Scheduled,
     consumption : Percentages, amount : Amounts]
      \cup [kind : {"context"}, op : {"suggested"}, time : WallTimes, schedule : Scheduled,
            consumption : Percentages, amount : {0}]
UpdateRequests ==
    [kind : {"update"}, time : WallTimes, schedule : Scheduled,
     expected : catalog.published, target : catalog.published, preserve : BOOLEAN]
RefreshRequests == [kind : {"refresh"}, time : WallTimes]

(* The requests of the scenario. *)
Asked(kind, requests) == IF kind \in scene.kinds THEN requests ELSE {}

-----------------------------------------------------------------------------
(* Scales and quantities. *)

Pinned(s) == Versions[row[S(s)].version]

(* The scale for the diners; the base amount where nobody knows how many a     *)
(* unit feeds.                                                               *)
Suggested(version, consumption) ==
    LET capacity == IF version.unit = "person" THEN 1 ELSE version.capacity
        amount == (Diners * consumption) \div capacity
    IN  IF capacity \in {None, 0} THEN version.base
        ELSE IF version.round THEN ((amount + 99) \div 100) * 100 ELSE amount

LineQuantity(line, scale) == IF line.fixed THEN line.amount ELSE line.amount * scale

OverridesOf(s) == {k \in Rows("override") : row[k].of = s}
ActiveOf(s) == {k \in OverridesOf(s) : ~row[k].retired}
Replacing(s, l) == {k \in ActiveOf(s) : row[k].how = "replace" /\ row[k].line = l}

(* The ingredients of a version with a quantity at this scale. *)
NonzeroIngredients(version, scale) ==
    {version.lines[l].ingredient[1] :
        l \in {x \in DOMAIN version.lines : LineQuantity(version.lines[x], scale) > 0}}

-----------------------------------------------------------------------------
(* event_prices *)

(* Bug: the estimate of the day is captured whenever an ingredient is used. *)
CaptureAgain(is) ==
    [k \in {P(i) : i \in is} |->
       Append(IF Has(k) THEN row[k] ELSE << >>, catalog.estimate[k[2]])]

(* The first use of an ingredient captures its estimate; a stream that exists   *)
(* keeps what it has.                                                       *)
Captures(is) ==
    [k \in {P(i) : i \in {j \in is : ~Has(P(j))}} |-> <<catalog.estimate[k[2]]>>]

(* Bug: a line without an override is left to its first capture. *)
ResolvedOverrides ==
    UNION {{row[k].ingredient[1] : k \in {x \in ActiveOf(s) : row[x].quantity > 0}} :
           s \in {x \in Scheduled : Live(S(x))}}

(* The ingredients that the active scheduled recipes use: a replacement counts  *)
(* with its own quantity, and so does an addition.                          *)
Resolved ==
    UNION {{Pinned(s).lines[l].ingredient[1] :
              l \in {x \in DOMAIN Pinned(s).lines :
                       IF Replacing(s, x) = {}
                       THEN LineQuantity(Pinned(s).lines[x], row[S(s)].scale) > 0
                       ELSE \E k \in Replacing(s, x) : row[k].quantity > 0}}
             \cup {row[k].ingredient[1] :
                     k \in {x \in ActiveOf(s) : row[x].how = "add" /\ row[x].quantity > 0}} :
           s \in {x \in Scheduled : Live(S(x))}}

(* A command that writes rows, wins some fields and tells some of the rows. *)
Commit(c, q, outcome, rows, told, won) ==
    /\ row' = Overlaid(row, rows)
    /\ Conclude(c, q, outcome, won, [k \in told |-> row'[k]])

Refuse(c) == Reject(c) /\ UNCHANGED row
Break(c) == Abort(c) /\ UNCHANGED row

RefreshRefused(q) == TooFarAhead(q) \/ ~event.active

(* Every stream and every ingredient in use, all in one group of changes. *)
RefreshPrices(c, q) ==
    LET targets == {k[2] : k \in Rows("price")} \cup Resolved
        prices == CaptureAgain(targets)
    IN  \/ RefreshRefused(q) /\ Refuse(c)
        \/ ~RefreshRefused(q) /\ Commit(c, q, "accepted", prices, DOMAIN prices, {})

-----------------------------------------------------------------------------
(* schedule_recipe: how far ahead the command is, is not looked at. *)

ScheduleRefused(q) ==
    \/ Has(S(q.schedule)) \/ ~event.active \/ q.place \notin event.places
    \/ q.version \notin catalog.offered

ScheduleRecipe(c, q) ==
    LET version == Versions[q.version]
        scale == Suggested(version, q.consumption)
        new == [version |-> q.version, place |-> q.place, consumption |-> q.consumption,
                scale |-> scale, mode |-> "suggested", retired |-> FALSE]
        rows == Overlaid(Only(S(q.schedule), new), Captures(NonzeroIngredients(version, scale)))
    IN  \/ ScheduleRefused(q) /\ Refuse(c)
        \/ /\ ~ScheduleRefused(q)
           /\ Commit(c, q, "accepted", rows, DOMAIN rows, {<<S(q.schedule), "placement">>})

-----------------------------------------------------------------------------
(* set_scheduled_ingredient_override *)

InVersion(version, i) ==
    \E l \in DOMAIN version.lines : version.lines[l].ingredient[1] = i

(* What the database wants of an active override of a version: one that         *)
(* replaces is of a line that still has its ingredient version, one that adds    *)
(* is of an ingredient that the version does not have.                        *)
Fits(o, version) ==
    IF o.how = "replace"
    THEN o.line \in DOMAIN version.lines /\ version.lines[o.line].ingredient = o.ingredient
    ELSE ~InVersion(version, o.ingredient[1])

(* The row of the choice: the one that replaces the line, the addition itself. *)
RowOf(q) ==
    {k \in OverridesOf(q.schedule) :
       /\ row[k].how = q.how
       /\ IF q.how = "replace" THEN row[k].line = q.line ELSE k = O(q.override)}

Choice(q) ==
    <<S(q.schedule), q.how, IF q.how = "replace" THEN q.line ELSE q.override>>

OverrideRefused(q) ==
    \/ TooFarAhead(q) \/ ~event.active \/ ~Live(S(q.schedule))
    \/ q.how = "replace" /\ q.line \notin DOMAIN Pinned(q.schedule).lines
    \/ /\ q.how = "add" /\ q.op = "set"
       /\ q.ingredient \notin catalog.sold \/ InVersion(Pinned(q.schedule), q.ingredient[1])
    \/ q.op = "clear" /\ \A k \in RowOf(q) : row[k].retired

(* Bug: one that was cleared stays retired when it is set again. *)
StaysCleared(q) ==
    LET k == CHOOSE x \in RowOf(q) : TRUE
    IN  IF q.op = "clear" THEN [row[k] EXCEPT !.retired = TRUE]
        ELSE IF RowOf(q) # {} THEN [row[k] EXCEPT !.quantity = q.quantity]
        ELSE [of |-> q.schedule, how |-> q.how, line |-> q.line,
              ingredient |-> IF q.how = "replace" THEN Pinned(q.schedule).lines[q.line].ingredient
                             ELSE q.ingredient,
              quantity |-> q.quantity, retired |-> FALSE]

(* The override after the choice is made: a replacement is of the line's         *)
(* ingredient version; one that is set again keeps the version it had.          *)
Chosen(q) ==
    LET k == CHOOSE x \in RowOf(q) : TRUE
    IN  IF q.op = "clear" THEN [row[k] EXCEPT !.retired = TRUE]
        ELSE IF RowOf(q) # {} THEN [row[k] EXCEPT !.quantity = q.quantity, !.retired = FALSE]
        ELSE [of |-> q.schedule, how |-> q.how, line |-> q.line,
              ingredient |-> IF q.how = "replace" THEN Pinned(q.schedule).lines[q.line].ingredient
                             ELSE q.ingredient,
              quantity |-> q.quantity, retired |-> FALSE]

(* The quantity that the choice takes the place of. *)
Previous(q) ==
    IF \E k \in RowOf(q) : ~row[k].retired
    THEN row[CHOOSE k \in RowOf(q) : TRUE].quantity
    ELSE IF q.how = "replace"
    THEN LineQuantity(Pinned(q.schedule).lines[q.line], row[S(q.schedule)].scale)
    ELSE 0

(* The database refuses an identity that is taken and an override that does not *)
(* fit; a choice that comes too late for a row that is gone fails an assertion. *)
OverrideBreaks(q, wins) ==
    \/ RowOf(q) = {} /\ (~wins \/ Has(O(q.override)))
    \/ wins /\ ~Chosen(q).retired /\ ~Fits(Chosen(q), Pinned(q.schedule))

SetOverride(c, q) ==
    LET wins == Wins(Choice(q), StampOf(c, q))
        k == IF RowOf(q) = {} THEN O(q.override) ELSE CHOOSE x \in RowOf(q) : TRUE
        new == Chosen(q)
        first == IF ~new.retired /\ new.quantity > 0 /\ Previous(q) = 0
                 THEN {new.ingredient[1]} ELSE {}
        rows == Overlaid(Only(k, new), Captures(first))
    IN  \/ OverrideRefused(q) /\ Refuse(c)
        \/ ~OverrideRefused(q) /\ OverrideBreaks(q, wins) /\ Break(c)
        \/ /\ ~OverrideRefused(q) /\ ~OverrideBreaks(q, wins) /\ wins
           /\ Commit(c, q, "accepted", rows, DOMAIN rows, {Choice(q)})
        \/ /\ ~OverrideRefused(q) /\ ~OverrideBreaks(q, wins) /\ ~wins
           /\ Commit(c, q, "partially_superseded", << >>, {k}, {})

-----------------------------------------------------------------------------
(* set_scheduled_recipe_context: the scale and the consumption are one field. *)

ContextRefused(q) == TooFarAhead(q) \/ ~event.active \/ ~Live(S(q.schedule))

Rescaled(q) ==
    [row[S(q.schedule)] EXCEPT !.consumption = q.consumption, !.mode = q.op,
       !.scale = IF q.op = "manual" THEN q.amount
                 ELSE Suggested(Pinned(q.schedule), q.consumption)]

SetContext(c, q) ==
    LET k == S(q.schedule)
        wins == Wins(<<k, "context">>, StampOf(c, q))
    IN  \/ ContextRefused(q) /\ Refuse(c)
        \/ /\ ~ContextRefused(q) /\ wins
           /\ Commit(c, q, "accepted", Only(k, Rescaled(q)), {k}, {<<k, "context">>})
        \/ /\ ~ContextRefused(q) /\ ~wins
           /\ Commit(c, q, "partially_superseded", << >>, {k}, {})

-----------------------------------------------------------------------------
(* update_scheduled_recipe_catalog: to a version of the same recipe, for a       *)
(* scheduled recipe that may be retired.                                     *)

UpdateRefused(q) ==
    \/ TooFarAhead(q) \/ ~event.active
    \/ row[S(q.schedule)].version # q.expected
    \/ Versions[q.target].recipe # Pinned(q.schedule).recipe

(* The scale is in the unit of the version: another unit needs another scale. *)
Repinned(q) ==
    LET old == row[S(q.schedule)]
        target == Versions[q.target]
    IN  IF Pinned(q.schedule).unit = target.unit THEN [old EXCEPT !.version = q.target]
        ELSE [old EXCEPT !.version = q.target, !.mode = "suggested",
                         !.scale = Suggested(target, old.consumption)]

Retire(o, q) == [o EXCEPT !.retired = TRUE]

(* Bug: a preserved override whose line is gone is retired. *)
RetiredWithItsLine(o, q) ==
    IF ~q.preserve \/ ~Fits(o, Versions[q.target]) THEN Retire(o, q) ELSE o

(* Discarded overrides are retired.  Of those that are preserved, one whose      *)
(* line is gone or has another ingredient version becomes an addition.        *)
Carried(o, q) ==
    IF ~q.preserve THEN Retire(o, q)
    ELSE IF o.how = "replace" /\ ~Fits(o, Versions[q.target])
    THEN [o EXCEPT !.how = "add", !.line = None]
    ELSE o

(* Bug: only what the update changed is told. *)
OnlyRetired(q) == {S(q.schedule)} \cup {k \in ActiveOf(q.schedule) : ~q.preserve}

(* The scheduled recipe and all the overrides that were active are told. *)
ToldByUpdate(q) == {S(q.schedule)} \cup ActiveOf(q.schedule)

UpdateClocks(q) ==
    LET k == S(q.schedule)
        scale == IF Pinned(q.schedule).unit = Versions[q.target].unit THEN {}
                 ELSE {"selected_scale_amount", "scale_mode"}
    IN  {<<k, f>> : f \in scale \cup {"recipe_version_id"}}
          \cup {<<o, "catalog_update">> : o \in ActiveOf(q.schedule)}

(* Every active override has to fit the version that is pinned. *)
UpdateCatalog(c, q) ==
    LET overrides == [k \in ActiveOf(q.schedule) |-> Carried(row[k], q)]
        fit == \A k \in DOMAIN overrides :
                  overrides[k].retired \/ Fits(overrides[k], Versions[q.target])
    IN  \/ UpdateRefused(q) /\ Refuse(c)
        \/ ~UpdateRefused(q) /\ ~fit /\ Break(c)
        \/ /\ ~UpdateRefused(q) /\ fit
           /\ Commit(c, q, "accepted", Overlaid(overrides, Only(S(q.schedule), Repinned(q))),
                     ToldByUpdate(q), UpdateClocks(q))

-----------------------------------------------------------------------------
(* What other services do meanwhile. *)

Happens(kind) == kind \in scene.kinds

PublishRecipe ==
    /\ Happens("publish_recipe")
    /\ \E v \in DOMAIN Versions \ catalog.published :
          catalog' = [catalog EXCEPT
            !.published = @ \cup {v},
            !.offered = {x \in @ : Versions[x].recipe # Versions[v].recipe} \cup {v}]
    /\ UNCHANGED <<logVars, event, row>>

PublishIngredient ==
    /\ Happens("publish_ingredient")
    /\ \E v \in IngredientVersion \ catalog.known :
          catalog' = [catalog EXCEPT !.known = @ \cup {v},
                                     !.sold = {x \in @ : x[1] # v[1]} \cup {v}]
    /\ UNCHANGED <<logVars, event, row>>

(* A recipe, an ingredient, a day or a meal role is retired. *)
RetireReferences ==
    /\ Happens("retire")
    /\ \/ \E v \in catalog.offered : catalog' = [catalog EXCEPT !.offered = @ \ {v}]
                                      /\ UNCHANGED event
       \/ \E v \in catalog.sold : catalog' = [catalog EXCEPT !.sold = @ \ {v}]
                                   /\ UNCHANGED event
       \/ \E p \in event.places : event' = [event EXCEPT !.places = @ \ {p}]
                                   /\ UNCHANGED catalog
    /\ UNCHANGED <<logVars, row>>

PublishEstimate ==
    /\ Happens("estimate")
    /\ \E i \in Ingredient : /\ catalog.estimate[i] < Newest
                             /\ catalog' = [catalog EXCEPT !.estimate[i] = @ + 1]
    /\ UNCHANGED <<logVars, event, row>>

Archive ==
    /\ Happens("archive")
    /\ event' = [event EXCEPT !.active = ~@]
    /\ UNCHANGED <<logVars, catalog, row>>

(* A scheduled recipe is retired, or comes back as it was. *)
SetLifecycle ==
    /\ Happens("lifecycle") /\ event.active
    /\ \E k \in Rows("schedule") :
          /\ row' = [row EXCEPT ![k].retired = ~@]
          /\ shown' = Overlaid(shown, Only(k, row'[k]))
    /\ UNCHANGED <<retained, request, clock, aborted, event, catalog>>

Perform(c) ==
    \/ \E q \in Asked("schedule", ScheduleRequests) : ScheduleRecipe(c, q)
    \/ \E q \in Asked("replace", ReplaceRequests) : SetOverride(c, q)
    \/ \E q \in Asked("add", AddRequests) : SetOverride(c, q)
    \/ \E q \in Asked("clear", ClearRequests) : SetOverride(c, q)
    \/ \E q \in Asked("context", ContextRequests) : SetContext(c, q)
    \/ \E q \in Asked("update", UpdateRequests) : UpdateCatalog(c, q)
    \/ \E q \in Asked("refresh", RefreshRequests) : RefreshPrices(c, q)

Others ==
    \/ PublishRecipe \/ PublishIngredient \/ RetireReferences \/ PublishEstimate
    \/ Archive \/ SetLifecycle

Next ==
    \/ \E c \in scene.commands : Fresh(c) /\ Perform(c) /\ UNCHANGED <<event, catalog, scene>>
    \/ \E c \in scene.commands : /\ (Malformed(c) \/ Retry(c))
                                 /\ UNCHANGED <<event, catalog, row, scene>>
    \/ Others /\ UNCHANGED scene

Spec == Init /\ [][Next]_vars

-----------------------------------------------------------------------------
(* Properties. *)

AppliedOf(kind, s) == {c \in Applied : request[c].kind = kind /\ request[c].schedule = s}

(* Last writer wins, whatever the order of arrival: the scale that was chosen    *)
(* last holds, and so does what was last chosen for each line and each addition, *)
(* overridden or cleared, until the recipe is brought to another version.       *)
LatestChoiceHolds ==
    \A s \in {x \in Scheduled : AppliedOf("update", x) = {}} :
       /\ LET writes == AppliedOf("context", s)
              q == request[Latest(writes)]
          IN  writes # {} =>
                /\ row[S(s)].consumption = q.consumption /\ row[S(s)].mode = q.op
                /\ row[S(s)].scale = IF q.op = "manual" THEN q.amount
                                     ELSE Suggested(Pinned(s), q.consumption)
       /\ \A c \in AppliedOf("override", s) :
             LET writes == {d \in AppliedOf("override", s) :
                              Choice(request[d]) = Choice(request[c])}
                 q == request[Latest(writes)]
             IN  {row[k].quantity : k \in RowOf(q) \cap ActiveOf(s)}
                   = IF q.op = "clear" THEN {} ELSE {q.quantity}

(* The menu as the feed tells it is the menu, with every override that an update *)
(* of the recipe turned into an addition or retired, and every price.          *)
FeedCarriesMenu == \A k \in DOMAIN row : Shown(k, row[k])

Becomes(c, kind) ==
    /\ retained[c] = "none" /\ retained'[c] \in {"accepted", "partially_superseded"}
    /\ request'[c].kind = kind

(* Only a refresh moves a price that the event has: an ingredient that goes out   *)
(* of use and comes back keeps its first capture, and what the catalog publishes *)
(* or a member edits reprices nothing.                                       *)
PriceMovesOnlyByRefresh ==
    [][(\E k \in Rows("price") : row'[k] # row[k])
          => \E c \in Command : Becomes(c, "refresh")]_vars

(* The event cooks with an ingredient: a line has it, overridden or not, or it    *)
(* was added.                                                               *)
CooksWith(i) ==
    \E s \in Scheduled :
       /\ Live(S(s))
       /\ \/ \E l \in DOMAIN Pinned(s).lines :
                /\ Pinned(s).lines[l].ingredient[1] = i
                /\ IF \E k \in ActiveOf(s) : row[k].how = "replace" /\ row[k].line = l
                   THEN \E k \in ActiveOf(s) : row[k].line = l /\ row[k].quantity > 0
                   ELSE LineQuantity(Pinned(s).lines[l], row[S(s)].scale) > 0
          \/ \E k \in ActiveOf(s) : /\ row[k].how = "add" /\ row[k].ingredient[1] = i
                                    /\ row[k].quantity > 0

(* After a refresh every ingredient that the event cooks with and every price    *)
(* that it had are at the estimate of the moment, those first used by a change   *)
(* of scale or of version, which capture nothing, included.                   *)
RefreshCoversTheMenu ==
    [][\A c \in Command : Becomes(c, "refresh") =>
          \A i \in Ingredient :
             CooksWith(i) \/ Has(P(i)) =>
                P(i) \in DOMAIN row' /\ Last(row'[P(i)]) = catalog.estimate[i]]_vars

(* An update that preserves the overrides keeps the quantity of every one of      *)
(* them, under the ingredient version it was chosen for; one that discards them  *)
(* leaves none, and in either case the scale is in the unit of the version.      *)
UpdateKeepsChoices ==
    [][\A c \in Command : Becomes(c, "update") =>
          LET q == request'[c]
          IN  /\ \A k \in ActiveOf(q.schedule) :
                    IF q.preserve
                    THEN /\ ~row'[k].retired /\ row'[k].quantity = row[k].quantity
                         /\ row'[k].ingredient = row[k].ingredient
                    ELSE row'[k].retired
              /\ row'[S(q.schedule)].mode = "manual" =>
                    Versions[q.target].unit = Pinned(q.schedule).unit]_vars

(* The documented rule for updating a scheduled recipe: the user may keep all     *)
(* overrides, whatever the new version has.                                   *)
OverridesCanBeKept == aborted = {}
=============================================================================
