---------------------------- MODULE ShoppingLists ----------------------------
(***************************************************************************)
(* One shopping list of one event (shopping_lists.py): a generated side,    *)
(* which refreshes replace revision by revision from the menu, and an       *)
(* operational side, the credits, targets and supplies that members enter   *)
(* while they shop and that refreshes must carry along.                     *)
(*                                                                         *)
(* A contribution is what one scheduled recipe needs of one ingredient; it  *)
(* is named by that pair, and stays when a later revision no longer needs   *)
(* it.  Revisions fork: two devices may refresh the same parent offline,    *)
(* and the later of them by wall-clock time becomes the current one.        *)
(***************************************************************************)
EXTENDS CommandLog, Sequences, FiniteSetsExt

CONSTANTS
    Recipe, Ingredient,  \* scheduled recipes of the event, ingredients
    Base,                \* what each recipe needs at scale 1
    Menus,               \* bound: states of the plan
    Name, Section,       \* texts of names and notes, store sections
    FirstNames,          \* bound: the names a list is created with
    OpenSections,        \* the store sections that are not retired
    None,                \* NULL
    Item,                \* identities of ad-hoc items
    Amounts,             \* bound: quantities members enter
    Sources,             \* bound: the source sets of creations and refreshes
    Creators,            \* bound: the identities that create the list
    Scenarios            \* bound: sets of kinds of steps that are taken together

Kinds == {"create", "rename", "refresh", "supply", "target", "section", "note",
          "check", "check_row", "add_item", "check_item", "item_lifecycle", "update_item",
          "replan", "archive"}

ASSUME BaseAssumption == Base \in [Recipe -> [Ingredient -> Nat]]
ASSUME AmountsAssumption == Amounts \subseteq Nat
ASSUME NameAssumption == FirstNames \subseteq Name
ASSUME SectionAssumption == OpenSections \subseteq Section
ASSUME SourcesAssumption == Sources \subseteq SUBSET Recipe
ASSUME ScenariosAssumption == Scenarios \subseteq SUBSET Kinds

(* NULL is the identity of no mutation. *)
ASSUME NoneAssumption == None \notin Command

(* An event has so many scheduled recipes, which use so many ingredients. *)
ASSUME FiniteAssumption == IsFiniteSet(Recipe) /\ IsFiniteSet(Ingredient)

VARIABLES
    menu,          \* scheduled_recipes and their overrides, edited elsewhere
    lifecycle,     \* events.lifecycle
    list,          \* shopping_lists; NoList before it is created
    revision,      \* shopping_generation_revisions, sources and snapshots
    row,           \* shopping_ingredient_rows, by ingredient
    credit,        \* shopping_contributions.fulfilment_credit
    item,          \* ad_hoc_shopping_items
    kinds          \* the scenario

listVars == <<list, revision, row, credit, item>>
vars == <<logVars, menu, lifecycle, listVars, kinds>>

NoList == [name |-> None, current |-> None]
Contribution == Recipe \X Ingredient

-----------------------------------------------------------------------------
(* The tables. *)

(* A scheduled recipe: retired or not, its scale, and the ingredients whose  *)
(* quantity an override sets (replacing base lines, or adding lines).        *)
Plan == [retired : BOOLEAN, scale : Nat, override : [Ingredient -> Nat \cup {-1}]]

ASSUME MenusAssumption == Menus \subseteq [Recipe -> Plan]

ListRow == [name : Name \cup {None}, current : Command \cup {None}]

(* A generated revision: its parent, its sources, and for each contribution  *)
(* a snapshot with the quantity and whether this revision still needs it.    *)
Snapshot == [active : BOOLEAN, quantity : Nat]
IsRevision(v) ==
    /\ v.parent \in Command \cup {None} /\ v.sources \subseteq Recipe /\ v.at \in Nat
    /\ DOMAIN v.snapshot \subseteq Contribution
    /\ \A p \in DOMAIN v.snapshot : v.snapshot[p] \in Snapshot

IngredientRow == [supply : Nat, target : Nat \cup {None}, automatic : Nat \cup {None},
                  basis : Command \cup {None}, section : Section \cup {None},
                  note : Name \cup {None}, extra : Nat]

ItemRow == [target : Nat, section : Section, credit : Nat, retired : BOOLEAN]

TypeOK ==
    /\ retained \in [Command -> Outcome \cup {"none"}]
    /\ \A f \in DOMAIN clock : clock[f] \in Stamp
    /\ menu \in Menus /\ lifecycle \in {"active", "archived"}
    /\ list \in ListRow
    /\ DOMAIN revision \subseteq Command
    /\ \A v \in DOMAIN revision : IsRevision(revision[v])
    /\ DOMAIN row \subseteq Ingredient /\ \A i \in DOMAIN row : row[i] \in IngredientRow
    /\ DOMAIN credit \subseteq Contribution /\ \A p \in DOMAIN credit : credit[p] \in Nat
    /\ DOMAIN item \subseteq Item /\ \A x \in DOMAIN item : item[x] \in ItemRow

Init ==
    /\ LogInit
    /\ menu \in Menus
    /\ lifecycle = "active"
    /\ list = NoList
    /\ revision = << >> /\ row = << >> /\ credit = << >> /\ item = << >>
    /\ kinds \in Scenarios

-----------------------------------------------------------------------------
(* What clients ask for. *)

CreateRequests ==
    [kind : {"create"}, time : WallTimes, name : FirstNames, sources : Sources]
RenameRequests == [kind : {"rename"}, time : WallTimes, name : Name]
RefreshRequests ==
    [kind : {"refresh"}, time : WallTimes, parent : Command, sources : Sources]

(* Only a manual target, a section and a note may be cleared. *)
RowRequests ==
    UNION {[kind : {"supply"}, time : WallTimes, row : Ingredient, value : Amounts],
           [kind : {"target"}, time : WallTimes, row : Ingredient, value : Amounts \cup {None}],
           [kind : {"section"}, time : WallTimes, row : Ingredient,
            value : Section \cup {None}],
           [kind : {"note"}, time : WallTimes, row : Ingredient, value : Name \cup {None}],
           [kind : {"check_row"}, time : WallTimes, row : Ingredient, fulfilled : BOOLEAN],
           [kind : {"check"}, time : WallTimes, pair : Contribution, fulfilled : BOOLEAN]}

AddItemRequests ==
    [kind : {"add_item"}, time : WallTimes, item : Item, target : Amounts, section : Section]
UpdateItemRequests ==
    [kind : {"update_item"}, time : WallTimes, item : Item, target : Amounts, section : Section]
CheckItemRequests ==
    [kind : {"check_item"}, time : WallTimes, item : Item, fulfilled : BOOLEAN]
ItemLifecycleRequests ==
    [kind : {"item_lifecycle"}, time : WallTimes, item : Item, retire : BOOLEAN]

Requests ==
    UNION {CreateRequests, RenameRequests, RefreshRequests, RowRequests, AddItemRequests,
           UpdateItemRequests, CheckItemRequests, ItemLifecycleRequests}

-----------------------------------------------------------------------------
(* Records of the change feed: one per row, keyed by kind and identity. *)

ListRecord(l) == Only(<<"list">>, l)
RevisionRecord(v, r) == Only(<<"revision", v>>, r)
RowRecords(rows, is) == [x \in {"row"} \X is |-> rows[x[2]]]

(* Bug: a contribution without credit is left out. *)
CreditedRecords(cs, ps) ==
    [x \in {"contribution"} \X {p \in ps : cs[p] > 0} |-> cs[x[2]]]

ContributionRecords(cs, ps) == [x \in {"contribution"} \X ps |-> cs[x[2]]]
ItemRecord(x, r) == Only(<<"item", x>>, r)

-----------------------------------------------------------------------------
(* create_shopping_list, refresh_shopping_list *)

(* _resolve_source: the override if there is one, else the scaled base line. *)
Need(p) ==
    LET plan == menu[p[1]]
    IN  IF plan.override[p[2]] >= 0 THEN plan.override[p[2]]
        ELSE Base[p[1]][p[2]] * plan.scale

(* The contributions of some sources; a line of nothing is none. *)
Generated(sources) == {p \in sources \X Ingredient : Need(p) > 0}

Sourced(req) == \A r \in req.sources : ~menu[r].retired

NewRow == [supply |-> 0, target |-> None, automatic |-> None, basis |-> None,
           section |-> None, note |-> None, extra |-> 0]

(* Rows and contributions a revision needs and the list has not got yet. *)
RowsFor(ps) == Overlaid([i \in {p[2] : p \in ps} |-> NewRow], row)
CreditsFor(ps) == Overlaid([p \in ps |-> 0], credit)

(* The list exists and its event takes edits. *)
Usable == list # NoList /\ lifecycle = "active"

CreateRefused(req) == list # NoList \/ lifecycle # "active" \/ ~Sourced(req)

Create(c, req) ==
    LET ps == Generated(req.sources)
        first == [parent |-> None, sources |-> req.sources, at |-> 0,
                  snapshot |-> [p \in ps |-> [active |-> TRUE, quantity |-> Need(p)]]]
    IN  /\ req.kind = "create" /\ c \in Creators
        /\ \/ CreateRefused(req) /\ Reject(c) /\ UNCHANGED listVars
           \/ /\ ~CreateRefused(req)
              /\ list' = [name |-> req.name, current |-> c]
              /\ revision' = Only(c, first)
              /\ row' = RowsFor(ps)
              /\ credit' = CreditsFor(ps)
              /\ UNCHANGED item
              /\ Conclude(c, req, "accepted", {<<"list", "current">>},
                    Overlaid(Overlaid(RevisionRecord(c, first), ListRecord(list')),
                             Overlaid(RowRecords(row', {p[2] : p \in ps}),
                                      ContributionRecords(credit', ps))))

RefreshRefused(req) ==
    TooFarAhead(req) \/ ~Usable \/ req.parent \notin DOMAIN revision \/ ~Sourced(req)

(* The last snapshot of a contribution: the parent's if it has one, else the *)
(* last generated of the other revisions, a sibling's refresh among them.    *)
LastSnapshot(p, parent) ==
    LET with == {v \in DOMAIN revision : p \in DOMAIN revision[v].snapshot}
        last == CHOOSE v \in with : \A w \in with : revision[w].at <= revision[v].at
    IN  revision[IF parent \in with THEN parent ELSE last].snapshot[p]

(* Bug: only what the parent's branch knew is carried along. *)
RefreshedFromParent(req) ==
    LET ps == Generated(req.sources)
    IN  [p \in ps \cup DOMAIN revision[req.parent].snapshot |->
           IF p \in ps THEN [active |-> TRUE, quantity |-> Need(p)]
           ELSE [revision[req.parent].snapshot[p] EXCEPT !.active = FALSE]]

(* The snapshots of a refresh: what it generates, and retired what else the  *)
(* list has ever generated.                                                  *)
Refreshed(req) ==
    LET ps == Generated(req.sources)
    IN  [p \in ps \cup DOMAIN credit |->
           IF p \in ps THEN [active |-> TRUE, quantity |-> Need(p)]
           ELSE [LastSnapshot(p, req.parent) EXCEPT !.active = FALSE]]

Refresh(c, req) ==
    LET ps == Generated(req.sources)
        next == [parent |-> req.parent, sources |-> req.sources,
                 at |-> Cardinality(DOMAIN revision), snapshot |-> Refreshed(req)]
        f == <<"list", "current">>
        wins == Wins(f, StampOf(c, req))
    IN  /\ req.kind = "refresh"
        /\ \/ RefreshRefused(req) /\ Reject(c) /\ UNCHANGED listVars
           \/ /\ ~RefreshRefused(req)
              /\ revision' = Overlaid(revision, Only(c, next))
              /\ row' = RowsFor(ps)
              /\ credit' = CreditsFor(ps)
              /\ list' = IF wins THEN [list EXCEPT !.current = c] ELSE list
              /\ UNCHANGED item
              /\ Conclude(c, req, IF wins THEN "accepted" ELSE "partially_superseded",
                    IF wins THEN {f} ELSE {},
                    Overlaid(Overlaid(RevisionRecord(c, next), ListRecord(list')),
                             Overlaid(RowRecords(row', {p[2] : p \in DOMAIN next.snapshot}),
                                      ContributionRecords(credit', DOMAIN next.snapshot))))

(* rename_shopping_list *)
Rename(c, req) ==
    LET f == <<"list", "name">>
        wins == Wins(f, StampOf(c, req))
    IN  /\ req.kind = "rename"
        /\ UNCHANGED <<revision, row, credit, item>>
        /\ \/ (TooFarAhead(req) \/ ~Usable) /\ Reject(c) /\ UNCHANGED list
           \/ /\ ~TooFarAhead(req) /\ Usable
              /\ list' = IF wins THEN [list EXCEPT !.name = req.name] ELSE list
              /\ Conclude(c, req, IF wins THEN "accepted" ELSE "partially_superseded",
                          IF wins THEN {f} ELSE {}, ListRecord(list'))

-----------------------------------------------------------------------------
(* _apply_shopping_operation *)

(* _current_generated_quantity: nothing where the current revision has not   *)
(* got the contribution, or has it retired.                                  *)
Active(p) ==
    LET snapshots == revision[list.current].snapshot
    IN  p \in DOMAIN snapshots /\ snapshots[p].active
Current(p) == IF Active(p) THEN revision[list.current].snapshot[p].quantity ELSE 0

ContributionsOf(i) == {p \in DOMAIN credit : p[2] = i}

(* Bug: what is over is not cut off. *)
Unclamped(n) == n
AtLeastZero(n) == IF n > 0 THEN n ELSE 0

(* The sum of the amounts that f gives. *)
Total(f) == LET amount(x) == f[x] IN MapThenSumSet(amount, DOMAIN f)

(* T_auto and T of a row *)
Automatic(i) == AtLeastZero(Total([p \in ContributionsOf(i) |-> Current(p)]) - row[i].supply)
Target(i) == IF row[i].target = None THEN Automatic(i) ELSE row[i].target

OperationRefused(req) == TooFarAhead(req) \/ ~Usable

(* The column and clock each row command writes. *)
RowField == [supply |-> "available_supply_quantity", target |-> "manual_purchase_target",
             section |-> "store_section_override_id", note |-> "note"]

(* A row with its field set.  A manual target remembers the automatic target *)
(* and the revision that it was entered against.                             *)
RowWith(req) ==
    CASE req.kind = "supply" -> [row[req.row] EXCEPT !.supply = req.value]
      [] req.kind = "section" -> [row[req.row] EXCEPT !.section = req.value]
      [] req.kind = "note" -> [row[req.row] EXCEPT !.note = req.value]
      [] req.kind = "target" ->
           [row[req.row] EXCEPT
              !.target = req.value,
              !.automatic = IF req.value = None THEN None ELSE Automatic(req.row),
              !.basis = IF req.value = None THEN None ELSE list.current]

RowFieldRefused(req) ==
    \/ OperationRefused(req)
    \/ req.row \notin DOMAIN row
    \/ req.kind = "section" /\ req.value \notin OpenSections \cup {None}

SetRowField(c, req) ==
    LET f == <<"row", req.row, RowField[req.kind]>>
        wins == Wins(f, StampOf(c, req))
    IN  /\ req.kind \in DOMAIN RowField
        /\ UNCHANGED <<list, revision, credit, item>>
        /\ \/ RowFieldRefused(req) /\ Reject(c) /\ UNCHANGED row
           \/ /\ ~RowFieldRefused(req)
              /\ row' = IF wins THEN [row EXCEPT ![req.row] = RowWith(req)] ELSE row
              /\ Conclude(c, req, IF wins THEN "accepted" ELSE "partially_superseded",
                          IF wins THEN {f} ELSE {}, RowRecords(row', {req.row}))

CreditClock(p) == <<"credit", p>>

(* One checkbox: the whole generated quantity, or nothing. *)
Check(c, req) ==
    LET p == req.pair
        wins == Wins(CreditClock(p), StampOf(c, req))
    IN  /\ req.kind = "check"
        /\ UNCHANGED <<list, revision, row, item>>
        /\ \/ /\ OperationRefused(req) \/ p \notin DOMAIN credit
              /\ Reject(c) /\ UNCHANGED credit
           \/ /\ ~OperationRefused(req) /\ p \in DOMAIN credit
              /\ credit' = IF wins
                           THEN [credit EXCEPT ![p] = IF req.fulfilled THEN Current(p) ELSE 0]
                           ELSE credit
              /\ Conclude(c, req, IF wins THEN "accepted" ELSE "partially_superseded",
                          IF wins THEN {CreditClock(p)} ELSE {},
                          Overlaid(ContributionRecords(credit', {p}), RowRecords(row, {p[2]})))

(* The contributions a row's checkbox writes: those of the current revision, *)
(* and to clear it the retired ones too.                                     *)
Touched(req) ==
    IF req.fulfilled THEN {p \in ContributionsOf(req.row) : Active(p)}
    ELSE ContributionsOf(req.row)

RowCheckFields(req) ==
    {CreditClock(p) : p \in Touched(req)} \cup {<<"row", req.row, "aggregate_fulfilment_credit">>}

(* Bug: only the row's own clock is compared. *)
WinsTheRow(c, req) ==
    Wins(<<"row", req.row, "aggregate_fulfilment_credit">>, StampOf(c, req))

(* All or nothing: no field it writes has a later write. *)
WinsAll(c, req) == \A f \in RowCheckFields(req) : Wins(f, StampOf(c, req))

(* The contributions' part of a row's credit. *)
Contributed(i, credits) == Total([p \in ContributionsOf(i) |-> credits[p]])

(* Bug: the manual target is not looked at. *)
ExtraForAutomatic(req, credits) ==
    IF req.fulfilled THEN AtLeastZero(Automatic(req.row) - Contributed(req.row, credits)) ELSE 0

(* The credit of a row beyond its contributions'. *)
ExtraFor(req, credits) ==
    IF req.fulfilled THEN AtLeastZero(Target(req.row) - Contributed(req.row, credits)) ELSE 0

CheckRowRefused(c, req) ==
    OperationRefused(req) \/ req.row \notin DOMAIN row \/ ~WinsAll(c, req)

(* A row's checkbox: every contribution it touches and the row's own credit. *)
CheckRow(c, req) ==
    LET is == ContributionsOf(req.row)
    IN  /\ req.kind = "check_row"
        /\ UNCHANGED <<list, revision, item>>
        /\ \/ CheckRowRefused(c, req) /\ Reject(c) /\ UNCHANGED <<row, credit>>
           \/ /\ ~CheckRowRefused(c, req)
              /\ credit' = [p \in DOMAIN credit |->
                              IF p \notin Touched(req) THEN credit[p]
                              ELSE IF req.fulfilled THEN Current(p) ELSE 0]
              /\ row' = [row EXCEPT ![req.row].extra = ExtraFor(req, credit')]
              /\ Conclude(c, req, "accepted", RowCheckFields(req),
                          Overlaid(RowRecords(row', {req.row}),
                                   ContributionRecords(credit', is)))

-----------------------------------------------------------------------------
(* create_ad_hoc_shopping_item and the commands on one: amount and section    *)
(* stand for the five fields of its details.                                 *)

ItemClock(x, field) == <<"item", x, field>>

AddItemRefused(req) ==
    OperationRefused(req) \/ req.section \notin OpenSections \/ req.item \in DOMAIN item

AddItem(c, req) ==
    LET new == [target |-> req.target, section |-> req.section, credit |-> 0,
                retired |-> FALSE]
    IN  /\ req.kind = "add_item"
        /\ UNCHANGED <<list, revision, row, credit>>
        /\ \/ AddItemRefused(req) /\ Reject(c) /\ UNCHANGED item
           \/ /\ ~AddItemRefused(req)
              /\ item' = Overlaid(item, Only(req.item, new))
              /\ Conclude(c, req, "accepted", {}, ItemRecord(req.item, new))

(* An item that has not been retired. *)
Listed(x) == x \in DOMAIN item /\ ~item[x].retired

CheckItem(c, req) ==
    LET x == req.item
        f == ItemClock(x, "fulfilment_credit")
        wins == Wins(f, StampOf(c, req))
    IN  /\ req.kind = "check_item"
        /\ UNCHANGED <<list, revision, row, credit>>
        /\ \/ (OperationRefused(req) \/ ~Listed(x)) /\ Reject(c) /\ UNCHANGED item
           \/ /\ ~OperationRefused(req) /\ Listed(x)
              /\ item' = IF wins
                         THEN [item EXCEPT ![x].credit =
                                 IF req.fulfilled THEN item[x].target ELSE 0]
                         ELSE item
              /\ Conclude(c, req, IF wins THEN "accepted" ELSE "partially_superseded",
                          IF wins THEN {f} ELSE {}, ItemRecord(x, item'[x]))

SetItemLifecycle(c, req) ==
    LET x == req.item
        f == ItemClock(x, "lifecycle")
        wins == Wins(f, StampOf(c, req))
        refused == OperationRefused(req) \/ x \notin DOMAIN item
    IN  /\ req.kind = "item_lifecycle"
        /\ UNCHANGED <<list, revision, row, credit>>
        /\ \/ refused /\ Reject(c) /\ UNCHANGED item
           \/ /\ ~refused
              /\ item' = IF wins THEN [item EXCEPT ![x].retired = req.retire] ELSE item
              /\ Conclude(c, req, IF wins THEN "accepted" ELSE "partially_superseded",
                          IF wins THEN {f} ELSE {}, ItemRecord(x, item'[x]))

(* Each field of the details has its own clock. *)
ItemField == {"target_amount", "store_section_id"}
WonFields(c, req) == {f \in ItemField : Wins(ItemClock(req.item, f), StampOf(c, req))}

UpdateItemRefused(req) ==
    OperationRefused(req) \/ req.section \notin OpenSections \/ ~Listed(req.item)

UpdateItem(c, req) ==
    LET x == req.item
        won == WonFields(c, req)
        new == [item[x] EXCEPT
                  !.target = IF "target_amount" \in won THEN req.target ELSE @,
                  !.section = IF "store_section_id" \in won THEN req.section ELSE @]
    IN  /\ req.kind = "update_item"
        /\ UNCHANGED <<list, revision, row, credit>>
        /\ \/ UpdateItemRefused(req) /\ Reject(c) /\ UNCHANGED item
           \/ /\ ~UpdateItemRefused(req)
              /\ item' = [item EXCEPT ![x] = new]
              /\ Conclude(c, req,
                          IF won = ItemField THEN "accepted" ELSE "partially_superseded",
                          {ItemClock(x, f) : f \in won}, ItemRecord(x, new))

-----------------------------------------------------------------------------
(* What other services do meanwhile: the menu is edited, the event archived  *)
(* and reactivated.                                                          *)
Replan == /\ "replan" \in kinds
          /\ menu' \in Menus \ {menu}
          /\ UNCHANGED <<logVars, lifecycle, listVars, kinds>>

Archive == /\ "archive" \in kinds
           /\ lifecycle' = (IF lifecycle = "active" THEN "archived" ELSE "active")
           /\ UNCHANGED <<logVars, menu, listVars, kinds>>

Perform(c, req) ==
    \/ Create(c, req) \/ Rename(c, req) \/ Refresh(c, req)
    \/ SetRowField(c, req) \/ Check(c, req) \/ CheckRow(c, req)
    \/ AddItem(c, req) \/ CheckItem(c, req) \/ SetItemLifecycle(c, req) \/ UpdateItem(c, req)

Next ==
    \/ \E c \in Command, req \in {r \in Requests : r.kind \in kinds} :
          Fresh(c) /\ Perform(c, req) /\ UNCHANGED <<menu, lifecycle, kinds>>
    \/ \E c \in Command : /\ (Malformed(c) \/ Retry(c))
                          /\ UNCHANGED <<menu, lifecycle, listVars, kinds>>
    \/ Replan
    \/ Archive

Spec == Init /\ [][Next]_vars

-----------------------------------------------------------------------------
(* Properties. *)

(* Credit never goes unexplained: whatever a contribution was credited with, *)
(* the current revision has a snapshot of it, active or retired, even when    *)
(* it came from a revision of another branch.                                *)
CreditIsExplained ==
    \A p \in DOMAIN credit : credit[p] > 0 => p \in DOMAIN revision[list.current].snapshot

(* The rows as the feed tells them are the rows: a refresh publishes all it   *)
(* creates, a checkbox all it writes.                                        *)
FeedCarriesLists ==
    /\ list # NoList => Shown(<<"list">>, list)
    /\ \A v \in DOMAIN revision : Shown(<<"revision", v>>, revision[v])
    /\ \A i \in DOMAIN row : Shown(<<"row", i>>, row[i])
    /\ \A p \in DOMAIN credit : Shown(<<"contribution", p>>, credit[p])
    /\ \A x \in DOMAIN item : Shown(<<"item", x>>, item[x])

AppliedOf(ks) == {c \in Applied : request[c].kind \in ks}

(* Last writer wins, whatever the order of arrival: the current revision is   *)
(* that of the latest creation or refresh; the name, the fields of the rows   *)
(* and those of the items are those of their latest writes.                   *)
LatestWriteHolds ==
    LET refreshes == AppliedOf({"create", "refresh"})
        renames == AppliedOf({"rename"})
    IN  /\ list # NoList => list.current = Latest(refreshes)
        /\ renames # {} => list.name = request[Latest(renames)].name
        /\ \A i \in DOMAIN row, k \in DOMAIN RowField :
              LET writes == {c \in AppliedOf({k}) : request[c].row = i}
              IN  writes # {} => row[i][k] = request[Latest(writes)].value
        /\ \A x \in DOMAIN item :
              LET edits == {c \in AppliedOf({"update_item"}) : request[c].item = x}
                  retires == {c \in AppliedOf({"item_lifecycle"}) : request[c].item = x}
              IN  /\ edits # {} => /\ item[x].target = request[Latest(edits)].target
                                   /\ item[x].section = request[Latest(edits)].section
                  /\ retires # {} => item[x].retired = request[Latest(retires)].retire

(* C and R of a row *)
Credit(i) == row[i].extra + Contributed(i, credit)
Remaining(i) == AtLeastZero(Target(i) - Credit(i))

(* Checking a row leaves nothing of it to buy, whatever retired credit, manual *)
(* target and supply it has, and clearing it leaves no credit at all.          *)
CheckedRowIsSettled ==
    [][\A c \in Command, i \in DOMAIN row :
          /\ retained[c] = "none" /\ retained'[c] = "accepted"
          /\ request'[c].kind = "check_row" /\ request'[c].row = i
          => IF request'[c].fulfilled THEN Remaining(i)' = 0 ELSE Credit(i)' = 0]_vars

(* An older write never replaces the credit of a newer one: a contribution's   *)
(* credit changes only together with its clock, and its clock only advances.   *)
NewerCheckSurvives ==
    [][\A p \in DOMAIN credit : credit'[p] # credit[p] =>
          LET f == CreditClock(p)
          IN  f \in DOMAIN clock' /\ (f \in DOMAIN clock => Later(clock'[f], clock[f]))]_vars

(* The documented rule for clocks ahead of the server: no command whose time  *)
(* lies too far ahead is applied.                                            *)
FutureCommandsAreRejected == \A c \in Applied : ~TooFarAhead(request[c])
=============================================================================
