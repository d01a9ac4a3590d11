------------------------------ MODULE Catalog ------------------------------
(***************************************************************************)
(* The catalog of one organization: its units, tags, store sections and     *)
(* meal-role presets; ingredients and recipes, each a mutable root over     *)
(* immutable versions; price estimates; and the copies that an              *)
(* administrator takes from the catalog of another organization, which      *)
(* changes meanwhile.                                                       *)
(*                                                                         *)
(* Rows are keyed by their table and identity.  A version, price or tag     *)
(* that a client names is <<0, n>>; one that the server makes for a copy    *)
(* has the number of the command first.                                     *)
(***************************************************************************)
EXTENDS CommandLog, FiniteSetsExt, SequencesExt

CONSTANTS
    Configured,      \* rows of the configuration tables that clients may make
    Ingredient, Recipe,
    Version,         \* identities that clients give to versions and prices
    Unit, Tag,       \* units and dietary tags, of this organization or shared
    Dimension,       \* the dimension of each unit, the other organization's too
    Factor,          \* its factor to the base unit; 0 for none
    SeedKey,         \* the seed key of each dietary tag; None
    Names, Details,  \* names, and colours or positions
    Tagged,          \* bound: sets of tags that clients choose
    Expected,        \* bound: the ingredient versions that update previews show
    Others,          \* bound: what the other organization's catalog becomes, in order
    Mappings,        \* bound: what clients map its units, tags and versions to
    None,            \* NULL
    Scenarios        \* bound: what is taken together, on which catalog

ASSUME UnitAssumption == \A u \in DOMAIN Factor : Factor[u] \in Nat

VARIABLES
    row,       \* the rows of every table, by table and identity
    other,     \* how far the other organization's catalog is
    scene      \* the scenario: kinds of commands, how many, units, ingredient lines

vars == <<logVars, row, other, scene>>

-----------------------------------------------------------------------------
(* The tables. *)

I(i) == <<"ingredient", i>>
IV(v) == <<"ingredient_version", v>>
P(p) == <<"price", p>>
RE(r) == <<"recipe", r>>
RV(v) == <<"recipe_version", v>>
U(u) == <<"unit", u>>
DT(t) == <<"dietary_tag", t>>
Has(k) == k \in DOMAIN row
Live(k) == Has(k) /\ ~row[k].retired
Rows(table) == {k \in DOMAIN row : k[1] = table}
IdsIn(rows, table) == {k[2] : k \in {x \in DOMAIN rows : x[1] = table}}
Ids(table) == IdsIn(row, table)

Server == Nat \X Nat
Copied == Command \X Nat    \* identities that the server makes

(* Identities are UUIDs: nobody names a row as the server will name another, and  *)
(* a row of configuration is in one of the four tables.                      *)
ASSUME IdentityAssumption ==
    /\ Version \subseteq Server /\ None \notin Server /\ Tagged \subseteq SUBSET Tag
    /\ \A x \in Ingredient \cup Recipe \cup Version \cup Unit \cup Tag : x \notin Copied
    /\ \A k \in Configured :
          /\ k = <<k[1], k[2]>> /\ k[2] \notin Copied
          /\ \/ k[1] = "unit" /\ k[2] \in Unit
             \/ k[1] = "dietary_tag" /\ k[2] \in Tag
             \/ k[1] \in {"store_section", "meal_role_preset"}

Key ==
    ({"ingredient"} \X (Ingredient \cup Server)) \cup ({"recipe"} \X Recipe)
      \cup ({"ingredient_version", "recipe_version", "price"} \X Server)
      \cup ({"unit"} \X Unit) \cup ({"dietary_tag"} \X (Tag \cup Server)) \cup Configured

NamesThere ==
    UNION {{Others[n].tags[t].name : t \in DOMAIN Others[n].tags} : n \in DOMAIN Others}
ConfigRow == [name : Names \cup NamesThere, detail : Details, retired : BOOLEAN]
IngredientRow == [current : Server, price : Server \cup {None}, retired : BOOLEAN]
PriceRow == [of : Ingredient \cup Server, base : Server \cup {None}, amount : Nat]
RecipeRow == [current : Server, retired : BOOLEAN]
IngredientVersionRow ==
    [of : Ingredient \cup Server, base : Server \cup {None}, name : Names, unit : Unit,
     tags : SUBSET (Tag \cup Server)]
IsLines(lines) ==
    \A l \in DOMAIN lines :
       lines[l] \in [version : Server, quantity : Nat, display : Unit \cup {None}]
IsRecipeVersion(v) ==
    /\ DOMAIN v = {"of", "base", "scale", "lines"}
    /\ v.of \in Recipe /\ v.base \in Server \cup {None} /\ v.scale \in Unit /\ IsLines(v.lines)

IsRow(k, r) ==
    CASE k[1] = "ingredient" -> r \in IngredientRow
      [] k[1] = "price" -> r \in PriceRow
      [] k[1] = "recipe" -> r \in RecipeRow
      [] k[1] = "ingredient_version" -> r \in IngredientVersionRow
      [] k[1] = "recipe_version" -> IsRecipeVersion(r)
      [] OTHER -> r \in ConfigRow

(* What the row of k refers to. *)
References(k, r) ==
    CASE k[1] = "ingredient" -> {IV(r.current)}
      [] k[1] = "ingredient_version" -> {I(r.of)} \cup {DT(t) : t \in r.tags}
      [] k[1] = "recipe" -> {RV(r.current)}
      [] k[1] = "recipe_version" ->
            {RE(r.of)} \cup {IV(r.lines[l].version) : l \in DOMAIN r.lines}
      [] OTHER -> {}

IsCatalog(rows) ==
    /\ DOMAIN rows \subseteq Key
    /\ \A k \in DOMAIN rows : /\ IsRow(k, rows[k])
                              /\ References(k, rows[k]) \subseteq DOMAIN rows

(* No two rows of a configuration table have one name, retired rows included. *)
UniqueNames(rows) ==
    \A k \in DOMAIN rows \cap Configured :
       \A x \in DOMAIN rows \ {k} : x[1] = k[1] => rows[x].name # rows[k].name

(* The versions of each recipe are one line of edits up to the current one. *)
Linear(rows) ==
    \A r \in IdsIn(rows, "recipe") :
       LET versions == {v \in IdsIn(rows, "recipe_version") : rows[RV(v)].of = r}
           bases == {rows[RV(v)].base : v \in versions} \ {None}
       IN  /\ IsFiniteSet(versions) /\ bases \subseteq versions
           /\ Cardinality(bases) = Cardinality(versions) - 1
           /\ versions \ bases = {rows[RE(r)].current}

ASSUME ScenariosAssumption ==
    \A s \in Scenarios :
       /\ s.scene.commands \subseteq Command /\ s.scene.sold \subseteq Unit
       /\ \A lines \in s.scene.lines : IsLines(lines)
       /\ IsCatalog(s.row) /\ UniqueNames(s.row) /\ Linear(s.row)
       /\ \A k \in DOMAIN s.row : k[2] \notin Copied

(* The other organization's ingredient has a finite history of versions, each    *)
(* made from one of them, with tags of its own.                              *)
ASSUME OthersAssumption ==
    /\ Others # << >> /\ Others \in Seq(Range(Others))
    /\ \A n \in DOMAIN Others :
          LET made == Others[n].ingredient.versions
          IN  /\ IsFiniteSet(DOMAIN made) /\ DOMAIN made \subseteq Nat
              /\ Others[n].ingredient.current \in DOMAIN made
              /\ \A v \in DOMAIN made :
                    /\ made[v].base \in DOMAIN made \cup {None} /\ made[v].name \in Names
                    /\ made[v].tags \subseteq DOMAIN Others[n].tags
              /\ DOMAIN Others[n].tags \subseteq Nat
              /\ \A t \in DOMAIN Others[n].tags : Others[n].tags[t].detail \in Details
              /\ \A l \in DOMAIN Others[n].recipe.lines :
                    Others[n].recipe.lines[l].quantity \in Nat

TypeOK ==
    /\ retained \in [Command -> Outcome \cup {"none"}]
    /\ \A f \in DOMAIN clock : clock[f] \in Stamp
    /\ other \in DOMAIN Others /\ aborted \subseteq Command
    /\ IsCatalog(row)

Init ==
    /\ retained = [c \in Command |-> "none"]
    /\ request = [c \in Command |-> NoRequest]
    /\ other = 1 /\ aborted = {}
    /\ \E s \in Scenarios :
          /\ scene = s.scene /\ row = s.row /\ shown = s.row /\ clock = << >>

-----------------------------------------------------------------------------
(* What clients ask for.  Where no time is looked at, it is any. *)

Configurable == {k \in DOMAIN row : k \in Configured}
ConfigureRequests ==
    [kind : {"configure"}, time : WallTimes, at : Configured, name : Names, detail : Details]
ReconfigureRequests ==
    [kind : {"reconfigure"}, time : WallTimes, at : Configurable, name : Names,
     detail : Details]
ConfigLifecycleRequests ==
    [kind : {"config_lifecycle"}, time : WallTimes, at : Configurable, value : BOOLEAN]
CreateIngredientRequests ==
    [kind : {"create_ingredient"}, time : {Horizon}, ingredient : Ingredient,
     version : Version, name : Names, unit : scene.sold, tags : Tagged,
     price : Version \cup {None}]
PublishIngredientRequests ==
    [kind : {"publish_ingredient"}, time : WallTimes, ingredient : Ids("ingredient"),
     version : Version, base : Ids("ingredient_version"), name : Names, unit : scene.sold,
     tags : Tagged]
PublishPriceRequests ==
    [kind : {"publish_price"}, time : WallTimes, ingredient : Ids("ingredient"),
     price : Version, unit : scene.sold]
IngredientLifecycleRequests ==
    [kind : {"ingredient_lifecycle"}, time : WallTimes, at : Rows("ingredient"),
     value : BOOLEAN]
CreateRecipeRequests ==
    [kind : {"create_recipe"}, time : {Horizon}, recipe : Recipe, version : Version,
     scale : scene.sold, lines : scene.lines]
PublishRecipeRequests ==
    [kind : {"publish_recipe"}, time : {Horizon}, recipe : Ids("recipe"), version : Version,
     base : Ids("recipe_version"), scale : scene.sold, lines : scene.lines]
UpdateRecipeRequests ==   \* the recipe-wide update shows its preview
    [kind : {"update_recipe"}, time : {Horizon}, recipe : Ids("recipe"), version : Version,
     base : Ids("recipe_version"), scale : scene.sold, lines : scene.lines,
     expected : Expected]
RecipeLifecycleRequests ==
    [kind : {"recipe_lifecycle"}, time : WallTimes, at : Rows("recipe"), value : BOOLEAN]
CopyIngredientRequests ==  \* seen: the catalog that the preview showed
    [kind : {"copy_ingredient"}, time : {Horizon}, seen : 1 .. other, units : Mappings.units,
     tags : Mappings.tags]
CopyRecipeRequests ==
    [kind : {"copy_recipe"}, time : {Horizon}, recipe : Recipe, version : Version,
     seen : 1 .. other, units : Mappings.units, versions : Mappings.versions]

(* The requests of the scenario. *)
Asked(kind, requests) == IF kind \in scene.kinds THEN requests ELSE {}

-----------------------------------------------------------------------------
(* mutate_catalog_configuration *)

(* Bug: the names of retired rows are free. *)
TakenByActive(k, name) ==
    \E x \in Rows(k[1]) \ {k} : row[x].name = name /\ ~row[x].retired

Taken(k, name) == \E x \in Rows(k[1]) \ {k} : row[x].name = name

(* A command that writes rows, wins some fields and tells the rows. *)
Commit(c, q, outcome, rows, won) ==
    /\ row' = Overlaid(row, rows)
    /\ Conclude(c, q, outcome, won, rows)
    /\ UNCHANGED other

(* One that is rejected, and one that the database refuses. *)
Refuse(c) == Reject(c) /\ UNCHANGED <<row, other>>
Break(c) == Abort(c) /\ UNCHANGED <<row, other>>

ConfigureRefused(q) == TooFarAhead(q) \/ Has(q.at) \/ Taken(q.at, q.name)

Configure(c, q) ==
    \/ ConfigureRefused(q) /\ Refuse(c)
    \/ /\ ~ConfigureRefused(q)
       /\ Commit(c, q, "accepted",
                 Only(q.at, [name |-> q.name, detail |-> q.detail, retired |-> FALSE]),
                 {<<q.at, f>> : f \in {"name", "detail", "retired"}})

(* The rows are those with a name of their own: the translation key of a      *)
(* preset that came with the system, which no update may change, is left out. *)
ReconfigureRefused(q) == TooFarAhead(q) \/ row[q.at].retired \/ Taken(q.at, q.name)

Reconfigure(c, q) ==
    LET won == {w \in {<<q.at, f>> : f \in {"name", "detail"}} : Wins(w, StampOf(c, q))}
        after == [f \in DOMAIN row[q.at] |->
                     IF <<q.at, f>> \in won THEN q[f] ELSE row[q.at][f]]
    IN  \/ ReconfigureRefused(q) /\ Refuse(c)
        \/ /\ ~ReconfigureRefused(q)
           /\ Commit(c, q, IF won = {} THEN "partially_superseded" ELSE "accepted",
                     Only(q.at, after), won)

(* Retire or restore: a row of configuration, an ingredient or a recipe. *)
SetLifecycle(c, q) ==
    LET won == {w \in {<<q.at, "retired">>} : Wins(w, StampOf(c, q))}
    IN  \/ TooFarAhead(q) /\ Refuse(c)
        \/ /\ ~TooFarAhead(q)
           /\ Commit(c, q, IF won = {} THEN "partially_superseded" ELSE "accepted",
                     Only(q.at, [row[q.at] EXCEPT
                                    !.retired = IF won = {} THEN @ ELSE q.value]),
                     won)

-----------------------------------------------------------------------------
(* create_ingredient, publish_ingredient_version,                           *)
(* publish_ingredient_price_estimate                                        *)

Current(i) == row[I(i)].current
VersionRow(q, base) ==
    [of |-> q.ingredient, base |-> base, name |-> q.name, unit |-> q.unit, tags |-> q.tags]
PriceOf(i, base) == [of |-> i, base |-> base, amount |-> 1]
RootAnd(q, root, k, r) == Overlaid(Only(I(q.ingredient), root), Only(k, r))

(* The unit is one of the organization's or shared, and so are the tags asked for. *)
ReferencesHold(unit, tags) == Live(U(unit)) /\ \A t \in tags : Live(DT(t))
NameInUse(name) ==
    \E i \in Ids("ingredient") : ~row[I(i)].retired /\ row[IV(Current(i))].name = name

CreateIngredientRefused(q) ==
    \/ ~ReferencesHold(q.unit, q.tags)
    \/ Has(I(q.ingredient)) \/ Has(IV(q.version)) \/ NameInUse(q.name)
    \/ q.price # None /\ Has(P(q.price))

CreateIngredient(c, q) ==
    LET root == [current |-> q.version, price |-> q.price, retired |-> FALSE]
        price == [k \in {P(x) : x \in {q.price} \ {None}} |-> PriceOf(q.ingredient, None)]
    IN  \/ CreateIngredientRefused(q) /\ Refuse(c)
        \/ /\ ~CreateIngredientRefused(q)
           /\ Commit(c, q, "accepted",
                     Overlaid(RootAnd(q, root, IV(q.version), VersionRow(q, None)), price),
                     {})

(* Bug: the tags of the current version are carried forward. *)
NewerThanCurrent(q) == q.tags \ row[IV(Current(q.ingredient))].tags

(* The tags that the version it is based on does not have. *)
NewTags(q) == q.tags \ row[IV(q.base)].tags

PublishRefused(q) ==
    \/ row[IV(q.base)].of # q.ingredient \/ ~Live(I(q.ingredient))
    \/ Has(IV(q.version))
    \/ ~ReferencesHold(q.unit, NewTags(q))
    \/ Dimension[q.unit] # Dimension[row[IV(q.base)].unit]

(* Mass and volume convert; a count or a custom unit is its own dimension. *)
Converts(unit) == Factor[unit] # 0
Compatible(unit, canonical) ==
    Dimension[unit] = Dimension[canonical] /\ (Converts(unit) \/ unit = canonical)

(* The versions of an ingredient are all of one dimension, and of the very same  *)
(* unit when that does not convert: the database refuses another.              *)
VersionsAgree(q) ==
    \A v \in {x \in Ids("ingredient_version") : row[IV(x)].of = q.ingredient} :
       Compatible(q.unit, row[IV(v)].unit)

(* The version is published whether or not it becomes the current one.  When it  *)
(* does, its clock is inserted: the database refuses a second clock.            *)
PublishIngredient(c, q) ==
    LET field == <<I(q.ingredient), "current">>
        won == {f \in {field} : Wins(f, StampOf(c, q))}
        root == [row[I(q.ingredient)] EXCEPT !.current = IF won = {} THEN @ ELSE q.version]
    IN  \/ PublishRefused(q) /\ Refuse(c)
        \/ ~PublishRefused(q) /\ ~VersionsAgree(q) /\ Break(c)
        \/ ~PublishRefused(q) /\ VersionsAgree(q) /\ won \cap DOMAIN clock # {} /\ Break(c)
        \/ /\ ~PublishRefused(q) /\ VersionsAgree(q) /\ won \cap DOMAIN clock = {}
           /\ Commit(c, q, "accepted",
                     RootAnd(q, root, IV(q.version), VersionRow(q, q.base)), won)

PriceRefused(q) ==
    \/ ~Live(I(q.ingredient)) \/ Has(P(q.price))
    \/ ~Live(U(q.unit)) \/ ~Compatible(q.unit, row[IV(Current(q.ingredient))].unit)

PublishPrice(c, q) ==
    LET old == row[I(q.ingredient)]
        won == {f \in {<<I(q.ingredient), "price">>} : Wins(f, StampOf(c, q))}
        root == [old EXCEPT !.price = IF won = {} THEN @ ELSE q.price]
    IN  \/ PriceRefused(q) /\ Refuse(c)
        \/ /\ ~PriceRefused(q)
           /\ Commit(c, q, IF won = {} THEN "partially_superseded" ELSE "accepted",
                     RootAnd(q, root, P(q.price), PriceOf(q.ingredient, old.price)), won)

SetIngredientLifecycle(c, q) == SetLifecycle(c, q)

-----------------------------------------------------------------------------
(* create_recipe, publish_recipe_version and the recipe-wide update *)

UnitOf(v) == row[IV(v)].unit
IngredientOf(v) == row[IV(v)].of

CatalogHolds(scale, lines) ==
    /\ Live(U(scale))
    /\ \A l \in DOMAIN lines :
          /\ Has(IV(lines[l].version))
          /\ lines[l].display # None =>
                /\ Live(U(lines[l].display))
                /\ Compatible(lines[l].display, UnitOf(lines[l].version))

RecipeVersionRow(q, base, lines) ==
    [of |-> q.recipe, base |-> base, scale |-> q.scale, lines |-> lines]
RecipeRecords(q, base, lines) ==
    Overlaid(Only(RE(q.recipe), [current |-> q.version, retired |-> FALSE]),
             Only(RV(q.version), RecipeVersionRow(q, base, lines)))

CreateRecipeRefused(q) ==
    Has(RE(q.recipe)) \/ Has(RV(q.version)) \/ ~CatalogHolds(q.scale, q.lines)

CreateRecipe(c, q) ==
    \/ CreateRecipeRefused(q) /\ Refuse(c)
    \/ /\ ~CreateRecipeRefused(q)
       /\ Commit(c, q, "accepted", RecipeRecords(q, None, q.lines), {})

(* Bug: the version it is based on need only be one of the recipe's. *)
BasedOnAny(q) == Live(RE(q.recipe)) /\ row[RV(q.base)].of = q.recipe

BasedOnCurrent(q) == Live(RE(q.recipe)) /\ row[RE(q.recipe)].current = q.base

(* A line key names one ingredient in all versions of a recipe: the database     *)
(* refuses another.                                                           *)
LineKeysHold(q, lines) ==
    \A v \in {x \in Ids("recipe_version") : row[RV(x)].of = q.recipe} :
       \A l \in DOMAIN lines \cap DOMAIN row[RV(v)].lines :
          IngredientOf(lines[l].version) = IngredientOf(row[RV(v)].lines[l].version)

Publish(c, q, lines) ==
    LET refused == ~BasedOnCurrent(q) \/ Has(RV(q.version)) \/ ~CatalogHolds(q.scale, lines)
    IN  \/ refused /\ Refuse(c)
        \/ ~refused /\ ~LineKeysHold(q, lines) /\ Break(c)
        \/ /\ ~refused /\ LineKeysHold(q, lines)
           /\ Commit(c, q, "accepted", RecipeRecords(q, q.base, lines), {})

PublishRecipe(c, q) == Publish(c, q, q.lines)

(* The lines of the version it is based on whose ingredient has a newer version. *)
BaseLines(q) == row[RV(q.base)].lines
Outdated(line) == Current(IngredientOf(line.version)) # line.version
Stale(q) ==
    {<<IngredientOf(q2.version), Current(IngredientOf(q2.version))>> :
        q2 \in {line \in {BaseLines(q)[l] : l \in DOMAIN BaseLines(q)} : Outdated(line)}}

(* No line of either may be of a retired ingredient. *)
AllLive(q) ==
    \A l \in DOMAIN q.lines : \A v \in {q.lines[l].version, BaseLines(q)[l].version} :
       Has(IV(v)) /\ Live(I(IngredientOf(v)))

(* Bug: the factors are taken the other way round. *)
AmountSwapped(old, new) ==
    old.quantity * Factor[UnitOf(new.version)] = new.quantity * Factor[UnitOf(old.version)]

(* The amount is the same in the new unit, exactly. *)
SameAmount(old, new) ==
    old.quantity * Factor[UnitOf(old.version)] = new.quantity * Factor[UnitOf(new.version)]

(* An outdated line gets the current version of its ingredient, another stays. *)
LineFollows(old, new) ==
    /\ IngredientOf(new.version) = IngredientOf(old.version)
    /\ IF Outdated(old)
       THEN /\ ~Outdated(new) /\ Dimension[UnitOf(new.version)] = Dimension[UnitOf(old.version)]
            /\ IF UnitOf(new.version) = UnitOf(old.version)
               THEN new.quantity = old.quantity
               ELSE /\ Converts(UnitOf(new.version)) /\ Converts(UnitOf(old.version))
                    /\ SameAmount(old, new)
       ELSE new.version = old.version /\ new.quantity = old.quantity

UpdateHolds(q) ==
    /\ DOMAIN q.lines = DOMAIN BaseLines(q)
    /\ AllLive(q)
    /\ Stale(q) = {<<i, q.expected[i]>> : i \in DOMAIN q.expected}
    /\ \A l \in DOMAIN q.lines : LineFollows(BaseLines(q)[l], q.lines[l])

(* A display unit that no longer fits is dropped. *)
Normalized(q) ==
    [l \in DOMAIN q.lines |->
       LET d == q.lines[l].display
       IN  [q.lines[l] EXCEPT !.display =
              IF d # None /\ Live(U(d)) /\ Dimension[d] = Dimension[UnitOf(q.lines[l].version)]
              THEN d ELSE None]]

UpdateRecipe(c, q) ==
    \/ ~BasedOnCurrent(q) /\ Refuse(c)
    \/ BasedOnCurrent(q) /\ ~UpdateHolds(q) /\ Refuse(c)
    \/ BasedOnCurrent(q) /\ UpdateHolds(q) /\ Publish(c, q, Normalized(q))

SetRecipeLifecycle(c, q) == SetLifecycle(c, q)

-----------------------------------------------------------------------------
(* copy_ingredient_to_organization: the whole history of an ingredient, with  *)
(* its units and tags mapped to this organization's.                         *)

Source == Others[other].ingredient
SourceTags == Others[other].tags
UsedTags(source) == UNION {source.versions[v].tags : v \in DOMAIN source.versions}
UsedUnits(source) == {source.versions[v].unit : v \in DOMAIN source.versions}

(* Tags of this organization that answer for a seeded tag. *)
Seeds == {SeedKey[t] : t \in {x \in Tag : Live(DT(x))}} \ {None}
Needed(source) ==
    [units |-> {u \in UsedUnits(source) : ~Live(U(u))},
     tags |-> {t \in UsedTags(source) : SourceTags[t].seed \notin Seeds}]

UnitFor(q, u) == IF u \in DOMAIN q.units THEN q.units[u] ELSE u
SeededTag(t) == CHOOSE x \in Tag : Live(DT(x)) /\ SeedKey[x] = SourceTags[t].seed

(* Bug: a tag to be made is referred to by the identity that it has there. *)
TagThere(c, q, t) ==
    IF t \notin DOMAIN q.tags THEN SeededTag(t)
    ELSE IF q.tags[t] = None THEN <<0, t>> ELSE q.tags[t]

TagFor(c, q, t) ==
    IF t \notin DOMAIN q.tags THEN SeededTag(t)
    ELSE IF q.tags[t] = None THEN <<c, t>> ELSE q.tags[t]
NewTagsOf(q) == {t \in DOMAIN q.tags : q.tags[t] = None}

TagMappingHolds(q) ==
    \A t \in DOMAIN q.tags :
       IF q.tags[t] = None THEN SourceTags[t].seed = None
       ELSE /\ Live(DT(q.tags[t]))
            /\ SourceTags[t].seed # None => SeedKey[q.tags[t]] = SourceTags[t].seed

UnitMappingHolds(q) ==
    /\ \A u \in UsedUnits(Source) :
          Live(U(UnitFor(q, u))) /\ Dimension[UnitFor(q, u)] = Dimension[u]
    /\ \A u1, u2 \in {UnitFor(q, u) : u \in UsedUnits(Source)} :
          Dimension[u1] = Dimension[u2] => u1 = u2 \/ Converts(u1)

NamesAreFree(q) ==
    /\ ~NameInUse(Source.versions[Source.current].name)
    /\ \A t \in NewTagsOf(q) :
          /\ \A k \in Rows("dietary_tag") : row[k].name # SourceTags[t].name
          /\ \A u \in NewTagsOf(q) \ {t} : SourceTags[u].name # SourceTags[t].name

(* The preview showed the ingredient as it is, and every dependency is mapped. *)
CopyIngredientRefused(q) ==
    \/ Source.retired
    \/ Others[q.seen].ingredient # Source \/ Others[q.seen].tags # SourceTags
    \/ DOMAIN q.units # Needed(Source).units \/ DOMAIN q.tags # Needed(Source).tags
    \/ ~TagMappingHolds(q) \/ ~UnitMappingHolds(q) \/ ~NamesAreFree(q)

(* Two tags of one version that become the same tag are inserted twice. *)
TagsCollide(c, q) ==
    \E v \in DOMAIN Source.versions : \E t, u \in Source.versions[v].tags :
       t # u /\ TagFor(c, q, t) = TagFor(c, q, u)

(* Bug: a copied version keeps the identity of the source's that it is based on. *)
BaseOfSource(c, v) == IF v.base = None THEN None ELSE <<0, v.base>>

BaseCopied(c, v) == IF v.base = None THEN None ELSE <<c, v.base>>
CopiedVersion(c, q, v) ==
    [of |-> <<c, 0>>, base |-> BaseCopied(c, v), name |-> v.name,
     unit |-> UnitFor(q, v.unit), tags |-> {TagFor(c, q, t) : t \in v.tags}]
CopiedVersions(c, q) ==
    [k \in {IV(<<c, v>>) : v \in DOMAIN Source.versions} |->
        CopiedVersion(c, q, Source.versions[k[2][2]])]
CopiedTags(c, q) ==
    [k \in {DT(<<c, t>>) : t \in NewTagsOf(q)} |->
        [name |-> SourceTags[k[2][2]].name, detail |-> SourceTags[k[2][2]].detail,
         retired |-> FALSE]]
CopiedRows(c, q) ==
    Overlaid(Only(I(<<c, 0>>),
                  [current |-> <<c, Source.current>>, price |-> None, retired |-> FALSE]),
             Overlaid(CopiedVersions(c, q), CopiedTags(c, q)))
CopiedClocks(c, q) ==
    {<<I(<<c, 0>>), f>> : f \in {"current", "price", "retired"}} \cup
      {<<DT(<<c, x[1]>>), x[2]>> : x \in NewTagsOf(q) \X {"name", "detail", "retired"}}

CopyIngredient(c, q) ==
    \/ CopyIngredientRefused(q) /\ Refuse(c)
    \/ ~CopyIngredientRefused(q) /\ TagsCollide(c, q) /\ Break(c)
    \/ /\ ~CopyIngredientRefused(q) /\ ~TagsCollide(c, q)
       /\ Commit(c, q, "accepted", CopiedRows(c, q), CopiedClocks(c, q))

(* copy_recipe_to_organization: the current version, its ingredients mapped to  *)
(* current versions here; the base quantities are copied as they are.          *)
SourceRecipe == Others[other].recipe
CopiedLines(q) ==
    [l \in DOMAIN SourceRecipe.lines |->
       LET line == SourceRecipe.lines[l]
       IN  [version |-> q.versions[line.version], quantity |-> line.quantity,
            display |-> IF line.display = None THEN None ELSE q.units[line.display]]]
RecipeNeeds ==
    LET lines == {SourceRecipe.lines[l] : l \in DOMAIN SourceRecipe.lines}
    IN  [versions |-> {line.version : line \in lines},
         units |-> {SourceRecipe.scale} \cup ({line.display : line \in lines} \ {None})]
CopyRecipeHolds(q) ==
    /\ ~SourceRecipe.retired /\ Others[q.seen].recipe.current = SourceRecipe.current
    /\ DOMAIN q.versions = RecipeNeeds.versions /\ DOMAIN q.units = RecipeNeeds.units
    /\ \A s \in DOMAIN q.versions :
          LET v == q.versions[s]
          IN  Has(IV(v)) /\ Live(I(IngredientOf(v))) /\ Current(IngredientOf(v)) = v
    /\ CatalogHolds(q.units[SourceRecipe.scale], CopiedLines(q))
    /\ ~Has(RE(q.recipe)) /\ ~Has(RV(q.version))

CopyRecipe(c, q) ==
    LET full == [kind |-> q.kind, time |-> q.time, recipe |-> q.recipe, version |-> q.version,
                 scale |-> q.units[SourceRecipe.scale],
                 lines |-> CopiedLines(q)]
    IN  \/ ~CopyRecipeHolds(q) /\ Refuse(c)
        \/ /\ CopyRecipeHolds(q)
           /\ Commit(c, full, "accepted", RecipeRecords(full, None, full.lines), {})

(* The commands above, run by members of the organization that is copied from. *)
OtherEdits ==
    /\ scene.kinds \cap {"copy_ingredient", "copy_recipe"} # {} /\ other < Len(Others)
    /\ other' = other + 1
    /\ UNCHANGED <<logVars, row, scene>>

Perform(c) ==
    \/ \E q \in Asked("configure", ConfigureRequests) : Configure(c, q)
    \/ \E q \in Asked("reconfigure", ReconfigureRequests) : Reconfigure(c, q)
    \/ \E q \in Asked("config_lifecycle", ConfigLifecycleRequests) : SetLifecycle(c, q)
    \/ \E q \in Asked("create_ingredient", CreateIngredientRequests) : CreateIngredient(c, q)
    \/ \E q \in Asked("publish_ingredient", PublishIngredientRequests) :
          PublishIngredient(c, q)
    \/ \E q \in Asked("publish_price", PublishPriceRequests) : PublishPrice(c, q)
    \/ \E q \in Asked("ingredient_lifecycle", IngredientLifecycleRequests) :
          SetIngredientLifecycle(c, q)
    \/ \E q \in Asked("create_recipe", CreateRecipeRequests) : CreateRecipe(c, q)
    \/ \E q \in Asked("publish_recipe", PublishRecipeRequests) : PublishRecipe(c, q)
    \/ \E q \in Asked("update_recipe", UpdateRecipeRequests) : UpdateRecipe(c, q)
    \/ \E q \in Asked("recipe_lifecycle", RecipeLifecycleRequests) : SetRecipeLifecycle(c, q)
    \/ \E q \in Asked("copy_ingredient", CopyIngredientRequests) : CopyIngredient(c, q)
    \/ \E q \in Asked("copy_recipe", CopyRecipeRequests) : CopyRecipe(c, q)

Next ==
    \/ \E c \in scene.commands : Fresh(c) /\ Perform(c) /\ UNCHANGED scene
    \/ \E c \in scene.commands : (Malformed(c) \/ Retry(c)) /\ UNCHANGED <<row, other, scene>>
    \/ OtherEdits

Spec == Init /\ [][Next]_vars

-----------------------------------------------------------------------------
(* Properties. *)

(* No two rows of a configuration table have one name, retired rows included,    *)
(* so a row can be restored whatever was made or renamed while it was retired. *)
NamesStayUnique == UniqueNames(row)

AppliedOf(ks) == {c \in Applied : request[c].kind \in ks}
Lifecycles == {"config_lifecycle", "ingredient_lifecycle", "recipe_lifecycle"}

(* The rows of configuration, and the roots, that a command makes with clocks. *)
MadeBy(c) ==
    CASE request[c].kind = "configure" -> {request[c].at}
      [] request[c].kind = "copy_ingredient" ->
            {I(<<c, 0>>)} \cup {DT(<<c, t>>) : t \in NewTagsOf(request[c])}
      [] OTHER -> {}
Makers(k) == {c \in Applied : k \in MadeBy(c)}

(* Last writer wins, whatever the order of arrival: each field of a row of       *)
(* configuration, the lifecycle of roots, and the pointers that concurrent      *)
(* publications of versions and of prices contend for, a copy's among them.    *)
LatestWriteHolds ==
    /\ \A k \in Configurable : \A f \in {"name", "detail"} :
          LET writes == {c \in AppliedOf({"configure", "reconfigure"}) : request[c].at = k}
          IN  writes # {} => row[k][f] = request[Latest(writes)][f]
    /\ \A k \in DOMAIN row :
          LET writes == {c \in AppliedOf(Lifecycles) : request[c].at = k}
              last == Latest(writes \cup Makers(k))
          IN  writes # {} => row[k].retired = (last \in writes /\ request[last].value)
    /\ \A i \in Ids("ingredient") :
          LET prices == {c \in AppliedOf({"publish_price"}) : request[c].ingredient = i}
              versions == {c \in AppliedOf({"publish_ingredient"}) : request[c].ingredient = i}
              price == Latest(prices \cup Makers(I(i)))
              version == Latest(versions \cup Makers(I(i)))
          IN  /\ prices # {} =>
                    row[I(i)].price = IF price \in prices THEN request[price].price ELSE None
              /\ versions # {} => IF version \in versions
                                  THEN Current(i) = request[version].version
                                  ELSE Current(i)[1] = version

(* The versions of a recipe are one line of edits: none was made from another    *)
(* than the version that was current, so no edit is lost to a concurrent one.  *)
RecipeHistoryIsLinear == Linear(row)

Becomes(c) == retained[c] = "none" /\ retained'[c] \in {"accepted", "partially_superseded"}

(* The recipe-wide update brings every line to the current version of its        *)
(* ingredient and changes no amount, whatever was published between its preview *)
(* and its arrival.                                                            *)
UpdateKeepsAmounts ==
    [][\A c \in Command :
          Becomes(c) /\ request'[c].kind = "update_recipe" =>
             LET q == request'[c]
                 old == BaseLines(q)
                 new == row'[RV(q.version)].lines
             IN  /\ DOMAIN new = DOMAIN old
                 /\ \A l \in DOMAIN old :
                       /\ new[l].version = Current(IngredientOf(old[l].version))
                       /\ new[l].quantity * Factor[UnitOf(new[l].version)]
                            = old[l].quantity * Factor[UnitOf(old[l].version)]]_vars

(* A retired tag is carried forward by a version from the one it is based on,     *)
(* and never newly added, whatever became of the current version meanwhile.    *)
NoNewRetiredTag ==
    [][\A c \in Command :
          Becomes(c) /\ request'[c].kind = "publish_ingredient" =>
             \A t \in request'[c].tags :
                Live(DT(t)) \/ t \in row[IV(request'[c].base)].tags]_vars

(* A copied ingredient has the history of the one that the preview showed: its   *)
(* versions, which is based on which, and in units of the same dimensions; and   *)
(* it refers to nothing of the other organization.                             *)
CopyKeepsHistory ==
    [][\A c \in Command :
          Becomes(c) /\ request'[c].kind = "copy_ingredient" =>
             LET seen == Others[request'[c].seen].ingredient
                 copies == {k \in DOMAIN row' : k[1] = "ingredient_version"
                                                 /\ row'[k].of = <<c, 0>>}
             IN  /\ Cardinality(copies) = Cardinality(DOMAIN seen.versions)
                 /\ row'[I(<<c, 0>>)].current = <<c, seen.current>>
                 /\ \A v \in DOMAIN seen.versions :
                       LET copied == row'[IV(<<c, v>>)]
                           base == seen.versions[v].base
                       IN  /\ IF base = None THEN copied.base = None
                              ELSE IV(copied.base) \in copies /\ copied.base[2] = base
                           /\ Dimension[copied.unit] = Dimension[seen.versions[v].unit]
                           /\ U(copied.unit) \in DOMAIN row
                           /\ \A t \in copied.tags : DT(t) \in DOMAIN row']_vars

(* The documented rule for publishing a later version: it is inserted and        *)
(* advances the current pointer; no valid publication fails.                   *)
EveryPublicationIsDecided == aborted = {}
=============================================================================
