---------------------------- MODULE CatalogProofs ----------------------------
(***************************************************************************)
(* Theorems of Catalog, for any catalogs of the two organizations, clients,  *)
(* mappings and clocks.                                                     *)
(*                                                                         *)
(* The inductive invariant says that the rows refer to rows that are there,   *)
(* that names are unique and recipe histories linear, which write each clock   *)
(* remembers and that the row has its value, and that no row has an identity    *)
(* which the server has yet to give.                                         *)
(***************************************************************************)
EXTENDS Catalog, FiniteSetTheorems, TLAPS

-----------------------------------------------------------------------------
(* The inductive invariant. *)

(* In the clocks ck and the requests rq, field f has the stamp of the latest of *)
(* the commands cs, and no stamp without one.                               *)
Remembers(ck, rq, f, cs) ==
    /\ f \in DOMAIN ck <=> cs # {}
    /\ f \in DOMAIN ck =>
          /\ ck[f][2] \in cs
          /\ ck[f] = StampOf(ck[f][2], rq[ck[f][2]])
          /\ \A d \in cs : d # ck[f][2] => Later(ck[f], StampOf(d, rq[d]))

(* The fields that request q of command c contends for. *)
AimsAt(c, q, f) ==
    \/ q.kind \in {"configure", "reconfigure"} /\ f \in {<<q.at, "name">>, <<q.at, "detail">>}
    \/ q.kind \in Lifecycles \cup {"configure"} /\ f = <<q.at, "retired">>
    \/ q.kind = "publish_price" /\ f = <<I(q.ingredient), "price">>
    \/ q.kind = "publish_ingredient" /\ f = <<I(q.ingredient), "current">>
    \/ q.kind = "copy_ingredient" /\ f \in CopiedClocks(c, q)
Writes(f) == {c \in Applied : AimsAt(c, request[c], f)}

Shaped ==
    /\ DOMAIN request = Command
    /\ scene.commands \subseteq Command /\ scene.sold \subseteq Unit
    /\ \A lines \in scene.lines : IsLines(lines)
    /\ \A c \in Applied : request[c].time \in Nat
    /\ \A c \in Applied : \A f : AimsAt(c, request[c], f) => f[1] \in DOMAIN row
    /\ \A c \in Applied : request[c].kind = "copy_ingredient" =>
          \A f : AimsAt(c, request[c], f) => f[1][2] \in Copied
    /\ \A c \in Applied : request[c].kind = "configure" => request[c].at \in Configured
    /\ \A k \in DOMAIN row : k[2] \in Copied => k[2][1] \in Applied

ClocksRemember == \A f : Remembers(clock, request, f, Writes(f))

(* The fields of a row that have clocks, and what one has after request q of c. *)
Columns(k) ==
    IF k[1] = "ingredient" THEN {"retired", "price", "current"}
    ELSE IF k[1] = "recipe" THEN {"retired"} ELSE {"name", "detail", "retired"}
Holds(value, x, c, q) ==
    /\ x \in {"name", "detail"} /\ q.kind \in {"configure", "reconfigure"} => value = q[x]
    /\ x = "retired" => value = (q.kind \in Lifecycles /\ q.value)
    /\ x = "price" => value = IF q.kind = "publish_price" THEN q.price ELSE None
    /\ x = "current" => IF q.kind = "publish_ingredient" THEN value = q.version
                        ELSE value[1] = c

FieldsHold ==
    \A k \in DOMAIN row : \A x \in Columns(k) :
       <<k, x>> \in DOMAIN clock =>
          LET c == clock[<<k, x>>][2] IN Holds(row[k][x], x, c, request[c])

IInv ==
    /\ TypeOK /\ Shaped /\ UniqueNames(row) /\ Linear(row)
    /\ ClocksRemember /\ FieldsHold

-----------------------------------------------------------------------------
(* Overlays and stamps. *)

LEMMA OverlaidIs ==
    ASSUME NEW f, NEW g
    PROVE  /\ DOMAIN Overlaid(f, g) = DOMAIN f \cup DOMAIN g
           /\ \A x \in DOMAIN g : Overlaid(f, g)[x] = g[x]
           /\ \A x \in DOMAIN f : x \notin DOMAIN g => Overlaid(f, g)[x] = f[x]
  BY DEF Overlaid

LEMMA OnlyIs ==
    ASSUME NEW x, NEW r
    PROVE  DOMAIN Only(x, r) = {x} /\ Only(x, r)[x] = r
  BY DEF Only

(* Later is a strict total order on stamps. *)
LEMMA LaterIsStrict ==
    ASSUME NEW s \in Stamp, NEW t \in Stamp
    PROVE  /\ ~Later(s, s)
           /\ ~(Later(s, t) /\ Later(t, s))
           /\ s # t => Later(s, t) \/ Later(t, s)
           /\ \A u \in Stamp : Later(s, t) /\ Later(t, u) => Later(s, u)
  BY DEF Stamp, Later

LEMMA StampTypes ==
    ASSUME NEW c \in Command, NEW q, q.time \in Nat
    PROVE  StampOf(c, q) \in Stamp /\ StampOf(c, q)[2] = c
  BY CommandAssumption DEF StampOf, Stamp

-----------------------------------------------------------------------------
(* What a step does to the log. *)

(* What the latest command of some is, when a clock remembers it. *)
LEMMA LatestIs ==
    ASSUME NEW f, NEW cs \in SUBSET Command, \A c \in cs : request[c].time \in Nat,
           Remembers(clock, request, f, cs), cs # {}
    PROVE  Latest(cs) = clock[f][2] /\ clock[f][2] \in cs
<1> DEFINE w == clock[f][2]
           Best(c) == \A d \in cs \ {c} : Later(StampOf(c, request[c]), StampOf(d, request[d]))
<1>1. w \in cs /\ Best(w)
  BY DEF Remembers
<1>2. ASSUME NEW c \in cs, Best(c)
      PROVE  c = w
  <2>1. StampOf(c, request[c]) \in Stamp /\ StampOf(w, request[w]) \in Stamp
    BY <1>1, StampTypes
  <2>2. QED
    BY <1>1, <1>2, <2>1, LaterIsStrict
<1>3. Latest(cs) = CHOOSE c \in cs : Best(c)
  BY DEF Latest
<1> HIDE DEF Best
<1>4. QED
  BY <1>1, <1>2, <1>3

(* An applied command c adds its request and the clocks of the fields it won. *)
Logs(c, q, won) ==
    /\ c \in Command \ Applied
    /\ Applied' = Applied \cup {c}
    /\ request'[c] = q
    /\ \A d \in Applied : request'[d] = request[d]
    /\ DOMAIN clock' = DOMAIN clock \cup won
    /\ \A f \in won : clock'[f] = StampOf(c, q)
    /\ \A f \in DOMAIN clock : f \notin won => clock'[f] = clock[f]

LEMMA ConcludeLogs ==
    ASSUME IInv, NEW c \in Command, Fresh(c), NEW q, NEW won, NEW records,
           NEW outcome \in {"accepted", "partially_superseded"},
           Conclude(c, q, outcome, won, records)
    PROVE  /\ Logs(c, q, won)
           /\ shown' = Overlaid(shown, records) /\ aborted' = aborted
           /\ retained' \in [Command -> Outcome \cup {"none"}]
           /\ DOMAIN request' = Command
<1>1. /\ retained' = [retained EXCEPT ![c] = outcome]
      /\ request' = [request EXCEPT ![c] = q]
      /\ clock' = Overlaid(clock, [f \in won |-> StampOf(c, q)])
      /\ shown' = Overlaid(shown, records) /\ aborted' = aborted
  BY DEF Conclude
<1>2. retained \in [Command -> Outcome \cup {"none"}] /\ DOMAIN request = Command
  BY DEF IInv, TypeOK, Shaped
<1>3. c \notin Applied /\ Applied' = Applied \cup {c}
  BY <1>1, <1>2 DEF Fresh, Applied
<1>4. /\ request'[c] = q /\ DOMAIN request' = Command
      /\ \A d \in Applied : request'[d] = request[d]
  BY <1>1, <1>2, <1>3
<1>5. retained' \in [Command -> Outcome \cup {"none"}]
  BY <1>1, <1>2 DEF Outcome
<1>6. /\ DOMAIN clock' = DOMAIN clock \cup won
      /\ \A f \in won : clock'[f] = StampOf(c, q)
      /\ \A f \in DOMAIN clock : f \notin won => clock'[f] = clock[f]
  <2> DEFINE stamps == [f \in won |-> StampOf(c, q)]
  <2>1. /\ DOMAIN stamps = won /\ \A f \in won : stamps[f] = StampOf(c, q)
        /\ clock' = Overlaid(clock, stamps)
    BY <1>1
  <2> HIDE DEF stamps
  <2>2. /\ DOMAIN Overlaid(clock, stamps) = DOMAIN clock \cup DOMAIN stamps
        /\ \A f \in DOMAIN stamps : Overlaid(clock, stamps)[f] = stamps[f]
        /\ \A f \in DOMAIN clock : f \notin DOMAIN stamps =>
              Overlaid(clock, stamps)[f] = clock[f]
    BY OverlaidIs
  <2>3. QED
    BY <2>1, <2>2
<1>7. QED
  BY <1>1, <1>3, <1>4, <1>5, <1>6 DEF Logs

LEMMA KeepsRemembering ==
    ASSUME NEW c, NEW q, NEW won, Logs(c, q, won), NEW f, f \notin won,
           NEW cs \in SUBSET Applied, Remembers(clock, request, f, cs)
    PROVE  Remembers(clock', request', f, cs)
  BY DEF Logs, Remembers

LEMMA RemembersWrite ==
    ASSUME Shaped, NEW c, NEW q, NEW won, Logs(c, q, won), q.time \in Nat,
           NEW f, f \in won <=> Wins(f, StampOf(c, q)),
           NEW cs \in SUBSET Applied, Remembers(clock, request, f, cs)
    PROVE  Remembers(clock', request', f, cs \cup {c})
<1> DEFINE s == StampOf(c, q)
<1>1. s \in Stamp /\ s[2] = c /\ c \notin cs
  BY StampTypes DEF Logs
<1>2. \A d \in cs : StampOf(d, request[d]) \in Stamp /\ request'[d] = request[d]
  BY StampTypes DEF Shaped, Logs, Applied
<1>3. StampOf(c, request'[c]) = s
  BY DEF Logs
<1>4. f \in DOMAIN clock => clock[f] \in Stamp
  BY <1>2 DEF Remembers
<1>5. CASE Wins(f, s)
  <2>1. f \in DOMAIN clock' /\ clock'[f] = s
    BY <1>5 DEF Logs
  <2>2. \A d \in cs : Later(s, StampOf(d, request[d]))
    BY <1>1, <1>2, <1>4, <1>5, LaterIsStrict DEF Wins, Remembers
  <2>3. QED
    BY <1>1, <1>2, <1>3, <2>1, <2>2 DEF Remembers
<1>6. CASE ~Wins(f, s)
  <2>1. f \in DOMAIN clock /\ f \in DOMAIN clock' /\ clock'[f] = clock[f]
    BY <1>6 DEF Wins, Logs
  <2>2. Later(clock[f], s)
    <3>1. clock[f] # s
      BY <1>1, <2>1 DEF Remembers
    <3>2. QED
      BY <1>1, <1>4, <1>6, <2>1, <3>1, LaterIsStrict DEF Wins
  <2>3. QED
    BY <1>1, <1>2, <1>3, <2>1, <2>2 DEF Remembers
<1>7. QED
  BY <1>5, <1>6

LEMMA WritersAre ==
    ASSUME NEW c, NEW q, NEW won, Logs(c, q, won), NEW f
    PROVE  /\ Writes(f) \subseteq Applied
           /\ AimsAt(c, q, f) => Writes(f)' = Writes(f) \cup {c}
           /\ ~AimsAt(c, q, f) => Writes(f)' = Writes(f)
<1>1. /\ Applied' = Applied \cup {c} /\ c \notin Applied /\ request'[c] = q
      /\ \A d \in Applied : request'[d] = request[d]
  BY DEF Logs
<1>2. Writes(f)' = {d \in Applied' : AimsAt(d, request'[d], f)}
  BY DEF Writes, AimsAt, CopiedClocks, NewTagsOf
<1>3. QED
  BY <1>1, <1>2 DEF Writes

LEMMA ClocksStep ==
    ASSUME Shaped, ClocksRemember, NEW c, NEW q, q.time \in Nat, NEW won, Logs(c, q, won),
           \A f : f \in won <=> AimsAt(c, q, f) /\ Wins(f, StampOf(c, q))
    PROVE  ClocksRemember'
<1>1. ASSUME NEW f
      PROVE  Remembers(clock', request', f, Writes(f)')
  <2>1. Remembers(clock, request, f, Writes(f))
    BY DEF ClocksRemember
  <2>2. CASE AimsAt(c, q, f)
    <3>1. Remembers(clock', request', f, Writes(f) \cup {c})
      BY <2>1, <2>2, WritersAre, RemembersWrite
    <3>2. QED
      BY <2>2, <3>1, WritersAre
  <2>3. CASE ~AimsAt(c, q, f)
    <3>1. Remembers(clock', request', f, Writes(f))
      BY <2>1, <2>3, WritersAre, KeepsRemembering
    <3>2. QED
      BY <2>3, <3>1, WritersAre
  <2>4. QED
    BY <2>2, <2>3
<1>2. QED
  BY <1>1 DEF ClocksRemember

-----------------------------------------------------------------------------
(* Tables. *)

Config == {"unit", "dietary_tag", "store_section", "meal_role_preset"}

LEMMA KeyIs ==
    ASSUME NEW k \in Key
    PROVE  /\ k = <<k[1], k[2]>>
           /\ k[1] \in {"ingredient", "recipe", "ingredient_version", "recipe_version",
                        "price"} \cup Config
           /\ k[1] = "ingredient" => k[2] \in Ingredient \cup Server
           /\ k[1] = "recipe" => k[2] \in Recipe
           /\ k[1] \in {"ingredient_version", "recipe_version", "price"} => k[2] \in Server
           /\ k[1] = "unit" => k[2] \in Unit
           /\ k[1] = "dietary_tag" => k[2] \in Tag \cup Server
           /\ k \in Configured => k[1] \in Config /\ k[2] \notin Copied
  BY IdentityAssumption DEF Key, Config

LEMMA KeysAre ==
    /\ \A i \in Ingredient \cup Server : I(i) \in Key
    /\ \A v \in Server : IV(v) \in Key /\ RV(v) \in Key /\ P(v) \in Key /\ DT(v) \in Key
    /\ \A r \in Recipe : RE(r) \in Key
    /\ Configured \subseteq Key
    /\ \A x : /\ I(x)[1] = "ingredient" /\ I(x)[2] = x
              /\ IV(x)[1] = "ingredient_version" /\ IV(x)[2] = x
              /\ P(x)[1] = "price" /\ P(x)[2] = x
              /\ RE(x)[1] = "recipe" /\ RE(x)[2] = x
              /\ RV(x)[1] = "recipe_version" /\ RV(x)[2] = x
              /\ U(x)[1] = "unit" /\ U(x)[2] = x
              /\ DT(x)[1] = "dietary_tag" /\ DT(x)[2] = x
  BY DEF Key, I, IV, P, RE, RV, U, DT

LEMMA IdsAre ==
    ASSUME NEW rows, DOMAIN rows \subseteq Key
    PROVE  /\ \A x : x \in IdsIn(rows, "ingredient") <=> I(x) \in DOMAIN rows
           /\ \A x : x \in IdsIn(rows, "ingredient_version") <=> IV(x) \in DOMAIN rows
           /\ \A x : x \in IdsIn(rows, "recipe") <=> RE(x) \in DOMAIN rows
           /\ \A x : x \in IdsIn(rows, "recipe_version") <=> RV(x) \in DOMAIN rows
<1>1. \A k \in DOMAIN rows : k = <<k[1], k[2]>>
  BY KeyIs
<1>2. ASSUME NEW table, NEW x
      PROVE  x \in IdsIn(rows, table) <=> <<table, x>> \in DOMAIN rows
  BY <1>1 DEF IdsIn
<1>3. QED
  BY <1>2 DEF I, IV, RE, RV

LEMMA RowIs ==
    ASSUME NEW rows, IsCatalog(rows), NEW k \in DOMAIN rows
    PROVE  /\ k \in Key
           /\ k[1] = "ingredient" => /\ rows[k] \in IngredientRow
                                     /\ IV(rows[k].current) \in DOMAIN rows
           /\ k[1] = "price" => rows[k] \in PriceRow
           /\ k[1] = "recipe" => rows[k] \in RecipeRow /\ RV(rows[k].current) \in DOMAIN rows
           /\ k[1] = "ingredient_version" =>
                 /\ rows[k] \in IngredientVersionRow /\ I(rows[k].of) \in DOMAIN rows
                 /\ \A t \in rows[k].tags : DT(t) \in DOMAIN rows
           /\ k[1] = "recipe_version" =>
                 /\ IsRecipeVersion(rows[k]) /\ RE(rows[k].of) \in DOMAIN rows
                 /\ \A l \in DOMAIN rows[k].lines : IV(rows[k].lines[l].version) \in DOMAIN rows
           /\ k[1] \in Config => rows[k] \in ConfigRow
<1>1. k \in Key /\ IsRow(k, rows[k]) /\ References(k, rows[k]) \subseteq DOMAIN rows
  BY DEF IsCatalog
<1>2. /\ k[1] = "ingredient" => rows[k] \in IngredientRow
      /\ k[1] = "price" => rows[k] \in PriceRow
      /\ k[1] = "recipe" => rows[k] \in RecipeRow
      /\ k[1] = "ingredient_version" => rows[k] \in IngredientVersionRow
      /\ k[1] = "recipe_version" => IsRecipeVersion(rows[k])
      /\ k[1] \in Config => rows[k] \in ConfigRow
  BY <1>1 DEF IsRow, Config
<1>3. /\ k[1] = "ingredient" => IV(rows[k].current) \in DOMAIN rows
      /\ k[1] = "recipe" => RV(rows[k].current) \in DOMAIN rows
      /\ k[1] = "ingredient_version" =>
            I(rows[k].of) \in DOMAIN rows /\ \A t \in rows[k].tags : DT(t) \in DOMAIN rows
      /\ k[1] = "recipe_version" =>
            /\ RE(rows[k].of) \in DOMAIN rows
            /\ \A l \in DOMAIN rows[k].lines : IV(rows[k].lines[l].version) \in DOMAIN rows
  BY <1>1 DEF References
<1>4. QED
  BY <1>1, <1>2, <1>3

LEMMA OverlaidCatalog ==
    ASSUME NEW rw, NEW rows, IsCatalog(rw), DOMAIN rows \subseteq Key,
           \A k \in DOMAIN rows : /\ IsRow(k, rows[k])
                                  /\ References(k, rows[k]) \subseteq DOMAIN rw \cup DOMAIN rows
    PROVE  IsCatalog(Overlaid(rw, rows))
<1> DEFINE all == Overlaid(rw, rows)
<1>1. /\ DOMAIN all = DOMAIN rw \cup DOMAIN rows
      /\ \A k \in DOMAIN rows : all[k] = rows[k]
      /\ \A k \in DOMAIN rw : k \notin DOMAIN rows => all[k] = rw[k]
  BY OverlaidIs
<1> HIDE DEF all
<1>2. ASSUME NEW k \in DOMAIN all
      PROVE  IsRow(k, all[k]) /\ References(k, all[k]) \subseteq DOMAIN all
  <2>1. CASE k \in DOMAIN rows
    BY <1>1, <2>1
  <2>2. CASE k \notin DOMAIN rows
    BY <1>1, <2>2 DEF IsCatalog
  <2>3. QED
    BY <2>1, <2>2
<1>3. IsCatalog(all)
  BY <1>1, <1>2 DEF IsCatalog
<1>4. QED
  BY <1>3 DEF all

-----------------------------------------------------------------------------
(* What a step does to names, to histories and to the whole invariant. *)

(* A write that makes and renames no row of configuration keeps names unique. *)
LEMMA NamesKept ==
    ASSUME NEW rw, NEW rows, UniqueNames(rw), DOMAIN rw \subseteq Key, DOMAIN rows \subseteq Key,
           \A k \in DOMAIN rows : k[1] \in Config =>
              k \in DOMAIN rw /\ rows[k].name = rw[k].name
    PROVE  UniqueNames(Overlaid(rw, rows))
<1> DEFINE all == Overlaid(rw, rows)
<1>1. /\ DOMAIN all = DOMAIN rw \cup DOMAIN rows
      /\ \A k \in DOMAIN rows : all[k] = rows[k]
      /\ \A k \in DOMAIN rw : k \notin DOMAIN rows => all[k] = rw[k]
  BY OverlaidIs
<1> HIDE DEF all
<1>2. ASSUME NEW k \in DOMAIN all, k[1] \in Config
      PROVE  k \in DOMAIN rw /\ all[k].name = rw[k].name
  BY <1>1, <1>2
<1>3. ASSUME NEW k \in DOMAIN all \cap Configured, NEW x \in DOMAIN all \ {k}, x[1] = k[1]
      PROVE  all[x].name # all[k].name
  <2>1. k[1] \in Config
    BY KeyIs, KeysAre
  <2>2. /\ k \in DOMAIN rw \cap Configured /\ x \in DOMAIN rw \ {k}
        /\ all[k].name = rw[k].name /\ all[x].name = rw[x].name
    BY <1>2, <1>3, <2>1
  <2>3. QED
    BY <1>3, <2>2 DEF UniqueNames
<1>4. UniqueNames(all)
  BY <1>3 DEF UniqueNames
<1>5. QED
  BY <1>4 DEF all

(* The versions of recipe r in the rows, and those that one is made from. *)
VersionsOf(rows, r) == {v \in IdsIn(rows, "recipe_version") : rows[RV(v)].of = r}
BasesOf(rows, r) == {rows[RV(v)].base : v \in VersionsOf(rows, r)} \ {None}
IsLine(rows, r) ==
    /\ IsFiniteSet(VersionsOf(rows, r)) /\ BasesOf(rows, r) \subseteq VersionsOf(rows, r)
    /\ Cardinality(BasesOf(rows, r)) = Cardinality(VersionsOf(rows, r)) - 1
    /\ VersionsOf(rows, r) \ BasesOf(rows, r) = {rows[RE(r)].current}

LEMMA LinearIs ==
    ASSUME NEW rows
    PROVE  Linear(rows) <=> \A r \in IdsIn(rows, "recipe") : IsLine(rows, r)
  BY DEF Linear, IsLine, BasesOf, VersionsOf

(* A write that makes no recipe version and moves no current one. *)
LEMMA LinearKept ==
    ASSUME NEW rw, NEW rows, Linear(rw), DOMAIN rw \subseteq Key, DOMAIN rows \subseteq Key,
           \A k \in DOMAIN rows :
              /\ k[1] # "recipe_version"
              /\ k[1] = "recipe" => k \in DOMAIN rw /\ rows[k].current = rw[k].current
    PROVE  Linear(Overlaid(rw, rows))
<1> DEFINE all == Overlaid(rw, rows)
<1>1. /\ DOMAIN all = DOMAIN rw \cup DOMAIN rows
      /\ \A k \in DOMAIN rows : all[k] = rows[k]
      /\ \A k \in DOMAIN rw : k \notin DOMAIN rows => all[k] = rw[k]
  BY OverlaidIs
<1> HIDE DEF all
<1>2. /\ \A x : x \in IdsIn(all, "recipe") <=> RE(x) \in DOMAIN all
      /\ \A x : x \in IdsIn(all, "recipe_version") <=> RV(x) \in DOMAIN all
  BY <1>1, IdsAre
<1>3. /\ \A x : x \in IdsIn(rw, "recipe") <=> RE(x) \in DOMAIN rw
      /\ \A x : x \in IdsIn(rw, "recipe_version") <=> RV(x) \in DOMAIN rw
  BY IdsAre
<1>4. \A v : /\ v \in IdsIn(all, "recipe_version") <=> v \in IdsIn(rw, "recipe_version")
             /\ v \in IdsIn(rw, "recipe_version") => all[RV(v)] = rw[RV(v)]
  <2>1. \A v : RV(v) \notin DOMAIN rows
    BY KeysAre
  <2>2. QED
    BY <1>1, <1>2, <1>3, <2>1
<1>5. ASSUME NEW r \in IdsIn(all, "recipe")
      PROVE  IsLine(all, r)
  <2>1. VersionsOf(all, r) = VersionsOf(rw, r)
    BY <1>4 DEF VersionsOf
  <2>2. BasesOf(all, r) = BasesOf(rw, r)
    BY <1>4, <2>1 DEF BasesOf, VersionsOf
  <2>3. RE(r) \in DOMAIN rw /\ all[RE(r)].current = rw[RE(r)].current
    BY <1>1, <1>2, KeysAre
  <2>4. IsLine(rw, r)
    BY <1>3, <2>3, LinearIs
  <2>5. QED
    BY <2>1, <2>2, <2>3, <2>4 DEF IsLine
<1>6. Linear(all)
  BY <1>5, LinearIs
<1>7. QED
  BY <1>6 DEF all

LEMMA RecordsAre ==
    ASSUME NEW q, NEW base, NEW lines
    PROVE  LET rows == RecipeRecords(q, base, lines)
           IN  /\ DOMAIN rows = {RE(q.recipe), RV(q.version)}
               /\ rows[RE(q.recipe)] = [current |-> q.version, retired |-> FALSE]
               /\ rows[RV(q.version)] = RecipeVersionRow(q, base, lines)
<1>1. RE(q.recipe) # RV(q.version)
  BY KeysAre
<1> DEFINE re == Only(RE(q.recipe), [current |-> q.version, retired |-> FALSE])
           rv == Only(RV(q.version), RecipeVersionRow(q, base, lines))
<1>2. /\ DOMAIN re = {RE(q.recipe)}
      /\ re[RE(q.recipe)] = [current |-> q.version, retired |-> FALSE]
      /\ DOMAIN rv = {RV(q.version)} /\ rv[RV(q.version)] = RecipeVersionRow(q, base, lines)
  BY OnlyIs
<1> HIDE DEF re, rv
<1>3. /\ DOMAIN Overlaid(re, rv) = DOMAIN re \cup DOMAIN rv
      /\ \A x \in DOMAIN rv : Overlaid(re, rv)[x] = rv[x]
      /\ \A x \in DOMAIN re : x \notin DOMAIN rv => Overlaid(re, rv)[x] = re[x]
  BY OverlaidIs
<1>4. RecipeRecords(q, base, lines) = Overlaid(re, rv)
  BY DEF RecipeRecords, re, rv
<1>5. QED
  BY <1>1, <1>2, <1>3, <1>4

(* A version made from the current one, or the first of a new recipe. *)
LEMMA LinearGrows ==
    ASSUME NEW rw, Linear(rw), IsCatalog(rw), NEW q, NEW base, NEW lines,
           q.recipe \in Recipe, q.version \in Server, RV(q.version) \notin DOMAIN rw,
           IF RE(q.recipe) \in DOMAIN rw THEN rw[RE(q.recipe)].current = base ELSE base = None
    PROVE  Linear(Overlaid(rw, RecipeRecords(q, base, lines)))
<1> DEFINE rows == RecipeRecords(q, base, lines)
           all == Overlaid(rw, rows)
           v == q.version
<1>1. /\ DOMAIN rows = {RE(q.recipe), RV(v)}
      /\ rows[RE(q.recipe)].current = v
      /\ rows[RV(v)].of = q.recipe /\ rows[RV(v)].base = base
  <2>1. /\ DOMAIN rows = {RE(q.recipe), RV(v)}
        /\ rows[RE(q.recipe)] = [current |-> v, retired |-> FALSE]
        /\ rows[RV(v)] = RecipeVersionRow(q, base, lines)
    BY RecordsAre
  <2>2. QED
    BY <2>1 DEF RecipeVersionRow
<1> HIDE DEF rows
<1>2. /\ DOMAIN all = DOMAIN rw \cup DOMAIN rows
      /\ \A k \in DOMAIN rows : all[k] = rows[k]
      /\ \A k \in DOMAIN rw : k \notin DOMAIN rows => all[k] = rw[k]
  BY OverlaidIs
<1> HIDE DEF all
<1>3. DOMAIN rw \subseteq Key /\ DOMAIN all \subseteq Key
  BY <1>1, <1>2, KeysAre DEF IsCatalog
<1>4. /\ \A x : x \in IdsIn(all, "recipe") <=> RE(x) \in DOMAIN all
      /\ \A x : x \in IdsIn(all, "recipe_version") <=> RV(x) \in DOMAIN all
      /\ \A x : x \in IdsIn(rw, "recipe") <=> RE(x) \in DOMAIN rw
      /\ \A x : x \in IdsIn(rw, "recipe_version") <=> RV(x) \in DOMAIN rw
  BY <1>3, IdsAre
<1>5. \A x, y : /\ RE(x) = RE(y) => x = y
                /\ RV(x) = RV(y) => x = y
                /\ RE(x) # RV(y)
  BY KeysAre
<1>6. /\ IdsIn(all, "recipe_version") = IdsIn(rw, "recipe_version") \cup {v}
      /\ v \notin IdsIn(rw, "recipe_version")
      /\ \A x \in IdsIn(rw, "recipe_version") : all[RV(x)] = rw[RV(x)]
      /\ all[RV(v)].of = q.recipe /\ all[RV(v)].base = base
      /\ all[RE(q.recipe)].current = v
  BY <1>1, <1>2, <1>4, <1>5
<1>7. ASSUME NEW r \in IdsIn(all, "recipe"), r # q.recipe
      PROVE  IsLine(all, r)
  <2>1. VersionsOf(all, r) = VersionsOf(rw, r)
    BY <1>6, <1>7 DEF VersionsOf
  <2>2. BasesOf(all, r) = BasesOf(rw, r)
    BY <1>6, <2>1 DEF BasesOf, VersionsOf
  <2>3. RE(r) \in DOMAIN rw /\ all[RE(r)] = rw[RE(r)]
    BY <1>1, <1>2, <1>4, <1>5, <1>7
  <2>4. IsLine(rw, r)
    BY <1>4, <2>3, LinearIs
  <2>5. QED
    BY <2>1, <2>2, <2>3, <2>4 DEF IsLine
<1>8. /\ VersionsOf(all, q.recipe) = VersionsOf(rw, q.recipe) \cup {v}
      /\ v \notin VersionsOf(rw, q.recipe)
  BY <1>6 DEF VersionsOf
<1>9. BasesOf(all, q.recipe) = BasesOf(rw, q.recipe) \cup ({base} \ {None})
  BY <1>6, <1>8 DEF BasesOf, VersionsOf
<1>10. CASE RE(q.recipe) \notin DOMAIN rw
  <2>1. base = None
    BY <1>10
  <2>2. VersionsOf(rw, q.recipe) = {}
    <3>1. ASSUME NEW x \in VersionsOf(rw, q.recipe)
          PROVE  FALSE
      <4>1. RV(x) \in DOMAIN rw /\ rw[RV(x)].of = q.recipe
        BY <1>4, <3>1 DEF VersionsOf
      <4>2. RE(rw[RV(x)].of) \in DOMAIN rw
        BY <4>1, RowIs, KeysAre
      <4>3. QED
        BY <1>10, <4>1, <4>2
    <3>2. QED
      BY <3>1
  <2>3. BasesOf(all, q.recipe) = {} /\ VersionsOf(all, q.recipe) = {v}
    BY <1>8, <1>9, <2>1, <2>2 DEF BasesOf
  <2>4. QED
    <3>1. Cardinality({}) = 0 /\ Cardinality({v}) = 1 /\ IsFiniteSet({v})
      BY FS_EmptySet, FS_Singleton
    <3>2. Cardinality(BasesOf(all, q.recipe)) = Cardinality(VersionsOf(all, q.recipe)) - 1
      BY <2>3, <3>1
    <3>3. IsLine(all, q.recipe)
      BY <1>6, <2>3, <3>1, <3>2 DEF IsLine
    <3>4. QED
      <4>1. Linear(all)
        BY <1>7, <3>3, LinearIs
      <4>2. QED
        BY <4>1 DEF all, rows
<1>11. CASE RE(q.recipe) \in DOMAIN rw
  <2> DEFINE versions == VersionsOf(rw, q.recipe)
             bases == BasesOf(rw, q.recipe)
  <2>1. IsLine(rw, q.recipe)
    BY <1>4, <1>11, LinearIs
  <2>2. rw[RE(q.recipe)].current = base
    BY <1>11
  <2>3. base # None
    BY <1>11, <2>2, RowIs, KeysAre, IdentityAssumption DEF RecipeRow
  <2>4. /\ IsFiniteSet(versions) /\ bases \subseteq versions
        /\ Cardinality(bases) = Cardinality(versions) - 1
        /\ base \in versions /\ base \notin bases /\ versions \ bases = {base}
    BY <2>1, <2>2 DEF IsLine
  <2>5. VersionsOf(all, q.recipe) = versions \cup {v} /\ v \notin versions
    BY <1>8
  <2>6. BasesOf(all, q.recipe) = bases \cup {base}
    BY <1>9, <2>3
  <2> HIDE DEF versions, bases
  <2>7. IsFiniteSet(bases)
    BY <2>4, FS_Subset
  <2>8. /\ IsFiniteSet(versions \cup {v})
        /\ Cardinality(versions \cup {v}) = Cardinality(versions) + 1
    BY <2>4, <2>5, FS_AddElement
  <2>9. Cardinality(bases \cup {base}) = Cardinality(bases) + 1
    BY <2>4, <2>7, FS_AddElement
  <2>10. Cardinality(bases) \in Nat /\ Cardinality(versions) \in Nat
    BY <2>4, <2>7, FS_CardinalityType
  <2>11. Cardinality(bases \cup {base}) = Cardinality(versions \cup {v}) - 1
    BY <2>4, <2>8, <2>9, <2>10
  <2>12. /\ bases \cup {base} \subseteq versions \cup {v}
         /\ (versions \cup {v}) \ (bases \cup {base}) = {v}
    BY <2>4, <2>5
  <2>13. IsLine(all, q.recipe)
    BY <1>6, <2>5, <2>6, <2>8, <2>11, <2>12 DEF IsLine
  <2>14. Linear(all)
    BY <1>7, <2>13, LinearIs
  <2>15. QED
    BY <2>14 DEF all, rows
<1>12. QED
  BY <1>10, <1>11

(* No field of a row that is not there has a clock. *)
LEMMA AbsentHasNoClock ==
    ASSUME IInv, NEW f, f[1] \notin DOMAIN row
    PROVE  f \notin DOMAIN clock
<1>1. Writes(f) = {}
  BY DEF IInv, Shaped, Writes
<1>2. Remembers(clock, request, f, Writes(f))
  BY DEF IInv, ClocksRemember
<1>3. QED
  BY <1>1, <1>2 DEF Remembers

(* What an applied command writes: rows with fields whose clocks it wins, and    *)
(* whose other fields with clocks keep their values.                         *)
Honours(c, q, rows, won) ==
    /\ \A f : f \in won <=> AimsAt(c, q, f) /\ Wins(f, StampOf(c, q))
    /\ \A f : AimsAt(c, q, f) => f[1] \in DOMAIN rows
    /\ \A k \in DOMAIN rows : \A x \in Columns(k) :
          IF <<k, x>> \in won THEN Holds(rows[k][x], x, c, q)
          ELSE <<k, x>> \in DOMAIN clock => rows[k][x] = row[k][x]
Belongs(c, rows) ==
    /\ DOMAIN rows \subseteq Key
    /\ \A k \in DOMAIN rows : /\ IsRow(k, rows[k])
                              /\ References(k, rows[k]) \subseteq DOMAIN row \cup DOMAIN rows
                              /\ k[2] \in Copied => k \in DOMAIN row \/ k[2][1] = c

LEMMA BelongsIs ==
    ASSUME NEW c, NEW rows, Belongs(c, rows)
    PROVE  /\ DOMAIN rows \subseteq Key
           /\ \A k \in DOMAIN rows :
                 IsRow(k, rows[k]) /\ References(k, rows[k]) \subseteq DOMAIN row \cup DOMAIN rows
           /\ \A k \in DOMAIN rows : k[2] \in Copied => k \in DOMAIN row \/ k[2][1] = c
  BY DEF Belongs

LEMMA CommitStep ==
    ASSUME IInv, NEW c \in Command, Fresh(c), NEW q, q.time \in Nat,
           NEW outcome \in {"accepted", "partially_superseded"}, NEW rows, NEW won,
           Commit(c, q, outcome, rows, won), UNCHANGED scene,
           q.kind = "configure" => q.at \in Configured,
           q.kind = "copy_ingredient" => \A k \in DOMAIN rows : k[2] \in Copied,
           Belongs(c, rows), Honours(c, q, rows, won),
           UniqueNames(Overlaid(row, rows)), Linear(Overlaid(row, rows))
    PROVE  IInv'
<1>1. row' = Overlaid(row, rows) /\ other' = other /\ Conclude(c, q, outcome, won, rows)
  BY DEF Commit
<1>2. /\ Logs(c, q, won) /\ aborted' = aborted
      /\ retained' \in [Command -> Outcome \cup {"none"}] /\ DOMAIN request' = Command
  BY <1>1, ConcludeLogs
<1>3. /\ c \in Command \ Applied /\ Applied' = Applied \cup {c} /\ request'[c] = q
      /\ \A d \in Applied : request'[d] = request[d]
      /\ DOMAIN clock' = DOMAIN clock \cup won
      /\ \A f \in won : clock'[f] = StampOf(c, q)
      /\ \A f \in DOMAIN clock : f \notin won => clock'[f] = clock[f]
  BY <1>2 DEF Logs
<1>4. /\ DOMAIN row' = DOMAIN row \cup DOMAIN rows
      /\ \A k \in DOMAIN rows : row'[k] = rows[k]
      /\ \A k \in DOMAIN row : k \notin DOMAIN rows => row'[k] = row[k]
  <2>1. /\ DOMAIN Overlaid(row, rows) = DOMAIN row \cup DOMAIN rows
        /\ \A k \in DOMAIN rows : Overlaid(row, rows)[k] = rows[k]
        /\ \A k \in DOMAIN row : k \notin DOMAIN rows => Overlaid(row, rows)[k] = row[k]
    BY OverlaidIs
  <2>2. QED
    BY <1>1, <2>1
<1>5. IsCatalog(row') /\ UniqueNames(row') /\ Linear(row')
  <2>1. IsCatalog(row)
    BY DEF IInv, TypeOK
  <2>2. IsCatalog(Overlaid(row, rows))
    <3>1. /\ DOMAIN rows \subseteq Key
          /\ \A k \in DOMAIN rows :
                IsRow(k, rows[k]) /\ References(k, rows[k]) \subseteq DOMAIN row \cup DOMAIN rows
      BY BelongsIs
    <3>2. QED
      BY <2>1, <3>1, OverlaidCatalog
  <2>3. QED
    BY <1>1, <2>2
<1>6. StampOf(c, q) \in Stamp /\ StampOf(c, q)[2] = c
  BY StampTypes
<1>7. TypeOK'
  <2>1. \A f \in DOMAIN clock' : clock'[f] \in Stamp
    BY <1>3, <1>6 DEF IInv, TypeOK
  <2>2. QED
    BY <1>1, <1>2, <1>5, <2>1 DEF IInv, TypeOK
<1>8. Shaped'
  <2>1. /\ scene'.commands \subseteq Command /\ scene'.sold \subseteq Unit
        /\ \A lines \in scene'.lines : IsLines(lines)
    BY DEF IInv, Shaped
  <2>2. \A d \in Applied' : request'[d].time \in Nat
    BY <1>3 DEF IInv, Shaped
  <2>3. \A d \in Applied' : \A f : AimsAt(d, request'[d], f) => f[1] \in DOMAIN row'
    BY <1>3, <1>4 DEF IInv, Shaped, Honours
  <2>4. \A k \in DOMAIN row' : k[2] \in Copied => k[2][1] \in Applied'
    <3>1. \A k \in DOMAIN row : k[2] \in Copied => k[2][1] \in Applied
      BY DEF IInv, Shaped
    <3>2. \A k \in DOMAIN rows : k[2] \in Copied => k \in DOMAIN row \/ k[2][1] = c
      BY BelongsIs
    <3>3. QED
      BY <1>3, <1>4, <3>1, <3>2
  <2>5. \A d \in Applied' : request'[d].kind = "copy_ingredient" =>
           \A f : AimsAt(d, request'[d], f) => f[1][2] \in Copied
    BY <1>3 DEF IInv, Shaped, Honours
  <2>6. \A d \in Applied' : request'[d].kind = "configure" => request'[d].at \in Configured
    BY <1>3 DEF IInv, Shaped
  <2>7. QED
    BY <1>2, <2>1, <2>2, <2>3, <2>4, <2>5, <2>6
    DEF Shaped, AimsAt, CopiedClocks, NewTagsOf, IsLines
<1>9. ClocksRemember'
  BY <1>2, ClocksStep DEF IInv, Honours
<1>10. FieldsHold'
  <2>1. ASSUME NEW k \in DOMAIN row', NEW x \in Columns(k), <<k, x>> \in DOMAIN clock'
        PROVE  Holds(row'[k][x], x, clock'[<<k, x>>][2], request'[clock'[<<k, x>>][2]])
    <3>1. CASE <<k, x>> \in won
      <4>1. k \in DOMAIN rows
        <5>1. AimsAt(c, q, <<k, x>>)
          BY <3>1 DEF Honours
        <5>2. <<k, x>>[1] \in DOMAIN rows
          BY <5>1 DEF Honours
        <5>3. QED
          BY <5>2
      <4>2. Holds(rows[k][x], x, c, q)
        BY <3>1, <4>1 DEF Honours
      <4>3. clock'[<<k, x>>] = StampOf(c, q) /\ row'[k] = rows[k]
        BY <1>3, <1>4, <3>1, <4>1
      <4>4. QED
        BY <1>3, <1>6, <4>2, <4>3
    <3>2. CASE <<k, x>> \notin won
      <4> DEFINE w == clock[<<k, x>>][2]
      <4>1. <<k, x>> \in DOMAIN clock /\ clock'[<<k, x>>] = clock[<<k, x>>]
        BY <1>3, <2>1, <3>2
      <4>2. w \in Applied
        BY <4>1 DEF IInv, ClocksRemember, Remembers, Writes
      <4>3. k \in DOMAIN row
        <5>1. <<k, x>>[1] \in DOMAIN row
          BY <4>1, AbsentHasNoClock
        <5>2. QED
          BY <5>1
      <4>4. Holds(row[k][x], x, w, request[w])
        BY <4>1, <4>3 DEF IInv, FieldsHold
      <4>5. row'[k][x] = row[k][x]
        <5>1. CASE k \in DOMAIN rows
          BY <1>4, <3>2, <4>1, <5>1 DEF Honours
        <5>2. CASE k \notin DOMAIN rows
          BY <1>4, <4>3, <5>2
        <5>3. QED
          BY <5>1, <5>2
      <4>6. request'[w] = request[w]
        BY <1>3, <4>2
      <4>7. QED
        BY <4>1, <4>4, <4>5, <4>6
    <3>3. QED
      BY <3>1, <3>2
  <2>2. QED
    BY <2>1 DEF FieldsHold, Columns, Holds
<1>11. QED
  <2>1. UniqueNames(row)' /\ Linear(row)'
    BY <1>5
  <2>2. QED
    BY <1>7, <1>8, <1>9, <1>10, <2>1 DEF IInv

(* A step that leaves the rows, the requests and the clocks. *)
LEMMA QuietStep ==
    ASSUME IInv, UNCHANGED <<request, clock, row, scene>>, Applied' = Applied,
           retained' \in [Command -> Outcome \cup {"none"}], aborted' \subseteq Command,
           other' \in DOMAIN Others
    PROVE  IInv'
<1>1. TypeOK'
  BY DEF IInv, TypeOK
<1>2. Shaped'
  BY DEF IInv, Shaped
<1>3. ClocksRemember'
  <2>1. \A f : Writes(f)' = Writes(f)
    BY DEF Writes
  <2>2. QED
    BY <2>1 DEF IInv, ClocksRemember
<1>4. FieldsHold'
  BY DEF IInv, FieldsHold
<1>5. (UniqueNames(row) /\ Linear(row))'
  BY DEF IInv
<1>6. QED
  BY <1>1, <1>2, <1>3, <1>4, <1>5 DEF IInv

LEMMA RefusedStep ==
    ASSUME IInv, NEW c \in Command, Fresh(c), Refuse(c) \/ Break(c), UNCHANGED scene
    PROVE  IInv'
<1>1. /\ retained \in [Command -> Outcome \cup {"none"}] /\ aborted \subseteq Command
      /\ other \in DOMAIN Others
  BY DEF IInv, TypeOK
<1>2. CASE Refuse(c)
  <2>1. /\ retained' = [retained EXCEPT ![c] = "rejected"]
        /\ UNCHANGED <<request, clock, aborted, row, other>>
    BY <1>2 DEF Refuse, Reject
  <2>2. Applied' = Applied
    BY <1>1, <2>1 DEF Applied, Fresh
  <2>3. retained' \in [Command -> Outcome \cup {"none"}]
    BY <1>1, <2>1 DEF Outcome
  <2>4. QED
    BY <1>1, <2>1, <2>2, <2>3, QuietStep
<1>3. CASE Break(c)
  <2>1. aborted' = aborted \cup {c} /\ UNCHANGED <<retained, request, clock, row, other>>
    BY <1>3 DEF Break, Abort
  <2>2. Applied' = Applied
    BY <2>1 DEF Applied
  <2>3. QED
    BY <1>1, <2>1, <2>2, QuietStep
<1>4. QED
  BY <1>2, <1>3

-----------------------------------------------------------------------------
(* The configuration tables and the lifecycle of roots. *)

LEMMA IsRowIs ==
    ASSUME NEW k, NEW r
    PROVE  /\ k[1] = "ingredient" =>
                 (IsRow(k, r) <=> r \in IngredientRow) /\ References(k, r) = {IV(r.current)}
           /\ k[1] = "price" => (IsRow(k, r) <=> r \in PriceRow) /\ References(k, r) = {}
           /\ k[1] = "recipe" =>
                 (IsRow(k, r) <=> r \in RecipeRow) /\ References(k, r) = {RV(r.current)}
           /\ k[1] = "ingredient_version" =>
                 /\ IsRow(k, r) <=> r \in IngredientVersionRow
                 /\ References(k, r) = {I(r.of)} \cup {DT(t) : t \in r.tags}
           /\ k[1] = "recipe_version" =>
                 /\ IsRow(k, r) <=> IsRecipeVersion(r)
                 /\ References(k, r) =
                       {RE(r.of)} \cup {IV(r.lines[l].version) : l \in DOMAIN r.lines}
           /\ k[1] \in Config => (IsRow(k, r) <=> r \in ConfigRow) /\ References(k, r) = {}
<1>1. /\ k[1] = "ingredient" =>
            (IsRow(k, r) <=> r \in IngredientRow) /\ References(k, r) = {IV(r.current)}
      /\ k[1] = "price" => (IsRow(k, r) <=> r \in PriceRow) /\ References(k, r) = {}
      /\ k[1] = "recipe" =>
            (IsRow(k, r) <=> r \in RecipeRow) /\ References(k, r) = {RV(r.current)}
  BY DEF IsRow, References
<1>2. k[1] = "ingredient_version" =>
         /\ IsRow(k, r) <=> r \in IngredientVersionRow
         /\ References(k, r) = {I(r.of)} \cup {DT(t) : t \in r.tags}
  BY DEF IsRow, References
<1>3. k[1] = "recipe_version" =>
         /\ IsRow(k, r) <=> IsRecipeVersion(r)
         /\ References(k, r) = {RE(r.of)} \cup {IV(r.lines[l].version) : l \in DOMAIN r.lines}
  BY DEF IsRow, References
<1>4. k[1] \in Config => (IsRow(k, r) <=> r \in ConfigRow) /\ References(k, r) = {}
  BY DEF IsRow, References, Config
<1>5. QED
  BY <1>1, <1>2, <1>3, <1>4

LEMMA IInvIs ==
    ASSUME IInv
    PROVE  /\ IsCatalog(row) /\ DOMAIN row \subseteq Key
           /\ UniqueNames(row) /\ Linear(row)
  BY DEF IInv, TypeOK, IsCatalog

(* One row of configuration gets a name that no other row of its table has. *)
LEMMA NamesChange ==
    ASSUME NEW rw, UniqueNames(rw), NEW at \in Configured, NEW r,
           \A x \in DOMAIN rw \ {at} : x[1] = at[1] => rw[x].name # r.name
    PROVE  UniqueNames(Overlaid(rw, Only(at, r)))
<1> DEFINE all == Overlaid(rw, Only(at, r))
<1>1. /\ DOMAIN all = DOMAIN rw \cup {at} /\ all[at] = r
      /\ \A k \in DOMAIN rw : k # at => all[k] = rw[k]
  BY DEF Overlaid, Only
<1> HIDE DEF all
<1>2. ASSUME NEW k \in DOMAIN all \cap Configured, NEW x \in DOMAIN all \ {k}, x[1] = k[1]
      PROVE  all[x].name # all[k].name
  <2>1. CASE k = at
    BY <1>1, <1>2, <2>1
  <2>2. CASE x = at
    BY <1>1, <1>2, <2>2
  <2>3. CASE k # at /\ x # at
    BY <1>1, <1>2, <2>3 DEF UniqueNames
  <2>4. QED
    BY <2>1, <2>2, <2>3
<1>3. UniqueNames(all)
  BY <1>2 DEF UniqueNames
<1>4. QED
  BY <1>3 DEF all

LEMMA LinearKeptByOne ==
    ASSUME IInv, NEW at \in Key, NEW r, at[1] # "recipe_version",
           at[1] = "recipe" => at \in DOMAIN row /\ r.current = row[at].current
    PROVE  Linear(Overlaid(row, Only(at, r)))
<1> DEFINE rows == Only(at, r)
<1>1. DOMAIN rows = {at} /\ rows[at] = r
  BY OnlyIs
<1> HIDE DEF rows
<1>2. /\ DOMAIN rows \subseteq Key
      /\ \A k \in DOMAIN rows :
            /\ k[1] # "recipe_version"
            /\ k[1] = "recipe" => k \in DOMAIN row /\ rows[k].current = row[k].current
  BY <1>1
<1>3. Linear(Overlaid(row, rows))
  BY <1>2, LinearKept, IInvIs
<1>4. QED
  BY <1>3 DEF rows

LEMMA OneBelongs ==
    ASSUME NEW c, NEW at \in Key, NEW r, IsRow(at, r), References(at, r) \subseteq DOMAIN row,
           at[2] \in Copied => at \in DOMAIN row
    PROVE  Belongs(c, Only(at, r))
<1>1. DOMAIN Only(at, r) = {at} /\ Only(at, r)[at] = r
  BY OnlyIs
<1>2. QED
  BY <1>1 DEF Belongs

LEMMA ConfigureStep ==
    ASSUME IInv, NEW c \in Command, Fresh(c), NEW q \in ConfigureRequests, Configure(c, q),
           UNCHANGED scene
    PROVE  IInv'
<1>1. CASE Refuse(c)
  BY <1>1, RefusedStep
<1>2. CASE ~Refuse(c)
  <2> DEFINE r == [name |-> q.name, detail |-> q.detail, retired |-> FALSE]
             won == {<<q.at, f>> : f \in {"name", "detail", "retired"}}
  <2>1. /\ q.kind = "configure" /\ q.time \in Nat /\ q.at \in Configured
        /\ q.name \in Names /\ q.detail \in Details
    BY WallTimesAssumption DEF ConfigureRequests
  <2>2. /\ ~ConfigureRefused(q) /\ Commit(c, q, "accepted", Only(q.at, r), won)
    BY <1>2 DEF Configure
  <2>3. q.at \notin DOMAIN row /\ ~Taken(q.at, q.name)
    BY <2>2 DEF ConfigureRefused, Has
  <2>4. q.at \in Key /\ q.at[1] \in Config /\ q.at[2] \notin Copied
    BY <2>1, KeysAre, KeyIs
  <2>5. r \in ConfigRow /\ r.name = q.name /\ r.detail = q.detail /\ r.retired = FALSE
    BY <2>1 DEF ConfigRow
  <2>6. /\ <<q.at, "name">> \in won /\ <<q.at, "detail">> \in won /\ <<q.at, "retired">> \in won
        /\ \A f \in won : f \in {<<q.at, "name">>, <<q.at, "detail">>, <<q.at, "retired">>}
    OBVIOUS
  <2>7. Only(q.at, r)[q.at] = r /\ DOMAIN Only(q.at, r) = {q.at}
    BY OnlyIs
  <2> HIDE DEF r, won
  <2>8. Belongs(c, Only(q.at, r))
    BY <2>4, <2>5, IsRowIs, OneBelongs
  <2>9. UniqueNames(Overlaid(row, Only(q.at, r)))
    <3>1. \A x \in DOMAIN row \ {q.at} : x[1] = q.at[1] => row[x].name # r.name
      BY <2>3, <2>5 DEF Taken, Rows
    <3>2. QED
      BY <2>1, <3>1, NamesChange, IInvIs
  <2>10. Linear(Overlaid(row, Only(q.at, r)))
    BY <2>4, LinearKeptByOne DEF Config
  <2>11. Honours(c, q, Only(q.at, r), won)
    <3>1. \A f : AimsAt(c, q, f) <=> f \in won
      BY <2>1, <2>6 DEF AimsAt, Lifecycles
    <3>2. \A f \in won : f[1] = q.at
      BY <2>6
    <3>3. \A f \in won : Wins(f, StampOf(c, q))
      BY <2>3, <3>2, AbsentHasNoClock DEF Wins
    <3>4. \A x \in Columns(q.at) : <<q.at, x>> \in won /\ Holds(r[x], x, c, q)
      <4>1. Columns(q.at) = {"name", "detail", "retired"}
        BY <2>4 DEF Columns, Config
      <4>2. QED
        BY <4>1, <2>1, <2>5, <2>6 DEF Holds, Lifecycles
    <3>5. QED
      BY <2>7, <3>1, <3>2, <3>3, <3>4 DEF Honours
  <2>12. QED
    BY <2>1, <2>2, <2>8, <2>9, <2>10, <2>11, CommitStep
<1>3. QED
  BY <1>1, <1>2

LEMMA ReconfigureStep ==
    ASSUME IInv, NEW c \in Command, Fresh(c), NEW q \in ReconfigureRequests, Reconfigure(c, q),
           UNCHANGED scene
    PROVE  IInv'
<1>1. CASE Refuse(c)
  BY <1>1, RefusedStep
<1>2. CASE ~Refuse(c)
  <2> DEFINE won == {w \in {<<q.at, f>> : f \in {"name", "detail"}} : Wins(w, StampOf(c, q))}
             after == [f \in DOMAIN row[q.at] |->
                          IF <<q.at, f>> \in won THEN q[f] ELSE row[q.at][f]]
             outcome == IF won = {} THEN "partially_superseded" ELSE "accepted"
  <2>1. /\ q.kind = "reconfigure" /\ q.time \in Nat /\ q.at \in Configured
        /\ q.at \in DOMAIN row /\ q.name \in Names /\ q.detail \in Details
    BY WallTimesAssumption DEF ReconfigureRequests, Configurable
  <2>2. /\ ~ReconfigureRefused(q) /\ Commit(c, q, outcome, Only(q.at, after), won)
    BY <1>2 DEF Reconfigure
  <2>3. ~Taken(q.at, q.name)
    BY <2>2 DEF ReconfigureRefused
  <2>4. q.at \in Key /\ q.at[1] \in Config /\ q.at[2] \notin Copied
    BY <2>1, KeysAre, KeyIs
  <2>5. row[q.at] \in ConfigRow
    BY <2>1, <2>4, RowIs, IInvIs
  <2>6. /\ \A w \in won : w \in {<<q.at, "name">>, <<q.at, "detail">>}
        /\ \A w \in {<<q.at, "name">>, <<q.at, "detail">>} :
              w \in won <=> Wins(w, StampOf(c, q))
    OBVIOUS
  <2>7. <<q.at, "retired">> \notin won
    BY <2>6
  <2> HIDE DEF won
  <2>8. /\ after.name = IF <<q.at, "name">> \in won THEN q.name ELSE row[q.at].name
        /\ after.detail = IF <<q.at, "detail">> \in won THEN q.detail ELSE row[q.at].detail
        /\ after.retired = row[q.at].retired
        /\ DOMAIN after = {"name", "detail", "retired"}
        /\ after = [f \in DOMAIN after |-> after[f]]
    BY <2>5, <2>7 DEF ConfigRow
  <2>9. after \in ConfigRow
    <3> HIDE DEF after
    <3>1. QED
      BY <2>1, <2>5, <2>8 DEF ConfigRow
  <2>10. Only(q.at, after)[q.at] = after /\ DOMAIN Only(q.at, after) = {q.at}
    BY OnlyIs
  <2> HIDE DEF after
  <2>11. Belongs(c, Only(q.at, after))
    BY <2>4, <2>9, IsRowIs, OneBelongs
  <2>12. UniqueNames(Overlaid(row, Only(q.at, after)))
    <3>1. \A x \in DOMAIN row \ {q.at} : x[1] = q.at[1] => row[x].name # row[q.at].name
      BY <2>1, IInvIs DEF UniqueNames
    <3>2. \A x \in DOMAIN row \ {q.at} : x[1] = q.at[1] => row[x].name # after.name
      BY <2>3, <2>8, <3>1 DEF Taken, Rows
    <3>3. QED
      BY <2>1, <3>2, NamesChange, IInvIs
  <2>13. Linear(Overlaid(row, Only(q.at, after)))
    BY <2>4, LinearKeptByOne DEF Config
  <2>14. Honours(c, q, Only(q.at, after), won)
    <3>1. \A f : AimsAt(c, q, f) <=> f \in {<<q.at, "name">>, <<q.at, "detail">>}
      BY <2>1 DEF AimsAt, Lifecycles
    <3>2. \A f : f \in won <=> AimsAt(c, q, f) /\ Wins(f, StampOf(c, q))
      BY <2>6, <3>1
    <3>3. \A f : AimsAt(c, q, f) => f[1] = q.at
      BY <3>1
    <3>4. \A x \in Columns(q.at) : IF <<q.at, x>> \in won THEN Holds(after[x], x, c, q)
                                   ELSE after[x] = row[q.at][x]
      <4>1. Columns(q.at) = {"name", "detail", "retired"}
        BY <2>4 DEF Columns, Config
      <4>2. QED
        BY <4>1, <2>1, <2>7, <2>8 DEF Holds
    <3>5. QED
      BY <2>10, <3>2, <3>3, <3>4 DEF Honours
  <2>15. outcome \in {"accepted", "partially_superseded"}
    OBVIOUS
  <2> HIDE DEF outcome
  <2>16. QED
    BY <2>1, <2>2, <2>11, <2>12, <2>13, <2>14, <2>15, CommitStep
<1>3. QED
  BY <1>1, <1>2

LEMMA LifecycleStep ==
    ASSUME IInv, NEW c \in Command, Fresh(c), NEW q, q.kind \in Lifecycles, q.time \in Nat,
           q.at \in DOMAIN row, q.at[1] \in {"ingredient", "recipe"} \cup Config,
           q.value \in BOOLEAN, SetLifecycle(c, q), UNCHANGED scene
    PROVE  IInv'
<1>1. CASE Refuse(c)
  BY <1>1, RefusedStep
<1>2. CASE ~Refuse(c)
  <2> DEFINE won == {w \in {<<q.at, "retired">>} : Wins(w, StampOf(c, q))}
             after == [row[q.at] EXCEPT !.retired = IF won = {} THEN @ ELSE q.value]
             outcome == IF won = {} THEN "partially_superseded" ELSE "accepted"
  <2>1. Commit(c, q, outcome, Only(q.at, after), won)
    BY <1>2 DEF SetLifecycle
  <2>2. q.at \in Key /\ IsRow(q.at, row[q.at]) /\ References(q.at, row[q.at]) \subseteq DOMAIN row
    BY IInvIs DEF IsCatalog
  <2>3. \A w : w \in won <=> w = <<q.at, "retired">> /\ Wins(w, StampOf(c, q))
    OBVIOUS
  <2> HIDE DEF won
  <2>4. row[q.at] \in IngredientRow \cup RecipeRow \cup ConfigRow
    BY <2>2, IsRowIs
  <2>5. /\ after.retired = IF won = {} THEN row[q.at].retired ELSE q.value
        /\ row[q.at].retired \in BOOLEAN
        /\ \A x \in DOMAIN row[q.at] : x # "retired" => after[x] = row[q.at][x]
        /\ DOMAIN after = DOMAIN row[q.at]
    BY <2>4 DEF IngredientRow, RecipeRow, ConfigRow
  <2>6. /\ row[q.at] \in IngredientRow => after \in IngredientRow
        /\ row[q.at] \in RecipeRow => after \in RecipeRow
        /\ row[q.at] \in ConfigRow => after \in ConfigRow
    BY DEF IngredientRow, RecipeRow, ConfigRow
  <2>7. /\ row[q.at] \in IngredientRow => after.current = row[q.at].current
                                           /\ after.price = row[q.at].price
        /\ row[q.at] \in RecipeRow => after.current = row[q.at].current
        /\ row[q.at] \in ConfigRow => after.name = row[q.at].name
                                       /\ after.detail = row[q.at].detail
    BY DEF IngredientRow, RecipeRow, ConfigRow
  <2>8. Only(q.at, after)[q.at] = after /\ DOMAIN Only(q.at, after) = {q.at}
    BY OnlyIs
  <2> HIDE DEF after
  <2>9. IsRow(q.at, after) /\ References(q.at, after) \subseteq DOMAIN row
    BY <2>2, <2>6, <2>7, IsRowIs
  <2>10. Belongs(c, Only(q.at, after))
    BY <2>2, <2>9, OneBelongs
  <2>11. UniqueNames(Overlaid(row, Only(q.at, after)))
    <3>1. q.at[1] \in Config => after.name = row[q.at].name
      BY <2>2, <2>7, IsRowIs
    <3> DEFINE rows == Only(q.at, after)
    <3>2. DOMAIN rows = {q.at} /\ rows[q.at] = after
      BY <2>8
    <3> HIDE DEF rows
    <3>3. \A k \in DOMAIN rows : k[1] \in Config => k \in DOMAIN row /\ rows[k].name = row[k].name
      BY <3>1, <3>2
    <3>4. DOMAIN rows \subseteq Key
      BY <2>2, <3>2
    <3>5. UniqueNames(Overlaid(row, rows))
      BY <3>3, <3>4, IInvIs, NamesKept
    <3>6. QED
      BY <3>5 DEF rows
  <2>12. Linear(Overlaid(row, Only(q.at, after)))
    <3>1. q.at[1] # "recipe_version"
      BY DEF Config
    <3>2. q.at[1] = "recipe" => after.current = row[q.at].current
      BY <2>2, <2>7, IsRowIs
    <3>3. QED
      BY <2>2, <3>1, <3>2, LinearKeptByOne
  <2>13. Honours(c, q, Only(q.at, after), won)
    <3>1. \A f : AimsAt(c, q, f) <=> f = <<q.at, "retired">>
      BY DEF AimsAt, Lifecycles
    <3>2. \A f : f \in won <=> AimsAt(c, q, f) /\ Wins(f, StampOf(c, q))
      BY <2>3, <3>1
    <3>3. \A f : AimsAt(c, q, f) => f[1] = q.at
      BY <3>1
    <3>4. ASSUME NEW x \in Columns(q.at)
          PROVE  IF <<q.at, x>> \in won THEN Holds(after[x], x, c, q) ELSE after[x] = row[q.at][x]
      <4>1. CASE x = "retired"
        <5>1. CASE <<q.at, x>> \in won
          BY <2>5, <4>1, <5>1 DEF Holds
        <5>2. CASE <<q.at, x>> \notin won
          BY <2>3, <2>5, <4>1, <5>2
        <5>3. QED
          BY <5>1, <5>2
      <4>2. CASE x # "retired"
        <5>1. x \in DOMAIN row[q.at]
          <6>1. CASE q.at[1] = "ingredient"
            BY <2>2, <4>2, <6>1, IsRowIs DEF Columns, IngredientRow
          <6>2. CASE q.at[1] = "recipe"
            BY <4>2, <6>2 DEF Columns
          <6>3. CASE q.at[1] \in Config
            <7>1. row[q.at] \in ConfigRow
              BY <2>2, <6>3, IsRowIs
            <7>2. QED
              BY <7>1, <4>2, <6>3 DEF Columns, ConfigRow, Config
          <6>4. QED
            BY <6>1, <6>2, <6>3
        <5>2. <<q.at, x>> \notin won
          BY <2>3, <4>2
        <5>3. QED
          BY <2>5, <4>2, <5>1, <5>2
      <4>3. QED
        BY <4>1, <4>2
    <3>5. QED
      BY <2>8, <3>2, <3>3, <3>4 DEF Honours
  <2>14. outcome \in {"accepted", "partially_superseded"}
    OBVIOUS
  <2> HIDE DEF outcome
  <2>15. QED
    BY <2>1, <2>10, <2>11, <2>12, <2>13, <2>14, CommitStep DEF Lifecycles
<1>3. QED
  BY <1>1, <1>2

-----------------------------------------------------------------------------
(* Ingredients: their versions and prices. *)

(* Commands that contend for no clock. *)
Plain == {"create_ingredient", "create_recipe", "publish_recipe", "update_recipe", "copy_recipe"}

LEMMA PlainHonours ==
    ASSUME IInv, NEW c, NEW q, q.kind \in Plain, NEW rows,
           \A k \in DOMAIN rows \cap DOMAIN row : \A x \in Columns(k) : rows[k][x] = row[k][x]
    PROVE  Honours(c, q, rows, {})
<1>1. \A f : ~AimsAt(c, q, f)
  BY DEF AimsAt, Plain, Lifecycles
<1>2. ASSUME NEW k \in DOMAIN rows, NEW x \in Columns(k), <<k, x>> \in DOMAIN clock
      PROVE  rows[k][x] = row[k][x]
  <2>1. <<k, x>>[1] \in DOMAIN row
    BY <1>2, AbsentHasNoClock
  <2>2. QED
    BY <2>1
<1>3. QED
  BY <1>1, <1>2 DEF Honours

LEMMA NoConfigRows ==
    ASSUME IInv, NEW rows, DOMAIN rows \subseteq Key, \A k \in DOMAIN rows : k[1] \notin Config
    PROVE  UniqueNames(Overlaid(row, rows))
  BY NamesKept, IInvIs

LEMMA IdsOfRow ==
    ASSUME IInv
    PROVE  /\ \A i \in Ids("ingredient") : I(i) \in DOMAIN row /\ i \in Ingredient \cup Server
           /\ \A v \in Ids("ingredient_version") : IV(v) \in DOMAIN row /\ v \in Server
           /\ \A r \in Ids("recipe") : RE(r) \in DOMAIN row /\ r \in Recipe
           /\ \A v \in Ids("recipe_version") : RV(v) \in DOMAIN row /\ v \in Server
<1>1. DOMAIN row \subseteq Key
  BY IInvIs
<1>2. QED
  BY <1>1, IdsAre, KeyIs, KeysAre DEF Ids

LEMMA CreateIngredientStep ==
    ASSUME IInv, NEW c \in Command, Fresh(c), NEW q \in CreateIngredientRequests,
           CreateIngredient(c, q), UNCHANGED scene
    PROVE  IInv'
<1>1. CASE Refuse(c)
  BY <1>1, RefusedStep
<1>2. CASE ~Refuse(c)
  <2> DEFINE root == [current |-> q.version, price |-> q.price, retired |-> FALSE]
             price == [k \in {P(x) : x \in {q.price} \ {None}} |-> PriceOf(q.ingredient, None)]
             two == RootAnd(q, root, IV(q.version), VersionRow(q, None))
             rows == Overlaid(two, price)
  <2>1. /\ q.kind = "create_ingredient" /\ q.time \in Nat /\ q.ingredient \in Ingredient
        /\ q.version \in Version /\ q.name \in Names /\ q.unit \in scene.sold
        /\ q.tags \in Tagged /\ q.price \in Version \cup {None}
    BY HorizonAssumption DEF CreateIngredientRequests
  <2>2. /\ q.version \in Server /\ q.unit \in Unit /\ q.tags \in SUBSET Tag
        /\ q.price \in Server \cup {None}
        /\ q.ingredient \notin Copied /\ q.version \notin Copied
        /\ q.price # None => q.price \notin Copied
    BY <2>1, IdentityAssumption DEF IInv, Shaped
  <2>3. ~CreateIngredientRefused(q) /\ Commit(c, q, "accepted", rows, {})
    BY <1>2 DEF CreateIngredient
  <2>4. /\ I(q.ingredient) \notin DOMAIN row /\ IV(q.version) \notin DOMAIN row
        /\ q.price # None => P(q.price) \notin DOMAIN row
        /\ \A t \in q.tags : DT(t) \in DOMAIN row
    BY <2>3 DEF CreateIngredientRefused, ReferencesHold, Has, Live
  <2>5. I(q.ingredient) # IV(q.version) /\ \A x : P(x) \notin {I(q.ingredient), IV(q.version)}
    BY KeysAre
  <2>6. /\ DOMAIN two = {I(q.ingredient), IV(q.version)}
        /\ two[I(q.ingredient)] = root /\ two[IV(q.version)] = VersionRow(q, None)
    BY <2>5 DEF RootAnd, Overlaid, Only
  <2>7. /\ \A k \in DOMAIN price : k = P(q.price) /\ q.price # None
        /\ \A k \in DOMAIN price : price[k] = PriceOf(q.ingredient, None)
    OBVIOUS
  <2>8. /\ root \in IngredientRow /\ root.current = q.version
        /\ PriceOf(q.ingredient, None) \in PriceRow
        /\ VersionRow(q, None) \in IngredientVersionRow
        /\ VersionRow(q, None).of = q.ingredient /\ VersionRow(q, None).tags = q.tags
    BY <2>1, <2>2 DEF IngredientRow, PriceRow, PriceOf, VersionRow, IngredientVersionRow
  <2> HIDE DEF root, price, two
  <2>9. /\ DOMAIN rows = DOMAIN two \cup DOMAIN price
        /\ \A x \in DOMAIN price : rows[x] = price[x]
        /\ \A x \in DOMAIN two : x \notin DOMAIN price => rows[x] = two[x]
    BY OverlaidIs
  <2> HIDE DEF rows
  <2>10. /\ rows[I(q.ingredient)] = root /\ rows[IV(q.version)] = VersionRow(q, None)
         /\ {I(q.ingredient), IV(q.version)} \subseteq DOMAIN rows
         /\ \A k \in DOMAIN rows : \/ k = I(q.ingredient) \/ k = IV(q.version)
                                   \/ /\ k = P(q.price) /\ q.price # None
                                      /\ rows[k] = PriceOf(q.ingredient, None)
    BY <2>5, <2>6, <2>7, <2>9
  <2>11. DOMAIN rows \cap DOMAIN row = {}
    BY <2>4, <2>10
  <2>12. ASSUME NEW k \in DOMAIN rows
         PROVE  /\ k \in Key /\ k[2] \notin Copied /\ IsRow(k, rows[k])
                /\ References(k, rows[k]) \subseteq DOMAIN row \cup DOMAIN rows
                /\ k[1] \in {"ingredient", "ingredient_version", "price"}
    <3>1. CASE k = I(q.ingredient)
      <4>1. k \in Key /\ k[1] = "ingredient" /\ k[2] = q.ingredient
        BY <2>1, <3>1, KeysAre
      <4>2. IsRow(k, root) /\ References(k, root) = {IV(q.version)}
        BY <2>8, <4>1, IsRowIs
      <4>3. QED
        BY <2>2, <2>10, <3>1, <4>1, <4>2
    <3>2. CASE k = IV(q.version)
      <4>1. k \in Key /\ k[1] = "ingredient_version" /\ k[2] = q.version
        BY <2>2, <3>2, KeysAre
      <4>2. /\ IsRow(k, VersionRow(q, None))
            /\ References(k, VersionRow(q, None)) = {I(q.ingredient)} \cup {DT(t) : t \in q.tags}
        BY <2>8, <4>1, IsRowIs
      <4>3. QED
        BY <2>2, <2>4, <2>10, <3>2, <4>1, <4>2
    <3>3. CASE k = P(q.price) /\ q.price # None /\ rows[k] = PriceOf(q.ingredient, None)
      <4>1. k \in Key /\ k[1] = "price" /\ k[2] = q.price
        BY <2>2, <3>3, KeysAre
      <4>2. IsRow(k, rows[k]) /\ References(k, rows[k]) = {}
        BY <2>8, <3>3, <4>1, IsRowIs
      <4>3. QED
        BY <2>2, <3>3, <4>1, <4>2
    <3>4. QED
      BY <2>10, <3>1, <3>2, <3>3
  <2>13. Belongs(c, rows)
    BY <2>12 DEF Belongs
  <2>14. Honours(c, q, rows, {})
    BY <2>1, <2>11, PlainHonours DEF Plain
  <2>15. UniqueNames(Overlaid(row, rows))
    BY <2>12, NoConfigRows DEF Config
  <2>16. Linear(Overlaid(row, rows))
    BY <2>12, LinearKept, IInvIs
  <2>17. QED
    BY <2>1, <2>3, <2>13, <2>14, <2>15, <2>16, CommitStep
<1>3. QED
  BY <1>1, <1>2

(* A new root with a new row of a table without clocks that refers to it, or to   *)
(* nothing.                                                                  *)
LEMMA RootAndStep ==
    ASSUME IInv, NEW c \in Command, Fresh(c), NEW q, q.time \in Nat,
           I(q.ingredient) \in DOMAIN row, NEW root \in IngredientRow,
           root.retired = row[I(q.ingredient)].retired,
           NEW k \in Key, k[1] \in {"ingredient_version", "price"}, k[2] \notin Copied,
           k \notin DOMAIN row, NEW r, IsRow(k, r),
           References(k, r) \subseteq DOMAIN row \cup {k},
           IV(root.current) \in DOMAIN row \cup {k},
           NEW x \in {"price", "current"}, NEW won,
           q.kind \in {"publish_price", "publish_ingredient"},
           \A f : AimsAt(c, q, f) <=> f = <<I(q.ingredient), x>>,
           \A f : f \in won <=> AimsAt(c, q, f) /\ Wins(f, StampOf(c, q)),
           won # {} => Holds(root[x], x, c, q),
           \A y \in {"price", "current"} :
              (y = x /\ won # {}) \/ root[y] = row[I(q.ingredient)][y],
           NEW outcome \in {"accepted", "partially_superseded"},
           Commit(c, q, outcome, RootAnd(q, root, k, r), won), UNCHANGED scene
    PROVE  IInv'
<1> DEFINE i == I(q.ingredient)
           rows == RootAnd(q, root, k, r)
<1>1. i \in Key /\ i[1] = "ingredient" /\ i # k
  BY IInvIs, KeysAre
<1>2. DOMAIN rows = {i, k} /\ rows[i] = root /\ rows[k] = r
  BY <1>1 DEF RootAnd, Overlaid, Only
<1> HIDE DEF rows
<1>3. Belongs(c, rows)
  <2>1. IsRow(i, root) /\ References(i, root) = {IV(root.current)}
    BY <1>1, IsRowIs
  <2>2. QED
    BY <1>1, <1>2, <2>1 DEF Belongs
<1>4. UniqueNames(Overlaid(row, rows))
  BY <1>1, <1>2, NoConfigRows DEF Config
<1>5. Linear(Overlaid(row, rows))
  BY <1>1, <1>2, LinearKept, IInvIs
<1>6. Honours(c, q, rows, won)
  <2>1. \A f : AimsAt(c, q, f) => f[1] \in DOMAIN rows
    BY <1>2
  <2>2. ASSUME NEW y \in Columns(i)
        PROVE  IF <<i, y>> \in won THEN Holds(root[y], y, c, q) ELSE root[y] = row[i][y]
    <3>1. y \in {"retired", "price", "current"}
      BY <1>1 DEF Columns
    <3>2. \A f : f \in won => f = <<i, x>>
      OBVIOUS
    <3>3. CASE <<i, y>> \in won
      BY <3>2, <3>3
    <3>4. CASE <<i, y>> \notin won
      <4>1. y = x => won = {}
        BY <3>2, <3>4
      <4>2. QED
        BY <3>1, <3>4, <4>1
    <3>5. QED
      BY <3>3, <3>4
  <2>3. ASSUME NEW y \in Columns(k)
        PROVE  <<k, y>> \notin won /\ <<k, y>> \notin DOMAIN clock
    <3>1. <<k, y>>[1] = k /\ <<i, x>>[1] = i
      OBVIOUS
    <3>2. <<k, y>> \notin DOMAIN clock
      BY <3>1, AbsentHasNoClock
    <3>3. QED
      BY <1>1, <3>1, <3>2
  <2>4. QED
    BY <1>2, <2>1, <2>2, <2>3 DEF Honours
<1>7. QED
  <2>1. Commit(c, q, outcome, rows, won)
    BY DEF rows
  <2>2. QED
    BY <1>3, <1>4, <1>5, <1>6, <2>1, CommitStep

LEMMA PublishIngredientStep ==
    ASSUME IInv, NEW c \in Command, Fresh(c), NEW q \in PublishIngredientRequests,
           PublishIngredient(c, q), UNCHANGED scene
    PROVE  IInv'
<1>1. CASE Refuse(c) \/ Break(c)
  BY <1>1, RefusedStep
<1>2. CASE ~Refuse(c) /\ ~Break(c)
  <2> DEFINE field == <<I(q.ingredient), "current">>
             won == {f \in {field} : Wins(f, StampOf(c, q))}
             root == [row[I(q.ingredient)] EXCEPT !.current = IF won = {} THEN @ ELSE q.version]
             r == VersionRow(q, q.base)
             k == IV(q.version)
  <2>1. /\ q.kind = "publish_ingredient" /\ q.time \in Nat /\ q.ingredient \in Ids("ingredient")
        /\ q.version \in Version /\ q.base \in Ids("ingredient_version") /\ q.name \in Names
        /\ q.unit \in scene.sold /\ q.tags \in Tagged
    BY WallTimesAssumption DEF PublishIngredientRequests
  <2>2. /\ I(q.ingredient) \in DOMAIN row /\ q.ingredient \in Ingredient \cup Server
        /\ IV(q.base) \in DOMAIN row /\ q.base \in Server
    BY <2>1, IdsOfRow
  <2>3. /\ q.version \in Server /\ q.unit \in Unit /\ q.tags \in SUBSET Tag
        /\ q.version \notin Copied
    BY <2>1, IdentityAssumption DEF IInv, Shaped
  <2>4. ~PublishRefused(q) /\ Commit(c, q, "accepted", RootAnd(q, root, k, r), won)
    BY <1>2 DEF PublishIngredient
  <2>5. k \notin DOMAIN row /\ \A t \in NewTags(q) : DT(t) \in DOMAIN row
    BY <2>4 DEF PublishRefused, ReferencesHold, Has, Live
  <2>6. /\ row[I(q.ingredient)] \in IngredientRow
        /\ IV(row[I(q.ingredient)].current) \in DOMAIN row
        /\ \A t \in row[IV(q.base)].tags : DT(t) \in DOMAIN row
    BY <2>2, RowIs, KeysAre, IInvIs
  <2>7. \A f : f \in won <=> f = field /\ Wins(f, StampOf(c, q))
    OBVIOUS
  <2>8. \A f : AimsAt(c, q, f) <=> f = field
    BY <2>1 DEF AimsAt, Lifecycles
  <2> HIDE DEF won
  <2>9. /\ root \in IngredientRow /\ root.retired = row[I(q.ingredient)].retired
        /\ root.price = row[I(q.ingredient)].price
        /\ root.current = IF won = {} THEN row[I(q.ingredient)].current ELSE q.version
    BY <2>3, <2>6 DEF IngredientRow
  <2> HIDE DEF root
  <2>10. k \in Key /\ k[1] = "ingredient_version" /\ k[2] \notin Copied
    BY <2>3, KeysAre
  <2>11. IsRow(k, r) /\ References(k, r) \subseteq DOMAIN row \cup {k}
    <3>1. r \in IngredientVersionRow /\ r.of = q.ingredient /\ r.tags = q.tags
      BY <2>1, <2>2, <2>3 DEF VersionRow, IngredientVersionRow
    <3>2. \A t \in q.tags : DT(t) \in DOMAIN row
      BY <2>5, <2>6 DEF NewTags
    <3>3. QED
      BY <2>2, <2>10, <3>1, <3>2, IsRowIs
  <2> HIDE DEF r
  <2>12. won # {} => Holds(root["current"], "current", c, q)
    BY <2>1, <2>9 DEF Holds
  <2>13. \A y \in {"price", "current"} :
            (y = "current" /\ won # {}) \/ root[y] = row[I(q.ingredient)][y]
    BY <2>9
  <2>14. IV(root.current) \in DOMAIN row \cup {k}
    BY <2>6, <2>9
  <2> HIDE DEF k
  <2>15. QED
    BY <2>1, <2>2, <2>4, <2>5, <2>7, <2>8, <2>9, <2>10, <2>11, <2>12, <2>13, <2>14, RootAndStep
<1>3. QED
  BY <1>1, <1>2

LEMMA PublishPriceStep ==
    ASSUME IInv, NEW c \in Command, Fresh(c), NEW q \in PublishPriceRequests,
           PublishPrice(c, q), UNCHANGED scene
    PROVE  IInv'
<1>1. CASE Refuse(c)
  BY <1>1, RefusedStep
<1>2. CASE ~Refuse(c)
  <2> DEFINE old == row[I(q.ingredient)]
             field == <<I(q.ingredient), "price">>
             won == {f \in {field} : Wins(f, StampOf(c, q))}
             root == [old EXCEPT !.price = IF won = {} THEN @ ELSE q.price]
             r == PriceOf(q.ingredient, old.price)
             k == P(q.price)
             outcome == IF won = {} THEN "partially_superseded" ELSE "accepted"
  <2>1. /\ q.kind = "publish_price" /\ q.time \in Nat /\ q.ingredient \in Ids("ingredient")
        /\ q.price \in Version
    BY WallTimesAssumption DEF PublishPriceRequests
  <2>2. I(q.ingredient) \in DOMAIN row /\ q.ingredient \in Ingredient \cup Server
    BY <2>1, IdsOfRow
  <2>3. q.price \in Server /\ q.price \notin Copied
    BY <2>1, IdentityAssumption
  <2>4. ~PriceRefused(q) /\ Commit(c, q, outcome, RootAnd(q, root, k, r), won)
    BY <1>2 DEF PublishPrice
  <2>5. k \notin DOMAIN row
    BY <2>4 DEF PriceRefused, Has
  <2>6. old \in IngredientRow /\ IV(old.current) \in DOMAIN row
    BY <2>2, RowIs, KeysAre, IInvIs
  <2>7. \A f : f \in won <=> f = field /\ Wins(f, StampOf(c, q))
    OBVIOUS
  <2>8. \A f : AimsAt(c, q, f) <=> f = field
    BY <2>1 DEF AimsAt, Lifecycles
  <2>9. outcome \in {"accepted", "partially_superseded"}
    OBVIOUS
  <2> HIDE DEF won, outcome
  <2>10. /\ root \in IngredientRow /\ root.retired = old.retired /\ root.current = old.current
         /\ root.price = IF won = {} THEN old.price ELSE q.price
    BY <2>3, <2>6 DEF IngredientRow
  <2> HIDE DEF root
  <2>11. k \in Key /\ k[1] = "price" /\ k[2] \notin Copied
    BY <2>3, KeysAre
  <2>12. IsRow(k, r) /\ References(k, r) \subseteq DOMAIN row \cup {k}
    <3>1. r \in PriceRow
      BY <2>2, <2>6 DEF PriceOf, PriceRow, IngredientRow
    <3>2. QED
      BY <2>11, <3>1, IsRowIs
  <2> HIDE DEF r
  <2>13. won # {} => Holds(root["price"], "price", c, q)
    BY <2>1, <2>10 DEF Holds
  <2>14. \A y \in {"price", "current"} : (y = "price" /\ won # {}) \/ root[y] = old[y]
    BY <2>10
  <2>15. IV(root.current) \in DOMAIN row \cup {k}
    BY <2>6, <2>10
  <2> HIDE DEF k
  <2>16. QED
    BY <2>1, <2>2, <2>4, <2>5, <2>7, <2>8, <2>9, <2>10, <2>11, <2>12, <2>13, <2>14, <2>15,
       RootAndStep
<1>3. QED
  BY <1>1, <1>2

-----------------------------------------------------------------------------
(* Recipes and their versions. *)

LEMMA LiveUnit ==
    ASSUME IInv, NEW u, Live(U(u))
    PROVE  u \in Unit
  BY IInvIs, KeysAre, KeyIs DEF Live, Has

(* A version of a new recipe, or one made from the current version of another. *)
LEMMA RecipeStep ==
    ASSUME IInv, NEW c \in Command, Fresh(c), NEW q, q.kind \in Plain, q.time \in Nat,
           q.recipe \in Recipe, q.version \in Version, q.scale \in Unit,
           NEW base \in Server \cup {None}, NEW lines, IsLines(lines),
           \A l \in DOMAIN lines : IV(lines[l].version) \in DOMAIN row,
           RV(q.version) \notin DOMAIN row,
           IF RE(q.recipe) \in DOMAIN row
           THEN row[RE(q.recipe)].current = base /\ ~row[RE(q.recipe)].retired
           ELSE base = None,
           Commit(c, q, "accepted", RecipeRecords(q, base, lines), {}), UNCHANGED scene
    PROVE  IInv'
<1> DEFINE rows == RecipeRecords(q, base, lines)
           root == [current |-> q.version, retired |-> FALSE]
           r == RecipeVersionRow(q, base, lines)
<1>1. /\ DOMAIN rows = {RE(q.recipe), RV(q.version)}
      /\ rows[RE(q.recipe)] = root
      /\ rows[RV(q.version)] = r
  BY RecordsAre
<1>2. q.version \in Server /\ q.version \notin Copied /\ q.recipe \notin Copied
  BY IdentityAssumption
<1>3. /\ RE(q.recipe) \in Key /\ RE(q.recipe)[1] = "recipe" /\ RE(q.recipe)[2] = q.recipe
      /\ RV(q.version) \in Key /\ RV(q.version)[1] = "recipe_version"
      /\ RV(q.version)[2] = q.version
  BY <1>2, KeysAre
<1>4. root \in RecipeRow /\ root.current = q.version /\ root.retired = FALSE
  BY <1>2 DEF RecipeRow
<1>5. IsRecipeVersion(r) /\ r.of = q.recipe /\ r.lines = lines
  BY DEF IsRecipeVersion, RecipeVersionRow
<1>6. Linear(Overlaid(row, rows))
  BY <1>2, LinearGrows, IInvIs
<1> HIDE DEF root, r, rows
<1>7. /\ IsRow(RE(q.recipe), root) /\ References(RE(q.recipe), root) = {RV(q.version)}
      /\ IsRow(RV(q.version), r)
      /\ References(RV(q.version), r) =
            {RE(q.recipe)} \cup {IV(lines[l].version) : l \in DOMAIN lines}
  BY <1>3, <1>4, <1>5, IsRowIs
<1>8. Belongs(c, rows)
  <2>1. ASSUME NEW k \in DOMAIN rows
        PROVE  /\ k \in Key /\ k[2] \notin Copied /\ IsRow(k, rows[k])
               /\ References(k, rows[k]) \subseteq DOMAIN row \cup DOMAIN rows
    BY <1>1, <1>2, <1>3, <1>7
  <2>2. QED
    BY <2>1 DEF Belongs
<1>9. UniqueNames(Overlaid(row, rows))
  <2>1. DOMAIN rows \subseteq Key /\ \A k \in DOMAIN rows : k[1] \notin Config
    BY <1>1, <1>3 DEF Config
  <2>2. QED
    BY <2>1, NoConfigRows
<1>10. Honours(c, q, rows, {})
  <2>1. ASSUME NEW k \in DOMAIN rows \cap DOMAIN row, NEW x \in Columns(k)
        PROVE  rows[k][x] = row[k][x]
    <3>1. k = RE(q.recipe) /\ x = "retired"
      BY <1>1, <1>3, <2>1 DEF Columns
    <3>2. row[k].retired \in BOOLEAN
      BY <1>3, <2>1, <3>1, RowIs, IInvIs DEF RecipeRow
    <3>3. QED
      BY <1>1, <1>4, <2>1, <3>1, <3>2
  <2>2. QED
    BY <2>1, PlainHonours
<1>11. Commit(c, q, "accepted", rows, {})
  BY DEF rows
<1>12. QED
  BY <1>6, <1>8, <1>9, <1>10, <1>11, CommitStep DEF Plain

LEMMA CreateRecipeStep ==
    ASSUME IInv, NEW c \in Command, Fresh(c), NEW q \in CreateRecipeRequests,
           CreateRecipe(c, q), UNCHANGED scene
    PROVE  IInv'
<1>1. CASE Refuse(c)
  BY <1>1, RefusedStep
<1>2. CASE ~Refuse(c)
  <2>1. /\ q.kind = "create_recipe" /\ q.time \in Nat /\ q.recipe \in Recipe
        /\ q.version \in Version /\ q.scale \in scene.sold /\ q.lines \in scene.lines
    BY HorizonAssumption DEF CreateRecipeRequests
  <2>2. q.scale \in Unit /\ IsLines(q.lines)
    BY <2>1 DEF IInv, Shaped
  <2>3. ~CreateRecipeRefused(q) /\ Commit(c, q, "accepted", RecipeRecords(q, None, q.lines), {})
    BY <1>2 DEF CreateRecipe
  <2>4. /\ RE(q.recipe) \notin DOMAIN row /\ RV(q.version) \notin DOMAIN row
        /\ \A l \in DOMAIN q.lines : IV(q.lines[l].version) \in DOMAIN row
    BY <2>3 DEF CreateRecipeRefused, CatalogHolds, Has
  <2>5. q.kind \in Plain
    BY <2>1 DEF Plain
  <2>6. QED
    BY <2>1, <2>2, <2>3, <2>4, <2>5, RecipeStep
<1>3. QED
  BY <1>1, <1>2

LEMMA PublishStep ==
    ASSUME IInv, NEW c \in Command, Fresh(c), NEW q, q.kind \in Plain, q.time \in Nat,
           q.recipe \in Ids("recipe"), q.version \in Version, q.base \in Ids("recipe_version"),
           q.scale \in scene.sold, NEW lines, IsLines(lines), Publish(c, q, lines),
           UNCHANGED scene
    PROVE  IInv'
<1>1. CASE Refuse(c) \/ Break(c)
  BY <1>1, RefusedStep
<1>2. CASE ~Refuse(c) /\ ~Break(c)
  <2>1. /\ BasedOnCurrent(q) /\ ~Has(RV(q.version)) /\ CatalogHolds(q.scale, lines)
        /\ Commit(c, q, "accepted", RecipeRecords(q, q.base, lines), {})
    BY <1>2 DEF Publish
  <2>2. /\ RE(q.recipe) \in DOMAIN row /\ row[RE(q.recipe)].current = q.base
        /\ ~row[RE(q.recipe)].retired
        /\ RV(q.version) \notin DOMAIN row
        /\ \A l \in DOMAIN lines : IV(lines[l].version) \in DOMAIN row
    BY <2>1 DEF BasedOnCurrent, Live, CatalogHolds, Has
  <2>3. q.recipe \in Recipe /\ q.base \in Server \cup {None} /\ q.scale \in Unit
    BY IdsOfRow DEF IInv, Shaped
  <2>4. QED
    BY <2>1, <2>2, <2>3, RecipeStep
<1>3. QED
  BY <1>1, <1>2

LEMMA PublishRecipeStep ==
    ASSUME IInv, NEW c \in Command, Fresh(c), NEW q \in PublishRecipeRequests,
           PublishRecipe(c, q), UNCHANGED scene
    PROVE  IInv'
<1>1. /\ q.kind = "publish_recipe" /\ q.time \in Nat /\ q.recipe \in Ids("recipe")
      /\ q.version \in Version /\ q.base \in Ids("recipe_version") /\ q.scale \in scene.sold
      /\ q.lines \in scene.lines
  BY HorizonAssumption DEF PublishRecipeRequests
<1>2. IsLines(q.lines) /\ q.kind \in Plain
  BY <1>1 DEF IInv, Shaped, Plain
<1>3. QED
  BY <1>1, <1>2, PublishStep DEF PublishRecipe

LEMMA UpdateRecipeStep ==
    ASSUME IInv, NEW c \in Command, Fresh(c), NEW q \in UpdateRecipeRequests,
           UpdateRecipe(c, q), UNCHANGED scene
    PROVE  IInv'
<1>1. /\ q.kind = "update_recipe" /\ q.time \in Nat /\ q.recipe \in Ids("recipe")
      /\ q.version \in Version /\ q.base \in Ids("recipe_version") /\ q.scale \in scene.sold
      /\ q.lines \in scene.lines
  BY HorizonAssumption DEF UpdateRecipeRequests
<1>2. IsLines(q.lines) /\ q.kind \in Plain
  BY <1>1 DEF IInv, Shaped, Plain
<1>3. IsLines(Normalized(q))
  <2>1. DOMAIN Normalized(q) = DOMAIN q.lines
    BY DEF Normalized
  <2>2. ASSUME NEW l \in DOMAIN q.lines
        PROVE  Normalized(q)[l] \in
                  [version : Server, quantity : Nat, display : Unit \cup {None}]
    <3>1. q.lines[l] \in [version : Server, quantity : Nat, display : Unit \cup {None}]
      BY <1>2 DEF IsLines
    <3>2. PICK d \in Unit \cup {None} : Normalized(q)[l] = [q.lines[l] EXCEPT !.display = d]
      BY <3>1 DEF Normalized
    <3>3. QED
      BY <3>1, <3>2
  <2>3. QED
    BY <2>1, <2>2 DEF IsLines
<1>4. CASE Refuse(c)
  BY <1>4, RefusedStep
<1>5. CASE Publish(c, q, Normalized(q))
  BY <1>1, <1>2, <1>3, <1>5, PublishStep
<1>6. QED
  BY <1>4, <1>5 DEF UpdateRecipe

LEMMA CopyRecipeStep ==
    ASSUME IInv, NEW c \in Command, Fresh(c), NEW q \in CopyRecipeRequests,
           CopyRecipe(c, q), UNCHANGED scene
    PROVE  IInv'
<1>1. CASE Refuse(c)
  BY <1>1, RefusedStep
<1>2. CASE ~Refuse(c)
  <2> DEFINE full == [kind |-> q.kind, time |-> q.time, recipe |-> q.recipe,
                      version |-> q.version, scale |-> q.units[SourceRecipe.scale],
                      lines |-> CopiedLines(q)]
  <2>1. /\ q.kind = "copy_recipe" /\ q.time \in Nat /\ q.recipe \in Recipe
        /\ q.version \in Version
    BY HorizonAssumption DEF CopyRecipeRequests
  <2>2. CopyRecipeHolds(q) /\ Commit(c, full, "accepted", RecipeRecords(full, None, full.lines), {})
    BY <1>2 DEF CopyRecipe
  <2>3. /\ full.kind = "copy_recipe" /\ full.time = q.time /\ full.recipe = q.recipe
        /\ full.version = q.version /\ full.scale = q.units[SourceRecipe.scale]
        /\ full.lines = CopiedLines(q)
    BY <2>1
  <2>4. full.kind \in Plain
    BY <2>3 DEF Plain
  <2> HIDE DEF full
  <2>5. /\ RE(q.recipe) \notin DOMAIN row /\ RV(q.version) \notin DOMAIN row
        /\ CatalogHolds(full.scale, CopiedLines(q))
    BY <2>2, <2>3 DEF CopyRecipeHolds, Has
  <2>6. full.scale \in Unit
    BY <2>5, LiveUnit DEF CatalogHolds
  <2>7. /\ IsLines(CopiedLines(q))
        /\ \A l \in DOMAIN CopiedLines(q) : IV(CopiedLines(q)[l].version) \in DOMAIN row
    <3>1. DOMAIN CopiedLines(q) = DOMAIN SourceRecipe.lines
      BY DEF CopiedLines
    <3>2. ASSUME NEW l \in DOMAIN SourceRecipe.lines
          PROVE  /\ CopiedLines(q)[l] \in
                       [version : Server, quantity : Nat, display : Unit \cup {None}]
                 /\ IV(CopiedLines(q)[l].version) \in DOMAIN row
      <4> DEFINE line == SourceRecipe.lines[l]
                 v == q.versions[line.version]
                 d == IF line.display = None THEN None ELSE q.units[line.display]
      <4>1. CopiedLines(q)[l] = [version |-> v, quantity |-> line.quantity, display |-> d]
        BY DEF CopiedLines
      <4>2. line.quantity \in Nat
        BY OthersAssumption DEF IInv, TypeOK, SourceRecipe
      <4> HIDE DEF v, d
      <4>3. CopiedLines(q)[l].version = v /\ CopiedLines(q)[l].display = d
        BY <4>1
      <4>4. Has(IV(v)) /\ (d # None => Live(U(d)))
        BY <2>5, <3>1, <4>3 DEF CatalogHolds
      <4>5. IV(v) \in DOMAIN row /\ v \in Server
        BY <4>4, IInvIs, KeysAre, KeyIs DEF Has
      <4>6. d \in Unit \cup {None}
        BY <4>4, LiveUnit
      <4>7. QED
        BY <4>1, <4>2, <4>5, <4>6
    <3>3. QED
      BY <3>1, <3>2 DEF IsLines
  <2>8. QED
    BY <2>1, <2>2, <2>3, <2>4, <2>5, <2>6, <2>7, RecipeStep
<1>3. QED
  BY <1>1, <1>2

-----------------------------------------------------------------------------
(* The copy of an ingredient. *)

Copy(c) == I(<<c, 0>>)

CopiedTag(t) == [name |-> SourceTags[t].name, detail |-> SourceTags[t].detail, retired |-> FALSE]

LEMMA CopiedRowsAre ==
    ASSUME NEW c, NEW q
    PROVE  /\ DOMAIN CopiedRows(c, q) =
                 {Copy(c)} \cup {IV(<<c, v>>) : v \in DOMAIN Source.versions}
                   \cup {DT(<<c, t>>) : t \in NewTagsOf(q)}
           /\ CopiedRows(c, q)[Copy(c)] =
                 [current |-> <<c, Source.current>>, price |-> None, retired |-> FALSE]
           /\ \A v \in DOMAIN Source.versions :
                 CopiedRows(c, q)[IV(<<c, v>>)] = CopiedVersion(c, q, Source.versions[v])
           /\ \A t \in NewTagsOf(q) :
                 CopiedRows(c, q)[DT(<<c, t>>)] = CopiedTag(t)
<1> DEFINE root == Only(I(<<c, 0>>),
                        [current |-> <<c, Source.current>>, price |-> None, retired |-> FALSE])
           vs == CopiedVersions(c, q)
           ts == CopiedTags(c, q)
           versions == {IV(<<c, v>>) : v \in DOMAIN Source.versions}
           tags == {DT(<<c, t>>) : t \in NewTagsOf(q)}
<1>1. /\ DOMAIN root = {Copy(c)}
      /\ root[Copy(c)] = [current |-> <<c, Source.current>>, price |-> None, retired |-> FALSE]
  BY OnlyIs DEF Copy
<1>2. /\ DOMAIN vs = versions
      /\ \A v \in DOMAIN Source.versions : /\ IV(<<c, v>>) \in versions
                                            /\ vs[IV(<<c, v>>)] = CopiedVersion(c, q, Source.versions[v])
  BY DEF CopiedVersions, IV
<1>3. /\ DOMAIN ts = tags
      /\ \A t \in NewTagsOf(q) : DT(<<c, t>>) \in tags /\ ts[DT(<<c, t>>)] = CopiedTag(t)
  BY DEF CopiedTags, DT, CopiedTag
<1>4. /\ \A k \in versions : k[1] = "ingredient_version"
      /\ \A k \in tags : k[1] = "dietary_tag"
      /\ Copy(c)[1] = "ingredient"
  <2>1. \A x : IV(x)[1] = "ingredient_version" /\ DT(x)[1] = "dietary_tag" /\ I(x)[1] = "ingredient"
    BY KeysAre
  <2>2. QED
    BY <2>1 DEF Copy
<1>5. CopiedRows(c, q) = Overlaid(root, Overlaid(vs, ts))
  BY DEF CopiedRows
<1> HIDE DEF root, vs, ts, versions, tags
<1>6. /\ DOMAIN Overlaid(vs, ts) = versions \cup tags
      /\ \A k \in tags : Overlaid(vs, ts)[k] = ts[k]
      /\ \A k \in versions : Overlaid(vs, ts)[k] = vs[k]
  BY <1>2, <1>3, <1>4 DEF Overlaid
<1> DEFINE both == Overlaid(vs, ts)
<1>7. /\ DOMAIN Overlaid(root, both) = DOMAIN root \cup DOMAIN both
      /\ \A k \in DOMAIN both : Overlaid(root, both)[k] = both[k]
      /\ \A k \in DOMAIN root : k \notin DOMAIN both => Overlaid(root, both)[k] = root[k]
  BY OverlaidIs
<1> HIDE DEF both
<1>8. /\ DOMAIN both = versions \cup tags
      /\ \A k \in tags : both[k] = ts[k]
      /\ \A k \in versions : both[k] = vs[k]
      /\ CopiedRows(c, q) = Overlaid(root, both)
  BY <1>5, <1>6 DEF both
<1>9. /\ DOMAIN CopiedRows(c, q) = {Copy(c)} \cup versions \cup tags
      /\ CopiedRows(c, q)[Copy(c)] = root[Copy(c)]
      /\ \A k \in versions : CopiedRows(c, q)[k] = vs[k]
      /\ \A k \in tags : CopiedRows(c, q)[k] = ts[k]
  BY <1>1, <1>4, <1>7, <1>8
<1>10. QED
  BY <1>1, <1>2, <1>3, <1>9 DEF versions, tags

LEMMA SourceIs ==
    ASSUME IInv
    PROVE  /\ IsFiniteSet(DOMAIN Source.versions) /\ DOMAIN Source.versions \subseteq Nat
           /\ Source.current \in DOMAIN Source.versions
           /\ \A v \in DOMAIN Source.versions :
                 /\ Source.versions[v].base \in DOMAIN Source.versions \cup {None}
                 /\ Source.versions[v].name \in Names
                 /\ Source.versions[v].tags \subseteq DOMAIN SourceTags
           /\ DOMAIN SourceTags \subseteq Nat
           /\ \A t \in DOMAIN SourceTags :
                 SourceTags[t].name \in NamesThere /\ SourceTags[t].detail \in Details
<1>1. other \in DOMAIN Others
  BY DEF IInv, TypeOK
<1>2. \A t \in DOMAIN SourceTags : SourceTags[t].name \in NamesThere
  BY <1>1 DEF NamesThere, SourceTags
<1>3. QED
  BY <1>1, <1>2, OthersAssumption DEF Source, SourceTags

(* What the source refers to is mapped to what there is here, or to a new tag. *)
LEMMA MappedIs ==
    ASSUME IInv, NEW c, NEW q, ~CopyIngredientRefused(q)
    PROVE  /\ NewTagsOf(q) \subseteq DOMAIN SourceTags
           /\ \A v \in DOMAIN Source.versions :
                 LET unit == UnitFor(q, Source.versions[v].unit)
                 IN  /\ U(unit) \in DOMAIN row /\ unit \in Unit
                     /\ Dimension[unit] = Dimension[Source.versions[v].unit]
                     /\ \A t \in Source.versions[v].tags :
                           \/ t \in NewTagsOf(q) /\ TagFor(c, q, t) = <<c, t>>
                           \/ /\ DT(TagFor(c, q, t)) \in DOMAIN row
                              /\ TagFor(c, q, t) \in Tag \cup Server
<1>1. /\ DOMAIN q.tags = Needed(Source).tags
      /\ TagMappingHolds(q) /\ UnitMappingHolds(q)
  BY DEF CopyIngredientRefused
<1>2. \A t : t \in DOMAIN q.tags <=> t \in UsedTags(Source) /\ SourceTags[t].seed \notin Seeds
  BY <1>1 DEF Needed
<1>3. \A v \in DOMAIN Source.versions : \A t \in Source.versions[v].tags : t \in UsedTags(Source)
  BY DEF UsedTags
<1>4. UsedTags(Source) \subseteq DOMAIN SourceTags
  BY SourceIs DEF UsedTags
<1>5. NewTagsOf(q) \subseteq DOMAIN SourceTags
  BY <1>2, <1>4 DEF NewTagsOf
<1>6. ASSUME NEW v \in DOMAIN Source.versions
      PROVE  LET unit == UnitFor(q, Source.versions[v].unit)
             IN  /\ U(unit) \in DOMAIN row /\ unit \in Unit
                 /\ Dimension[unit] = Dimension[Source.versions[v].unit]
  <2>1. Source.versions[v].unit \in UsedUnits(Source)
    BY DEF UsedUnits
  <2> DEFINE unit == UnitFor(q, Source.versions[v].unit)
  <2>2. Live(U(unit)) /\ Dimension[unit] = Dimension[Source.versions[v].unit]
    BY <1>1, <2>1 DEF UnitMappingHolds
  <2>3. unit \in Unit /\ U(unit) \in DOMAIN row
    BY <2>2, LiveUnit DEF Live, Has
  <2>4. QED
    BY <2>2, <2>3
<1>7. ASSUME NEW t \in UsedTags(Source)
      PROVE  \/ t \in NewTagsOf(q) /\ TagFor(c, q, t) = <<c, t>>
             \/ DT(TagFor(c, q, t)) \in DOMAIN row /\ TagFor(c, q, t) \in Tag \cup Server
  <2>1. CASE t \notin DOMAIN q.tags
    <3>1. SourceTags[t].seed \in Seeds
      BY <1>2, <2>1
    <3>2. \E x \in Tag : Live(DT(x)) /\ SeedKey[x] = SourceTags[t].seed
      BY <3>1 DEF Seeds
    <3>3. SeededTag(t) \in Tag /\ Live(DT(SeededTag(t)))
      BY <3>2 DEF SeededTag
    <3>4. TagFor(c, q, t) = SeededTag(t)
      BY <2>1 DEF TagFor
    <3>5. QED
      BY <3>3, <3>4 DEF Live, Has
  <2>2. CASE t \in DOMAIN q.tags /\ q.tags[t] = None
    BY <2>2 DEF NewTagsOf, TagFor
  <2>3. CASE t \in DOMAIN q.tags /\ q.tags[t] # None
    <3>1. TagFor(c, q, t) = q.tags[t] /\ Live(DT(q.tags[t]))
      BY <1>1, <2>3 DEF TagFor, TagMappingHolds
    <3>2. /\ DT(q.tags[t]) \in DOMAIN row
          /\ DT(q.tags[t])[1] = "dietary_tag"
          /\ DT(q.tags[t])[2] = q.tags[t]
      BY <3>1, KeysAre DEF Live, Has
    <3>3. q.tags[t] \in Tag \cup Server
      BY <3>2, IInvIs, KeyIs
    <3>4. QED
      BY <3>1, <3>2, <3>3
  <2>4. QED
    BY <2>1, <2>2, <2>3
<1>8. QED
  BY <1>3, <1>5, <1>6, <1>7

(* No row has an identity that a fresh command would make. *)
LEMMA NothingCopiedYet ==
    ASSUME IInv, NEW c \in Command, Fresh(c), NEW k \in DOMAIN row, NEW n \in Nat
    PROVE  k[2] # <<c, n>>
<1>1. c \notin Applied
  BY DEF Fresh, Applied
<1>2. <<c, n>> \in Copied /\ <<c, n>>[1] = c
  BY DEF Copied
<1>3. QED
  BY <1>1, <1>2 DEF IInv, Shaped

LEMMA CopyIngredientStep ==
    ASSUME IInv, NEW c \in Command, Fresh(c), NEW q \in CopyIngredientRequests,
           CopyIngredient(c, q), UNCHANGED scene
    PROVE  IInv'
<1>1. CASE Refuse(c) \/ Break(c)
  BY <1>1, RefusedStep
<1>2. CASE ~Refuse(c) /\ ~Break(c)
  <2> DEFINE rows == CopiedRows(c, q)
             won == CopiedClocks(c, q)
             V == DOMAIN Source.versions
             T == NewTagsOf(q)
  <2>1. q.kind = "copy_ingredient" /\ q.time \in Nat
    BY HorizonAssumption DEF CopyIngredientRequests
  <2>2. ~CopyIngredientRefused(q) /\ Commit(c, q, "accepted", rows, won)
    BY <1>2 DEF CopyIngredient
  <2>3. /\ c \in Nat /\ V \subseteq Nat /\ T \subseteq Nat
        /\ \A n \in Nat : <<c, n>> \in Server /\ <<c, n>> \in Copied
    BY <2>2, CommandAssumption, SourceIs, MappedIs DEF Server, Copied
  <2>4. /\ DOMAIN rows = {Copy(c)} \cup {IV(<<c, v>>) : v \in V} \cup {DT(<<c, t>>) : t \in T}
        /\ rows[Copy(c)] =
              [current |-> <<c, Source.current>>, price |-> None, retired |-> FALSE]
        /\ \A v \in V : rows[IV(<<c, v>>)] = CopiedVersion(c, q, Source.versions[v])
        /\ \A t \in T : rows[DT(<<c, t>>)] = CopiedTag(t)
    <3>1. DOMAIN CopiedRows(c, q) =
             {Copy(c)} \cup {IV(<<c, v>>) : v \in V} \cup {DT(<<c, t>>) : t \in T}
      BY CopiedRowsAre
    <3>2. CopiedRows(c, q)[Copy(c)] =
             [current |-> <<c, Source.current>>, price |-> None, retired |-> FALSE]
      BY CopiedRowsAre
    <3>3. \A v \in V : CopiedRows(c, q)[IV(<<c, v>>)] = CopiedVersion(c, q, Source.versions[v])
      BY CopiedRowsAre
    <3>4. \A t \in T : CopiedRows(c, q)[DT(<<c, t>>)] = CopiedTag(t)
      BY CopiedRowsAre
    <3>5. QED
      BY <3>1, <3>2, <3>3, <3>4
  <2> HIDE DEF rows
  <2>5. \A k \in DOMAIN rows : \/ k = Copy(c) \/ \E v \in V : k = IV(<<c, v>>)
                               \/ \E t \in T : k = DT(<<c, t>>)
    BY <2>4
  <2>6. /\ Copy(c) \in Key /\ Copy(c)[1] = "ingredient" /\ Copy(c)[2] = <<c, 0>>
        /\ \A v \in V : /\ IV(<<c, v>>) \in Key /\ IV(<<c, v>>)[1] = "ingredient_version"
                        /\ IV(<<c, v>>)[2] = <<c, v>>
        /\ \A t \in T : /\ DT(<<c, t>>) \in Key /\ DT(<<c, t>>)[1] = "dietary_tag"
                        /\ DT(<<c, t>>)[2] = <<c, t>>
    BY <2>3, KeysAre DEF Copy
  <2>7. \A k \in DOMAIN rows : k \in Key /\ k \notin DOMAIN row /\ k[2] \in Copied /\ k[2][1] = c
                                /\ k[1] \in {"ingredient", "ingredient_version", "dietary_tag"}
    <3>1. \A k \in DOMAIN rows :
             /\ k \in Key /\ k[1] \in {"ingredient", "ingredient_version", "dietary_tag"}
             /\ \E n \in Nat : k[2] = <<c, n>>
      BY <2>3, <2>5, <2>6
    <3>2. ASSUME NEW k \in DOMAIN rows
          PROVE  k \notin DOMAIN row /\ k[2] \in Copied /\ k[2][1] = c
      <4>1. PICK n \in Nat : k[2] = <<c, n>>
        BY <3>1
      <4>2. k \notin DOMAIN row
        BY <4>1, NothingCopiedYet
      <4>3. <<c, n>> \in Copied /\ <<c, n>>[1] = c
        BY <2>3
      <4>4. QED
        BY <4>1, <4>2, <4>3
    <3>3. QED
      BY <3>1, <3>2
  <2>8. IsRow(Copy(c), rows[Copy(c)]) /\ References(Copy(c), rows[Copy(c)]) \subseteq DOMAIN rows
    <3>1. Source.current \in V
      BY SourceIs
    <3>2. rows[Copy(c)] \in IngredientRow /\ rows[Copy(c)].current = <<c, Source.current>>
      BY <2>3, <2>4, <3>1 DEF IngredientRow
    <3>3. /\ IsRow(Copy(c), rows[Copy(c)])
          /\ References(Copy(c), rows[Copy(c)]) = {IV(rows[Copy(c)].current)}
      BY <2>6, <3>2, IsRowIs
    <3>4. IV(<<c, Source.current>>) \in DOMAIN rows
      BY <2>4, <3>1
    <3>5. QED
      BY <3>2, <3>3, <3>4
  <2>9. ASSUME NEW v \in V
        PROVE  /\ IsRow(IV(<<c, v>>), rows[IV(<<c, v>>)])
               /\ References(IV(<<c, v>>), rows[IV(<<c, v>>)]) \subseteq DOMAIN row \cup DOMAIN rows
    <3> DEFINE from == Source.versions[v]
               tags == {TagFor(c, q, t) : t \in from.tags}
               r == rows[IV(<<c, v>>)]
    <3>1. \A t \in from.tags : /\ TagFor(c, q, t) \in Tag \cup Server
                               /\ DT(TagFor(c, q, t)) \in DOMAIN row \cup DOMAIN rows
      <4>1. ASSUME NEW t \in from.tags
            PROVE  /\ TagFor(c, q, t) \in Tag \cup Server
                   /\ DT(TagFor(c, q, t)) \in DOMAIN row \cup DOMAIN rows
        <5>1. \/ t \in T /\ TagFor(c, q, t) = <<c, t>>
              \/ DT(TagFor(c, q, t)) \in DOMAIN row /\ TagFor(c, q, t) \in Tag \cup Server
          BY <2>2, MappedIs
        <5>2. ASSUME t \in T
              PROVE  <<c, t>> \in Server /\ DT(<<c, t>>) \in DOMAIN rows
          BY <2>3, <2>4, <5>2
        <5>3. QED
          BY <5>1, <5>2
      <4>2. QED
        BY <4>1
    <3>2. tags \subseteq Tag \cup Server /\ \A t \in tags : DT(t) \in DOMAIN row \cup DOMAIN rows
      BY <3>1
    <3>3. r = [of |-> <<c, 0>>, base |-> BaseCopied(c, from), name |-> from.name,
               unit |-> UnitFor(q, from.unit), tags |-> tags]
      BY <2>4 DEF CopiedVersion
    <3>4. BaseCopied(c, from) \in Server \cup {None}
      BY <2>3, SourceIs DEF BaseCopied
    <3>5. from.name \in Names /\ UnitFor(q, from.unit) \in Unit
      BY <2>2, SourceIs, MappedIs
    <3> HIDE DEF tags, from
    <3>6. r \in IngredientVersionRow /\ r.of = <<c, 0>> /\ r.tags = tags
      <4>1. <<c, 0>> \in Server
        BY <2>3
      <4>2. QED
        BY <3>2, <3>3, <3>4, <3>5, <4>1 DEF IngredientVersionRow
    <3> HIDE DEF r
    <3>7. I(<<c, 0>>) \in DOMAIN rows
      BY <2>4 DEF Copy
    <3>8. /\ IsRow(IV(<<c, v>>), r)
          /\ References(IV(<<c, v>>), r) \subseteq DOMAIN row \cup DOMAIN rows
      BY <2>6, <3>2, <3>6, <3>7, IsRowIs
    <3>9. QED
      BY <3>8 DEF r
  <2>10. ASSUME NEW t \in T
         PROVE  /\ IsRow(DT(<<c, t>>), rows[DT(<<c, t>>)])
                /\ References(DT(<<c, t>>), rows[DT(<<c, t>>)]) = {}
    <3>1. SourceTags[t].name \in NamesThere /\ SourceTags[t].detail \in Details
      BY <2>2, SourceIs, MappedIs
    <3>2. rows[DT(<<c, t>>)] \in ConfigRow
      <4>1. rows[DT(<<c, t>>)] = CopiedTag(t)
        BY <2>4
      <4>2. QED
        BY <3>1, <4>1 DEF CopiedTag, ConfigRow
    <3>3. DT(<<c, t>>)[1] \in Config
      BY <2>6 DEF Config
    <3>4. QED
      BY <3>2, <3>3, IsRowIs
  <2>11. Belongs(c, rows)
    <3>1. ASSUME NEW k \in DOMAIN rows
          PROVE  IsRow(k, rows[k]) /\ References(k, rows[k]) \subseteq DOMAIN row \cup DOMAIN rows
      BY <2>5, <2>8, <2>9, <2>10
    <3>2. QED
      BY <2>7, <3>1 DEF Belongs
  <2>12. UniqueNames(Overlaid(row, rows))
    <3> DEFINE all == Overlaid(row, rows)
    <3>1. /\ DOMAIN all = DOMAIN row \cup DOMAIN rows
          /\ \A k \in DOMAIN rows : all[k] = rows[k]
          /\ \A k \in DOMAIN row : k \notin DOMAIN rows => all[k] = row[k]
      BY OverlaidIs
    <3> HIDE DEF all
    <3>2. ASSUME NEW k \in DOMAIN all \cap Configured, NEW x \in DOMAIN all \ {k}, x[1] = k[1]
          PROVE  all[x].name # all[k].name
      <4>1. k \in DOMAIN row /\ all[k] = row[k] /\ k[1] \in Config
        BY <2>7, <3>1, KeyIs, KeysAre
      <4>2. CASE x \in DOMAIN row
        <5>1. all[x] = row[x]
          BY <2>7, <3>1, <4>2
        <5>2. QED
          BY <3>2, <4>1, <4>2, <5>1, IInvIs DEF UniqueNames
      <4>3. CASE x \in DOMAIN rows
        <5>1. k[1] = "dietary_tag"
          BY <2>7, <3>2, <4>1, <4>3 DEF Config
        <5>2. PICK t \in T : x = DT(<<c, t>>)
          BY <2>5, <2>6, <3>2, <4>3, <5>1
        <5>3. all[x].name = SourceTags[t].name
          <6>1. rows[DT(<<c, t>>)] = CopiedTag(t)
            BY <2>4
          <6>2. rows[DT(<<c, t>>)].name = SourceTags[t].name
            BY <6>1 DEF CopiedTag
          <6>3. QED
            BY <3>1, <4>3, <5>2, <6>2
        <5>4. row[k].name # SourceTags[t].name
          BY <2>2, <4>1, <5>1 DEF CopyIngredientRefused, NamesAreFree, Rows
        <5>5. QED
          BY <4>1, <5>3, <5>4
      <4>4. QED
        BY <3>1, <4>2, <4>3
    <3>3. UniqueNames(all)
      BY <3>2 DEF UniqueNames
    <3>4. QED
      BY <3>3 DEF all
  <2>13. Linear(Overlaid(row, rows))
    BY <2>7, LinearKept, IInvIs
  <2>14. Honours(c, q, rows, won)
    <3>1. \A f : AimsAt(c, q, f) <=> f \in won
      BY <2>1 DEF AimsAt, Lifecycles
    <3>2. /\ \A f \in {"current", "price", "retired"} : <<Copy(c), f>> \in won
          /\ \A t \in T : \A f \in {"name", "detail", "retired"} : <<DT(<<c, t>>), f>> \in won
          /\ \A f \in won : \/ f[1] = Copy(c)
                            \/ \E t \in T : f[1] = DT(<<c, t>>)
      <4>1. \A t \in T : \A f \in {"name", "detail", "retired"} : <<DT(<<c, t>>), f>> \in won
        <5>1. ASSUME NEW t \in T, NEW f \in {"name", "detail", "retired"}
              PROVE  <<DT(<<c, t>>), f>> \in won
          <6>1. /\ <<t, f>> \in T \X {"name", "detail", "retired"}
                /\ <<t, f>>[1] = t
                /\ <<t, f>>[2] = f
            OBVIOUS
          <6>2. QED
            BY <6>1 DEF CopiedClocks
        <5>2. QED
          BY <5>1
      <4>2. \A f \in {"current", "price", "retired"} : <<Copy(c), f>> \in won
        BY DEF CopiedClocks, Copy
      <4>3. \A f \in won : f[1] = Copy(c) \/ \E t \in T : f[1] = DT(<<c, t>>)
        BY DEF CopiedClocks, Copy
      <4>4. QED
        BY <4>1, <4>2, <4>3
    <3> HIDE DEF won
    <3>3. \A f \in won : f[1] \in DOMAIN rows
      BY <2>4, <3>2
    <3>4. \A f \in won : Wins(f, StampOf(c, q))
      BY <2>7, <3>3, AbsentHasNoClock DEF Wins
    <3>5. ASSUME NEW k \in DOMAIN rows, NEW x \in Columns(k)
          PROVE  IF <<k, x>> \in won THEN Holds(rows[k][x], x, c, q)
                 ELSE <<k, x>> \notin DOMAIN clock
      <4>1. <<k, x>> \notin DOMAIN clock
        <5>1. <<k, x>>[1] = k
          OBVIOUS
        <5>2. QED
          BY <2>7, <5>1, AbsentHasNoClock
      <4>2. CASE k = Copy(c)
        <5>1. x \in {"retired", "price", "current"}
          BY <2>6, <4>2 DEF Columns
        <5>2. /\ rows[k].retired = FALSE /\ rows[k].price = None
              /\ rows[k].current = <<c, Source.current>>
          BY <2>4, <4>2
        <5>3. rows[k].current[1] = c
          BY <5>2
        <5>4. Holds(rows[k][x], x, c, q)
          BY <2>1, <5>1, <5>2, <5>3 DEF Holds, Lifecycles
        <5>5. QED
          BY <4>1, <5>4
      <4>3. CASE \E v \in V : k = IV(<<c, v>>)
        <5>1. k[1] = "ingredient_version"
          BY <2>6, <4>3
        <5>2. \A f \in won : f[1][1] # "ingredient_version"
          BY <2>6, <3>2
        <5>3. <<k, x>>[1] = k
          OBVIOUS
        <5>4. QED
          BY <4>1, <5>1, <5>2, <5>3
      <4>4. CASE \E t \in T : k = DT(<<c, t>>)
        <5>1. x \in {"name", "detail", "retired"} /\ rows[k].retired = FALSE
          <6>1. PICK t \in T : k = DT(<<c, t>>)
            BY <4>4
          <6>2. k[1] = "dietary_tag"
            BY <2>6, <6>1
          <6>3. rows[k] = CopiedTag(t)
            BY <2>4, <6>1
          <6>4. QED
            BY <6>2, <6>3 DEF Columns, CopiedTag
        <5>2. Holds(rows[k][x], x, c, q)
          BY <2>1, <5>1 DEF Holds, Lifecycles
        <5>3. QED
          BY <4>1, <5>2
      <4>5. QED
        BY <2>5, <4>2, <4>3, <4>4
    <3>6. \A f : f \in won <=> AimsAt(c, q, f) /\ Wins(f, StampOf(c, q))
      BY <3>1, <3>4
    <3>7. \A f : AimsAt(c, q, f) => f[1] \in DOMAIN rows
      BY <3>1, <3>3
    <3>8. QED
      BY <3>5, <3>6, <3>7 DEF Honours
  <2> HIDE DEF won
  <2>15. QED
    BY <2>1, <2>2, <2>7, <2>11, <2>12, <2>13, <2>14, CommitStep
<1>3. QED
  BY <1>1, <1>2

-----------------------------------------------------------------------------
(* The inductive invariant holds. *)

LEMMA InitialState == Init => IInv
<1> SUFFICES ASSUME Init PROVE IInv
  OBVIOUS
<1>1. PICK s \in Scenarios : scene = s.scene /\ row = s.row /\ clock = << >>
  BY DEF Init
<1>2. /\ s.scene.commands \subseteq Command /\ s.scene.sold \subseteq Unit
      /\ \A lines \in s.scene.lines : IsLines(lines)
      /\ IsCatalog(s.row) /\ UniqueNames(s.row) /\ Linear(s.row)
      /\ \A k \in DOMAIN s.row : k[2] \notin Copied
  BY ScenariosAssumption
<1>3. /\ retained \in [Command -> Outcome \cup {"none"}]
      /\ \A c \in Command : retained[c] = "none"
      /\ DOMAIN request = Command /\ aborted = {} /\ other = 1
  BY DEF Init
<1>4. Applied = {} /\ DOMAIN clock = {}
  BY <1>1, <1>3 DEF Applied
<1>5. other \in DOMAIN Others
  <2>1. Others \in Seq(Range(Others)) /\ Others # << >>
    BY OthersAssumption
  <2>2. QED
    BY <1>3, <2>1
<1>6. TypeOK
  BY <1>1, <1>2, <1>3, <1>4, <1>5 DEF TypeOK
<1>7. Shaped /\ UniqueNames(row) /\ Linear(row)
  BY <1>1, <1>2, <1>3, <1>4 DEF Shaped
<1>8. ClocksRemember
  BY <1>4 DEF ClocksRemember, Remembers, Writes
<1>9. FieldsHold
  BY <1>4 DEF FieldsHold
<1>10. QED
  BY <1>6, <1>7, <1>8, <1>9 DEF IInv

LEMMA InductiveStep ==
    ASSUME IInv, [Next]_vars
    PROVE  IInv'
<1>1. ASSUME NEW c \in scene.commands, Fresh(c), Perform(c), UNCHANGED scene
      PROVE  IInv'
  <2>1. c \in Command
    BY DEF IInv, Shaped
  <2>2. ASSUME NEW kind, NEW requests
        PROVE  Asked(kind, requests) \subseteq requests
    BY DEF Asked
  <2>3. CASE \E q \in ConfigureRequests : Configure(c, q)
    BY <1>1, <2>1, <2>3, ConfigureStep
  <2>4. CASE \E q \in ReconfigureRequests : Reconfigure(c, q)
    BY <1>1, <2>1, <2>4, ReconfigureStep
  <2>5. ASSUME NEW q \in ConfigLifecycleRequests \cup IngredientLifecycleRequests
                            \cup RecipeLifecycleRequests, SetLifecycle(c, q)
        PROVE  IInv'
    <3>1. /\ q.kind \in Lifecycles /\ q.time \in Nat /\ q.value \in BOOLEAN
          /\ q.at \in Configurable \cup Rows("ingredient") \cup Rows("recipe")
      BY WallTimesAssumption DEF ConfigLifecycleRequests, IngredientLifecycleRequests,
                                 RecipeLifecycleRequests, Lifecycles
    <3>2. q.at \in DOMAIN row /\ q.at[1] \in {"ingredient", "recipe"} \cup Config
      <4>1. CASE q.at \in Configurable
        <5>1. q.at \in Configured /\ q.at \in DOMAIN row
          BY <4>1 DEF Configurable
        <5>2. q.at \in Key
          BY <5>1, KeysAre
        <5>3. QED
          BY <5>1, <5>2, KeyIs
      <4>2. CASE q.at \in Rows("ingredient") \cup Rows("recipe")
        BY <4>2 DEF Rows
      <4>3. QED
        BY <3>1, <4>1, <4>2
    <3>3. QED
      BY <1>1, <2>1, <2>5, <3>1, <3>2, LifecycleStep
  <2>6. CASE \E q \in ConfigLifecycleRequests : SetLifecycle(c, q)
    BY <2>5, <2>6
  <2>7. CASE \E q \in CreateIngredientRequests : CreateIngredient(c, q)
    BY <1>1, <2>1, <2>7, CreateIngredientStep
  <2>8. CASE \E q \in PublishIngredientRequests : PublishIngredient(c, q)
    BY <1>1, <2>1, <2>8, PublishIngredientStep
  <2>9. CASE \E q \in PublishPriceRequests : PublishPrice(c, q)
    BY <1>1, <2>1, <2>9, PublishPriceStep
  <2>10. CASE \E q \in IngredientLifecycleRequests : SetIngredientLifecycle(c, q)
    BY <2>5, <2>10 DEF SetIngredientLifecycle
  <2>11. CASE \E q \in CreateRecipeRequests : CreateRecipe(c, q)
    BY <1>1, <2>1, <2>11, CreateRecipeStep
  <2>12. CASE \E q \in PublishRecipeRequests : PublishRecipe(c, q)
    BY <1>1, <2>1, <2>12, PublishRecipeStep
  <2>13. CASE \E q \in UpdateRecipeRequests : UpdateRecipe(c, q)
    BY <1>1, <2>1, <2>13, UpdateRecipeStep
  <2>14. CASE \E q \in RecipeLifecycleRequests : SetRecipeLifecycle(c, q)
    BY <2>5, <2>14 DEF SetRecipeLifecycle
  <2>15. CASE \E q \in CopyIngredientRequests : CopyIngredient(c, q)
    BY <1>1, <2>1, <2>15, CopyIngredientStep
  <2>16. CASE \E q \in CopyRecipeRequests : CopyRecipe(c, q)
    BY <1>1, <2>1, <2>16, CopyRecipeStep
  <2>17. QED
    BY <1>1, <2>2, <2>3, <2>4, <2>6, <2>7, <2>8, <2>9, <2>10, <2>11, <2>12, <2>13, <2>14,
       <2>15, <2>16 DEF Perform
<1>2. ASSUME NEW c \in scene.commands, Malformed(c) \/ Retry(c), UNCHANGED <<row, other, scene>>
      PROVE  IInv'
  <2>1. c \in Command
    BY DEF IInv, Shaped
  <2>2. CASE Malformed(c)
    BY <1>2, <2>1, <2>2, RefusedStep DEF Malformed, Refuse
  <2>3. CASE UNCHANGED logVars
    <3>1. /\ Applied' = Applied /\ retained' \in [Command -> Outcome \cup {"none"}]
          /\ aborted' \subseteq Command /\ other' \in DOMAIN Others
      BY <1>2, <2>3 DEF logVars, Applied, IInv, TypeOK
    <3>2. QED
      BY <1>2, <2>3, <3>1, QuietStep DEF logVars
  <2>4. QED
    BY <1>2, <2>2, <2>3 DEF Retry
<1>3. CASE OtherEdits \/ UNCHANGED vars
  <2>1. UNCHANGED <<logVars, row, scene>> /\ other' \in DOMAIN Others
    <3>1. CASE OtherEdits
      <4>1. Others \in Seq(Range(Others)) /\ other \in DOMAIN Others
        BY OthersAssumption DEF IInv, TypeOK
      <4>2. other' = other + 1 /\ other < Len(Others)
        BY <3>1 DEF OtherEdits
      <4>3. QED
        BY <3>1, <4>1, <4>2 DEF OtherEdits
    <3>2. CASE UNCHANGED vars
      BY <3>2 DEF vars, IInv, TypeOK
    <3>3. QED
      BY <1>3, <3>1, <3>2
  <2>2. /\ Applied' = Applied /\ retained' \in [Command -> Outcome \cup {"none"}]
        /\ aborted' \subseteq Command
    BY <2>1 DEF logVars, Applied, IInv, TypeOK
  <2>3. QED
    BY <2>1, <2>2, QuietStep DEF logVars
<1>4. QED
  BY <1>1, <1>2, <1>3 DEF Next

LEMMA Induction == Spec => []IInv
  BY InitialState, InductiveStep, PTL DEF Spec

-----------------------------------------------------------------------------
(* The invariants. *)

(* Every row has its type and refers to rows that are there, whatever is        *)
(* published, edited and copied in whatever order.                           *)
THEOREM CatalogTypes == Spec => []TypeOK
<1>1. IInv => TypeOK
  BY DEF IInv
<1>2. QED
  BY <1>1, Induction, PTL

(* No two rows of a configuration table ever have one name: neither commands nor *)
(* copied tags take a name that a retired row has.                            *)
THEOREM NamesUnique == Spec => []NamesStayUnique
<1>1. IInv => NamesStayUnique
  BY DEF IInv, NamesStayUnique
<1>2. QED
  BY <1>1, Induction, PTL

(* The versions of every recipe stay one line of edits up to the current one.    *)
THEOREM LinearHistory == Spec => []RecipeHistoryIsLinear
<1>1. IInv => RecipeHistoryIsLinear
  BY DEF IInv, RecipeHistoryIsLinear
<1>2. QED
  BY <1>1, Induction, PTL

LEMMA LatestWriter ==
    ASSUME IInv, NEW f, Writes(f) # {}
    PROVE  /\ f \in DOMAIN clock /\ Latest(Writes(f)) = clock[f][2]
           /\ clock[f][2] \in Writes(f)
<1>1. Remembers(clock, request, f, Writes(f))
  BY DEF IInv, ClocksRemember
<1>2. Writes(f) \in SUBSET Command /\ \A c \in Writes(f) : request[c].time \in Nat
  BY DEF IInv, Shaped, Writes, Applied
<1>3. QED
  BY <1>1, <1>2, LatestIs DEF Remembers

(* What the last writer of a field of a row left there. *)
LEMMA LastWriterHolds ==
    ASSUME IInv, NEW k \in DOMAIN row, NEW x \in Columns(k), Writes(<<k, x>>) # {}
    PROVE  LET last == Latest(Writes(<<k, x>>))
           IN  last \in Writes(<<k, x>>) /\ Holds(row[k][x], x, last, request[last])
  BY LatestWriter DEF IInv, FieldsHold

LEMMA LatestValues == ASSUME IInv PROVE LatestWriteHolds
<1>1. ASSUME NEW k \in Configurable, NEW f \in {"name", "detail"},
             NEW writes, writes = {c \in AppliedOf({"configure", "reconfigure"}) : request[c].at = k},
             writes # {}
      PROVE  row[k][f] = request[Latest(writes)][f]
  <2>1. k \in DOMAIN row /\ k \in Configured /\ k[1] \in Config /\ k[2] \notin Copied
    BY KeyIs, KeysAre DEF Configurable
  <2>2. f \in Columns(k)
    BY <2>1 DEF Columns, Config
  <2>3. <<k, f>>[1] = k /\ <<k, f>>[2] = f /\ \A x, y : <<k, f>> = <<x, y>> => k = x /\ f = y
    OBVIOUS
  <2>4. ASSUME NEW c \in Applied
        PROVE  AimsAt(c, request[c], <<k, f>>) <=> c \in writes
    <3>1. c \in writes <=> request[c].kind \in {"configure", "reconfigure"} /\ request[c].at = k
      BY <1>1 DEF AppliedOf
    <3>2. CASE request[c].kind \in {"configure", "reconfigure"}
      BY <2>3, <3>1, <3>2 DEF AimsAt, Lifecycles
    <3>3. CASE request[c].kind = "copy_ingredient"
      <4>1. AimsAt(c, request[c], <<k, f>>) => <<k, f>>[1][2] \in Copied
        BY <3>3 DEF IInv, Shaped
      <4>2. QED
        BY <2>1, <2>3, <3>1, <3>3, <4>1
    <3>4. CASE request[c].kind \notin {"configure", "reconfigure", "copy_ingredient"}
      BY <2>3, <3>1, <3>4 DEF AimsAt
    <3>5. QED
      BY <3>2, <3>3, <3>4
  <2>5. Writes(<<k, f>>) = writes
    BY <1>1, <2>4 DEF Writes, AppliedOf
  <2>6. Latest(writes) \in writes /\ Holds(row[k][f], f, Latest(writes), request[Latest(writes)])
    BY <1>1, <2>1, <2>2, <2>5, LastWriterHolds
  <2>7. QED
    BY <1>1, <2>6 DEF Holds, AppliedOf
<1>2. ASSUME NEW k \in DOMAIN row,
             NEW writes, writes = {c \in AppliedOf(Lifecycles) : request[c].at = k},
             writes # {}, NEW last, last = Latest(writes \cup Makers(k))
      PROVE  row[k].retired = (last \in writes /\ request[last].value)
  <2>1. "retired" \in Columns(k)
    BY DEF Columns
  <2>2. /\ \A x, y : <<k, "retired">> = <<x, y>> => k = x /\ "retired" = y
        /\ <<k, "retired">>[1] = k /\ <<k, "retired">>[2] = "retired"
    OBVIOUS
  <2>3. ASSUME NEW c \in Applied
        PROVE  AimsAt(c, request[c], <<k, "retired">>) <=> c \in writes \/ k \in MadeBy(c)
    <3>1. c \in writes <=> request[c].kind \in Lifecycles /\ request[c].at = k
      BY <1>2 DEF AppliedOf
    <3>2. CASE request[c].kind \in Lifecycles \cup {"configure"}
      BY <2>2, <3>1, <3>2 DEF AimsAt, MadeBy, Lifecycles
    <3>3. CASE request[c].kind = "copy_ingredient"
      <4>1. <<k, "retired">> \in CopiedClocks(c, request[c]) <=> k \in MadeBy(c)
        <5>1. ASSUME k \in MadeBy(c)
              PROVE  <<k, "retired">> \in CopiedClocks(c, request[c])
          <6>1. CASE k = I(<<c, 0>>)
            BY <6>1 DEF CopiedClocks
          <6>2. CASE \E t \in NewTagsOf(request[c]) : k = DT(<<c, t>>)
            <7>1. PICK t \in NewTagsOf(request[c]) : k = DT(<<c, t>>)
              BY <6>2
            <7>2. /\ <<t, "retired">> \in NewTagsOf(request[c]) \X {"name", "detail", "retired"}
                  /\ <<t, "retired">>[1] = t /\ <<t, "retired">>[2] = "retired"
              OBVIOUS
            <7>3. QED
              BY <7>1, <7>2 DEF CopiedClocks
          <6>3. QED
            BY <3>3, <5>1, <6>1, <6>2 DEF MadeBy
        <5>2. ASSUME <<k, "retired">> \in CopiedClocks(c, request[c])
              PROVE  k \in MadeBy(c)
          BY <2>2, <3>3, <5>2 DEF CopiedClocks, MadeBy
        <5>3. QED
          BY <5>1, <5>2
      <4>2. QED
        BY <3>1, <3>3, <4>1 DEF AimsAt, Lifecycles
    <3>4. CASE request[c].kind \notin Lifecycles \cup {"configure", "copy_ingredient"}
      BY <2>2, <3>1, <3>4 DEF AimsAt, MadeBy
    <3>5. QED
      BY <3>2, <3>3, <3>4
  <2>4. Writes(<<k, "retired">>) = writes \cup Makers(k)
    BY <1>2, <2>3 DEF Writes, Makers, AppliedOf
  <2>5. last \in writes \cup Makers(k) /\ Holds(row[k]["retired"], "retired", last, request[last])
    BY <1>2, <2>1, <2>4, LastWriterHolds
  <2>6. last \in writes <=> request[last].kind \in Lifecycles
    <3>1. last \in Makers(k) => request[last].kind \notin Lifecycles
      BY DEF Makers, MadeBy, Lifecycles
    <3>2. QED
      BY <1>2, <2>5, <3>1 DEF AppliedOf
  <2>7. QED
    BY <2>5, <2>6 DEF Holds
<1>3. ASSUME NEW i \in Ids("ingredient")
      PROVE  I(i) \in DOMAIN row /\ "price" \in Columns(I(i)) /\ "current" \in Columns(I(i))
  BY IdsOfRow, KeysAre DEF Columns
<1>4. ASSUME NEW i, NEW c \in Applied, request[c].kind = "configure"
      PROVE  I(i) \notin MadeBy(c)
  <2>1. request[c].at \in Configured
    BY <1>4 DEF IInv, Shaped
  <2>2. request[c].at[1] \in Config /\ I(i)[1] = "ingredient"
    BY <2>1, KeysAre, KeyIs
  <2>3. QED
    BY <1>4, <2>2 DEF MadeBy, Config
<1>5. ASSUME NEW i, NEW x \in {"price", "current"}, NEW kind,
             kind = IF x = "price" THEN "publish_price" ELSE "publish_ingredient",
             NEW writes, writes = {c \in AppliedOf({kind}) : request[c].ingredient = i}
      PROVE  Writes(<<I(i), x>>) = writes \cup Makers(I(i))
  <2>1. /\ \A y, z : <<I(i), x>> = <<y, z>> => I(i) = y /\ x = z
        /\ \A y : I(i) = I(y) => i = y
        /\ \A y : I(i) # DT(y)
    BY KeysAre
  <2>2. ASSUME NEW c \in Applied
        PROVE  AimsAt(c, request[c], <<I(i), x>>) <=> c \in writes \/ I(i) \in MadeBy(c)
    <3>1. c \in writes <=> request[c].kind = kind /\ request[c].ingredient = i
      BY <1>5 DEF AppliedOf
    <3>2. CASE request[c].kind = "copy_ingredient"
      <4>1. <<I(i), x>> \in CopiedClocks(c, request[c]) <=> I(i) = I(<<c, 0>>)
        BY <2>1 DEF CopiedClocks
      <4>2. I(i) \in MadeBy(c) <=> I(i) = I(<<c, 0>>)
        BY <2>1, <3>2 DEF MadeBy
      <4>3. QED
        BY <1>5, <3>1, <3>2, <4>1, <4>2 DEF AimsAt, Lifecycles
    <3>3. CASE request[c].kind = "configure"
      BY <1>4, <1>5, <2>1, <3>1, <3>3 DEF AimsAt, Lifecycles
    <3>4. CASE request[c].kind \notin {"configure", "copy_ingredient"}
      <4>1. I(i) \notin MadeBy(c)
        BY <3>4 DEF MadeBy
      <4>2. QED
        BY <1>5, <2>1, <3>1, <3>4, <4>1 DEF AimsAt, Lifecycles
    <3>5. QED
      BY <3>2, <3>3, <3>4
  <2>3. QED
    BY <1>5, <2>2 DEF Writes, Makers, AppliedOf
<1>6. ASSUME NEW i \in Ids("ingredient"),
             NEW prices, prices = {c \in AppliedOf({"publish_price"}) : request[c].ingredient = i},
             prices # {}, NEW price, price = Latest(prices \cup Makers(I(i)))
      PROVE  row[I(i)].price = IF price \in prices THEN request[price].price ELSE None
  <2>1. Writes(<<I(i), "price">>) = prices \cup Makers(I(i))
    BY <1>5, <1>6
  <2>2. /\ price \in prices \cup Makers(I(i))
        /\ Holds(row[I(i)]["price"], "price", price, request[price])
    BY <1>3, <1>6, <2>1, LastWriterHolds
  <2>3. price \in prices <=> request[price].kind = "publish_price"
    <3>1. price \in Makers(I(i)) => request[price].kind # "publish_price"
      BY DEF Makers, MadeBy
    <3>2. QED
      BY <1>6, <2>2, <3>1 DEF AppliedOf
  <2>4. QED
    BY <2>2, <2>3 DEF Holds
<1>7. ASSUME NEW i \in Ids("ingredient"), NEW versions,
             versions = {c \in AppliedOf({"publish_ingredient"}) : request[c].ingredient = i},
             versions # {}, NEW version, version = Latest(versions \cup Makers(I(i)))
      PROVE  IF version \in versions THEN Current(i) = request[version].version
             ELSE Current(i)[1] = version
  <2>1. Writes(<<I(i), "current">>) = versions \cup Makers(I(i))
    BY <1>5, <1>7
  <2>2. /\ version \in versions \cup Makers(I(i))
        /\ Holds(row[I(i)]["current"], "current", version, request[version])
    BY <1>3, <1>7, <2>1, LastWriterHolds
  <2>3. version \in versions <=> request[version].kind = "publish_ingredient"
    <3>1. version \in Makers(I(i)) => request[version].kind # "publish_ingredient"
      BY DEF Makers, MadeBy
    <3>2. QED
      BY <1>7, <2>2, <3>1 DEF AppliedOf
  <2>4. QED
    BY <2>2, <2>3 DEF Holds, Current
<1>8. \A k \in Configurable : \A f \in {"name", "detail"} :
         LET writes == {c \in AppliedOf({"configure", "reconfigure"}) : request[c].at = k}
         IN  writes # {} => row[k][f] = request[Latest(writes)][f]
  BY <1>1
<1>9. ASSUME NEW k \in DOMAIN row
      PROVE  LET writes == {c \in AppliedOf(Lifecycles) : request[c].at = k}
                 last == Latest(writes \cup Makers(k))
             IN  writes # {} => row[k].retired = (last \in writes /\ request[last].value)
  <2>1. PICK ws : ws = {c \in AppliedOf(Lifecycles) : request[c].at = k}
    OBVIOUS
  <2>2. PICK l : l = Latest(ws \cup Makers(k))
    OBVIOUS
  <2>3. ws # {} => row[k].retired = (l \in ws /\ request[l].value)
    BY <1>2, <2>1, <2>2
  <2>4. QED
    BY <2>1, <2>2, <2>3
<1>10. ASSUME NEW i \in Ids("ingredient")
       PROVE  LET prices == {c \in AppliedOf({"publish_price"}) : request[c].ingredient = i}
                  versions == {c \in AppliedOf({"publish_ingredient"}) : request[c].ingredient = i}
                  price == Latest(prices \cup Makers(I(i)))
                  version == Latest(versions \cup Makers(I(i)))
              IN  /\ prices # {} =>
                        row[I(i)].price = IF price \in prices THEN request[price].price ELSE None
                  /\ versions # {} => IF version \in versions
                                      THEN Current(i) = request[version].version
                                      ELSE Current(i)[1] = version
  <2>1. PICK ps : ps = {c \in AppliedOf({"publish_price"}) : request[c].ingredient = i}
    OBVIOUS
  <2>2. PICK p : p = Latest(ps \cup Makers(I(i)))
    OBVIOUS
  <2>3. ps # {} => row[I(i)].price = IF p \in ps THEN request[p].price ELSE None
    BY <1>6, <2>1, <2>2
  <2>4. PICK vs : vs = {c \in AppliedOf({"publish_ingredient"}) : request[c].ingredient = i}
    OBVIOUS
  <2>5. PICK v : v = Latest(vs \cup Makers(I(i)))
    OBVIOUS
  <2>6. vs # {} => IF v \in vs THEN Current(i) = request[v].version ELSE Current(i)[1] = v
    BY <1>7, <2>4, <2>5
  <2>7. QED
    BY <2>1, <2>2, <2>3, <2>4, <2>5, <2>6
<1>11. QED
  BY <1>8, <1>9, <1>10 DEF LatestWriteHolds

(* Each field with a clock has what the latest of the commands that wrote it left *)
(* there, a copy's among them, whatever the order in which they arrived.       *)
THEOREM LatestWrites == Spec => []LatestWriteHolds
<1>1. IInv => LatestWriteHolds
  BY LatestValues
<1>2. QED
  BY <1>1, Induction, PTL

-----------------------------------------------------------------------------
(* What a command does when it is applied. *)

LEMMA AppliedIsPerformed ==
    ASSUME IInv, [Next]_vars, NEW c \in Command, Becomes(c)
    PROVE  Fresh(c) /\ Perform(c)
<1>1. retained \in [Command -> Outcome \cup {"none"}] /\ scene.commands \subseteq Command
  BY DEF IInv, TypeOK, Shaped
<1>2. retained' # retained
  BY DEF Becomes
<1>3. ~OtherEdits /\ ~UNCHANGED vars
  BY <1>2 DEF OtherEdits, vars, logVars
<1>4. ASSUME NEW d \in scene.commands, Malformed(d) \/ Retry(d)
      PROVE  FALSE
  <2>1. CASE UNCHANGED logVars
    BY <1>2, <2>1 DEF logVars
  <2>2. CASE Malformed(d)
    BY <1>1, <2>2 DEF Malformed, Reject, Becomes
  <2>3. QED
    BY <1>4, <2>1, <2>2 DEF Retry
<1>5. PICK d \in scene.commands : Fresh(d) /\ Perform(d)
  BY <1>3, <1>4 DEF Next
<1>6. retained'[c] # retained[c]
  BY DEF Becomes
<1>7. \E outcome : retained' = [retained EXCEPT ![d] = outcome]
  <2>1. Reject(d) => \E outcome : retained' = [retained EXCEPT ![d] = outcome]
    BY DEF Reject
  <2>2. \A q, outcome, won, records : Conclude(d, q, outcome, won, records) =>
           retained' = [retained EXCEPT ![d] = outcome]
    BY DEF Conclude
  <2>3. Abort(d) => FALSE
    BY <1>2 DEF Abort
  <2>4. \/ Reject(d) \/ Abort(d)
        \/ \E q, outcome, won, records : Conclude(d, q, outcome, won, records)
    BY <1>5 DEF Perform, Configure, Reconfigure, SetLifecycle, CreateIngredient,
                PublishIngredient, PublishPrice, SetIngredientLifecycle, CreateRecipe,
                PublishRecipe, Publish, UpdateRecipe, SetRecipeLifecycle, CopyIngredient,
                CopyRecipe, Refuse, Break, Commit
  <2>5. QED
    BY <2>1, <2>2, <2>3, <2>4
<1>8. d = c
  BY <1>1, <1>6, <1>7
<1>9. QED
  BY <1>5, <1>8

(* Which request an applied command made. *)
LEMMA PerformedAs ==
    ASSUME IInv, [Next]_vars, NEW c \in Command, Becomes(c)
    PROVE  /\ request'[c].kind = "publish_ingredient" =>
                 request'[c] \in PublishIngredientRequests /\ ~PublishRefused(request'[c])
           /\ request'[c].kind = "update_recipe" =>
                 /\ request'[c] \in UpdateRecipeRequests /\ UpdateHolds(request'[c])
                 /\ row' = Overlaid(row, RecipeRecords(request'[c], request'[c].base,
                                                       Normalized(request'[c])))
           /\ request'[c].kind = "copy_ingredient" =>
                 /\ request'[c] \in CopyIngredientRequests /\ Fresh(c)
                 /\ ~CopyIngredientRefused(request'[c])
                 /\ row' = Overlaid(row, CopiedRows(c, request'[c]))
<1>1. Fresh(c) /\ Perform(c) /\ DOMAIN request = Command
  BY AppliedIsPerformed DEF IInv, Shaped
<1>2. retained \in [Command -> Outcome \cup {"none"}]
  BY DEF IInv, TypeOK
<1>3. ~Refuse(c) /\ ~Break(c)
  BY <1>2 DEF Refuse, Break, Reject, Abort, Becomes
<1>4. \A q, outcome, rows, won : Commit(c, q, outcome, rows, won) =>
         request'[c] = q /\ row' = Overlaid(row, rows)
  BY <1>1 DEF Commit, Conclude
<1>5. ASSUME NEW kind, NEW requests
      PROVE  Asked(kind, requests) \subseteq requests
  BY DEF Asked
<1> DEFINE Others3(q) == q.kind \notin {"publish_ingredient", "update_recipe", "copy_ingredient"}
<1>6. ASSUME NEW q, SetLifecycle(c, q)
      PROVE  request'[c] = q
  BY <1>3, <1>4, <1>6 DEF SetLifecycle
<1>7. CASE \E q \in ConfigureRequests : Configure(c, q)
  <2>1. PICK q \in ConfigureRequests : Configure(c, q)
    BY <1>7
  <2>2. request'[c] = q /\ Others3(q)
    BY <1>3, <1>4, <2>1 DEF Configure, ConfigureRequests
  <2>3. QED
    BY <2>2
<1>8. CASE \E q \in ReconfigureRequests : Reconfigure(c, q)
  <2>1. PICK q \in ReconfigureRequests : Reconfigure(c, q)
    BY <1>8
  <2>2. request'[c] = q /\ Others3(q)
    BY <1>3, <1>4, <2>1 DEF Reconfigure, ReconfigureRequests
  <2>3. QED
    BY <2>2
<1>9. CASE \E q \in ConfigLifecycleRequests : SetLifecycle(c, q)
  BY <1>6, <1>9 DEF ConfigLifecycleRequests
<1>10. CASE \E q \in CreateIngredientRequests : CreateIngredient(c, q)
  <2>1. PICK q \in CreateIngredientRequests : CreateIngredient(c, q)
    BY <1>10
  <2>2. request'[c] = q /\ Others3(q)
    BY <1>3, <1>4, <2>1 DEF CreateIngredient, CreateIngredientRequests
  <2>3. QED
    BY <2>2
<1>11. CASE \E q \in PublishIngredientRequests : PublishIngredient(c, q)
  <2>1. PICK q \in PublishIngredientRequests : PublishIngredient(c, q)
    BY <1>11
  <2>2. request'[c] = q /\ ~PublishRefused(q) /\ q.kind = "publish_ingredient"
    BY <1>3, <1>4, <2>1 DEF PublishIngredient, PublishIngredientRequests
  <2>3. QED
    BY <2>1, <2>2
<1>12. CASE \E q \in PublishPriceRequests : PublishPrice(c, q)
  <2>1. PICK q \in PublishPriceRequests : PublishPrice(c, q)
    BY <1>12
  <2>2. request'[c] = q /\ Others3(q)
    BY <1>3, <1>4, <2>1 DEF PublishPrice, PublishPriceRequests
  <2>3. QED
    BY <2>2
<1>13. CASE \E q \in IngredientLifecycleRequests : SetIngredientLifecycle(c, q)
  BY <1>6, <1>13 DEF IngredientLifecycleRequests, SetIngredientLifecycle
<1>14. CASE \E q \in CreateRecipeRequests : CreateRecipe(c, q)
  <2>1. PICK q \in CreateRecipeRequests : CreateRecipe(c, q)
    BY <1>14
  <2>2. request'[c] = q /\ Others3(q)
    BY <1>3, <1>4, <2>1 DEF CreateRecipe, CreateRecipeRequests
  <2>3. QED
    BY <2>2
<1>15. CASE \E q \in PublishRecipeRequests : PublishRecipe(c, q)
  <2>1. PICK q \in PublishRecipeRequests : PublishRecipe(c, q)
    BY <1>15
  <2>2. request'[c] = q /\ Others3(q)
    BY <1>3, <1>4, <2>1 DEF PublishRecipe, Publish, PublishRecipeRequests
  <2>3. QED
    BY <2>2
<1>16. CASE \E q \in UpdateRecipeRequests : UpdateRecipe(c, q)
  <2>1. PICK q \in UpdateRecipeRequests : UpdateRecipe(c, q)
    BY <1>16
  <2>2. UpdateHolds(q) /\ Publish(c, q, Normalized(q)) /\ q.kind = "update_recipe"
    BY <1>3, <2>1 DEF UpdateRecipe, UpdateRecipeRequests
  <2>3. /\ request'[c] = q
        /\ row' = Overlaid(row, RecipeRecords(q, q.base, Normalized(q)))
    BY <1>3, <1>4, <2>2 DEF Publish
  <2>4. QED
    BY <2>1, <2>2, <2>3
<1>17. CASE \E q \in RecipeLifecycleRequests : SetRecipeLifecycle(c, q)
  BY <1>6, <1>17 DEF RecipeLifecycleRequests, SetRecipeLifecycle
<1>18. CASE \E q \in CopyIngredientRequests : CopyIngredient(c, q)
  <2>1. PICK q \in CopyIngredientRequests : CopyIngredient(c, q)
    BY <1>18
  <2>2. /\ ~CopyIngredientRefused(q) /\ q.kind = "copy_ingredient"
        /\ Commit(c, q, "accepted", CopiedRows(c, q), CopiedClocks(c, q))
    BY <1>3, <2>1 DEF CopyIngredient, CopyIngredientRequests
  <2>3. request'[c] = q /\ row' = Overlaid(row, CopiedRows(c, q))
    BY <1>4, <2>2
  <2>4. QED
    BY <1>1, <2>1, <2>2, <2>3
<1>19. CASE \E q \in CopyRecipeRequests : CopyRecipe(c, q)
  <2>1. PICK q \in CopyRecipeRequests : CopyRecipe(c, q)
    BY <1>19
  <2>2. request'[c].kind = q.kind
    BY <1>3, <1>4, <2>1 DEF CopyRecipe
  <2>3. q.kind = "copy_recipe"
    BY DEF CopyRecipeRequests
  <2>4. QED
    BY <2>2, <2>3
<1>20. QED
  BY <1>1, <1>5, <1>7, <1>8, <1>9, <1>10, <1>11, <1>12, <1>13, <1>14, <1>15, <1>16, <1>17,
     <1>18, <1>19 DEF Perform

(* A published version has no retired tag but those of the version it was made   *)
(* from, whatever the current version has by then.                           *)
THEOREM TagsStayLive == Spec => NoNewRetiredTag
<1>1. ASSUME IInv, [Next]_vars, NEW c \in Command, Becomes(c),
             request'[c].kind = "publish_ingredient", NEW t \in request'[c].tags
      PROVE  Live(DT(t)) \/ t \in row[IV(request'[c].base)].tags
  <2>1. ~PublishRefused(request'[c])
    BY <1>1, PerformedAs
  <2>2. \A x \in NewTags(request'[c]) : Live(DT(x))
    BY <2>1 DEF PublishRefused, ReferencesHold
  <2>3. QED
    BY <1>1, <2>2 DEF NewTags
<1>2. IInv /\ [Next]_vars =>
         [\A c \in Command :
             Becomes(c) /\ request'[c].kind = "publish_ingredient" =>
                \A t \in request'[c].tags :
                   Live(DT(t)) \/ t \in row[IV(request'[c].base)].tags]_vars
  BY <1>1
<1>3. QED
  BY <1>2, Induction, PTL DEF Spec, NoNewRetiredTag

LEMMA LinesWritten ==
    ASSUME NEW rw, NEW q, NEW base, NEW lines
    PROVE  Overlaid(rw, RecipeRecords(q, base, lines))[RV(q.version)].lines = lines
<1> DEFINE rows == RecipeRecords(q, base, lines)
<1>1. RV(q.version) \in DOMAIN rows /\ rows[RV(q.version)] = RecipeVersionRow(q, base, lines)
  BY RecordsAre
<1>2. RecipeVersionRow(q, base, lines).lines = lines
  BY DEF RecipeVersionRow
<1> HIDE DEF rows
<1>3. \A x \in DOMAIN rows : Overlaid(rw, rows)[x] = rows[x]
  BY OverlaidIs
<1>4. Overlaid(rw, rows)[RV(q.version)].lines = lines
  BY <1>1, <1>2, <1>3
<1>5. QED
  BY <1>4 DEF rows

(* What the update of a recipe does to the lines of the version it is made from. *)
LEMMA LinesFollow ==
    ASSUME IInv, [Next]_vars, NEW c \in Command, Becomes(c),
           request'[c].kind = "update_recipe"
    PROVE  LET q == request'[c]
               old == BaseLines(q)
               new == row'[RV(q.version)].lines
           IN  /\ DOMAIN new = DOMAIN old
               /\ \A l \in DOMAIN old :
                     /\ new[l].version = Current(IngredientOf(old[l].version))
                     /\ new[l].quantity * Factor[UnitOf(new[l].version)]
                          = old[l].quantity * Factor[UnitOf(old[l].version)]
<1> DEFINE q == request'[c]
           old == BaseLines(q)
           new == Normalized(q)
<1>1. /\ q \in UpdateRecipeRequests /\ UpdateHolds(q)
      /\ row' = Overlaid(row, RecipeRecords(q, q.base, new))
  BY PerformedAs
<1>2. row'[RV(q.version)].lines = new
  BY <1>1, LinesWritten
<1>3. DOMAIN new = DOMAIN q.lines /\ DOMAIN q.lines = DOMAIN old
  BY <1>1 DEF Normalized, UpdateHolds
<1>4. IsLines(q.lines)
  BY <1>1 DEF UpdateRecipeRequests, IInv, Shaped
<1>5. ASSUME NEW l \in DOMAIN old
      PROVE  /\ new[l].version = Current(IngredientOf(old[l].version))
             /\ new[l].quantity * Factor[UnitOf(new[l].version)]
                  = old[l].quantity * Factor[UnitOf(old[l].version)]
  <2>1. q.lines[l] \in [version : Server, quantity : Nat, display : Unit \cup {None}]
    BY <1>3, <1>4 DEF IsLines
  <2>2. PICK d : new[l] = [q.lines[l] EXCEPT !.display = d]
    BY <1>3 DEF Normalized
  <2>3. new[l].version = q.lines[l].version /\ new[l].quantity = q.lines[l].quantity
    BY <2>1, <2>2
  <2>4. LineFollows(old[l], q.lines[l])
    BY <1>1, <1>3 DEF UpdateHolds
  <2> HIDE DEF new, old, q
  <2>5. q.lines[l].version = Current(IngredientOf(old[l].version))
    BY <2>4 DEF LineFollows, Outdated
  <2>6. q.lines[l].quantity * Factor[UnitOf(q.lines[l].version)]
          = old[l].quantity * Factor[UnitOf(old[l].version)]
    <3>1. CASE Outdated(old[l]) /\ UnitOf(q.lines[l].version) # UnitOf(old[l].version)
      <4>1. SameAmount(old[l], q.lines[l])
        BY <2>4, <3>1 DEF LineFollows
      <4>2. QED
        BY <4>1 DEF SameAmount
    <3>2. CASE Outdated(old[l]) /\ UnitOf(q.lines[l].version) = UnitOf(old[l].version)
      <4>1. q.lines[l].quantity = old[l].quantity
        BY <2>4, <3>2 DEF LineFollows
      <4>2. QED
        BY <3>2, <4>1
    <3>3. CASE ~Outdated(old[l])
      <4>1. q.lines[l].version = old[l].version /\ q.lines[l].quantity = old[l].quantity
        BY <2>4, <3>3 DEF LineFollows
      <4>2. QED
        BY <4>1
    <3>4. QED
      BY <3>1, <3>2, <3>3
  <2>7. QED
    BY <2>3, <2>5, <2>6
<1>6. QED
  BY <1>2, <1>3, <1>5

(* A recipe-wide update brings each line to the current version of its ingredient *)
(* and leaves every amount what it was, in whatever unit.                    *)
THEOREM AmountsKept == Spec => UpdateKeepsAmounts
<1>1. IInv /\ [Next]_vars =>
         [\A c \in Command :
             Becomes(c) /\ request'[c].kind = "update_recipe" =>
                LET q == request'[c]
                    old == BaseLines(q)
                    new == row'[RV(q.version)].lines
                IN  /\ DOMAIN new = DOMAIN old
                    /\ \A l \in DOMAIN old :
                          /\ new[l].version = Current(IngredientOf(old[l].version))
                          /\ new[l].quantity * Factor[UnitOf(new[l].version)]
                               = old[l].quantity * Factor[UnitOf(old[l].version)]]_vars
  BY LinesFollow
<1>2. QED
  BY <1>1, Induction, PTL DEF Spec, UpdateKeepsAmounts

(* The versions of the copy that c makes. *)
CopiesOf(c, rows) == {k \in DOMAIN rows : k[1] = "ingredient_version" /\ rows[k].of = <<c, 0>>}

(* They are those of the source, one for one. *)
LEMMA CopiesAre ==
    ASSUME IInv, NEW c \in Command, Fresh(c), NEW q, ~CopyIngredientRefused(q),
           NEW rw, rw = Overlaid(row, CopiedRows(c, q)), NEW copies, copies = CopiesOf(c, rw)
    PROVE  /\ \A k \in DOMAIN CopiedRows(c, q) : k \in DOMAIN rw /\ rw[k] = CopiedRows(c, q)[k]
           /\ DOMAIN row \subseteq DOMAIN rw
           /\ copies = {IV(<<c, v>>) : v \in DOMAIN Source.versions}
           /\ Cardinality(copies) = Cardinality(DOMAIN Source.versions)
<1> DEFINE rows == CopiedRows(c, q)
           V == DOMAIN Source.versions
<1>1. /\ DOMAIN Overlaid(row, rows) = DOMAIN row \cup DOMAIN rows
      /\ \A k \in DOMAIN rows : Overlaid(row, rows)[k] = rows[k]
      /\ \A k \in DOMAIN row : k \notin DOMAIN rows => Overlaid(row, rows)[k] = row[k]
  BY OverlaidIs
<1>2. /\ DOMAIN rw = DOMAIN row \cup DOMAIN rows
      /\ \A k \in DOMAIN rows : rw[k] = rows[k]
      /\ \A k \in DOMAIN row : k \notin DOMAIN rows => rw[k] = row[k]
  BY <1>1
<1>3. DOMAIN rows = {Copy(c)} \cup {IV(<<c, v>>) : v \in V} \cup {DT(<<c, t>>) : t \in NewTagsOf(q)}
  BY CopiedRowsAre
<1>4. \A v \in V : rows[IV(<<c, v>>)] = CopiedVersion(c, q, Source.versions[v])
  BY CopiedRowsAre
<1> HIDE DEF rows
<1>5. \A v \in V : IV(<<c, v>>) \in copies
  <2>1. ASSUME NEW v \in V
        PROVE  IV(<<c, v>>) \in copies
    <3>1. IV(<<c, v>>) \in DOMAIN rw /\ rw[IV(<<c, v>>)] = CopiedVersion(c, q, Source.versions[v])
      BY <1>2, <1>3, <1>4
    <3>2. CopiedVersion(c, q, Source.versions[v]).of = <<c, 0>>
      BY DEF CopiedVersion
    <3>3. IV(<<c, v>>)[1] = "ingredient_version"
      BY KeysAre
    <3>4. QED
      BY <3>1, <3>2, <3>3 DEF CopiesOf
  <2>2. QED
    BY <2>1
<1>6. ASSUME NEW k \in copies
      PROVE  \E v \in V : k = IV(<<c, v>>)
  <2>1. k \in DOMAIN rw /\ k[1] = "ingredient_version" /\ rw[k].of = <<c, 0>>
    BY DEF CopiesOf
  <2>2. CASE k \in DOMAIN rows
    <3>1. Copy(c)[1] = "ingredient"
      BY KeysAre DEF Copy
    <3>2. \A t : DT(<<c, t>>)[1] = "dietary_tag"
      BY KeysAre
    <3>3. QED
      BY <1>3, <2>1, <2>2, <3>1, <3>2
  <2>3. CASE k \notin DOMAIN rows
    <3>1. k \in DOMAIN row /\ row[k].of = <<c, 0>>
      BY <1>2, <2>1, <2>3
    <3>2. I(<<c, 0>>) \in DOMAIN row
      BY <2>1, <3>1, RowIs, IInvIs
    <3>3. I(<<c, 0>>)[2] = <<c, 0>>
      BY KeysAre
    <3>4. QED
      BY <3>2, <3>3, NothingCopiedYet
  <2>4. QED
    BY <2>2, <2>3
<1>7. copies = {IV(<<c, v>>) : v \in V}
  BY <1>5, <1>6
<1>8. Cardinality(copies) = Cardinality(V)
  <2> DEFINE f == [v \in V |-> IV(<<c, v>>)]
  <2>1. \A v, w \in V : IV(<<c, v>>) = IV(<<c, w>>) => v = w
    BY DEF IV
  <2>2. f \in Bijection(V, copies)
    BY <1>5, <1>6, <2>1 DEF Bijection, Injection, Surjection, IsInjective
  <2>3. ExistsBijection(V, copies)
    BY <2>2 DEF ExistsBijection
  <2>4. IsFiniteSet(V)
    BY SourceIs
  <2>5. QED
    BY <2>3, <2>4, FS_Bijection
<1>9. QED
  BY <1>2, <1>7, <1>8 DEF rows

LEMMA HistoryIsKept ==
    ASSUME IInv, [Next]_vars, NEW c \in Command, Becomes(c),
           request'[c].kind = "copy_ingredient"
    PROVE  LET seen == Others[request'[c].seen].ingredient
               copies == {k \in DOMAIN row' : k[1] = "ingredient_version"
                                               /\ row'[k].of = <<c, 0>>}
           IN  /\ Cardinality(copies) = Cardinality(DOMAIN seen.versions)
               /\ row'[I(<<c, 0>>)].current = <<c, seen.current>>
               /\ \A v \in DOMAIN seen.versions :
                     LET copied == row'[IV(<<c, v>>)]
                         base == seen.versions[v].base
                     IN  /\ IF base = None THEN copied.base = None
                            ELSE IV(copied.base) \in copies /\ copied.base[2] = base
                         /\ Dimension[copied.unit] = Dimension[seen.versions[v].unit]
                         /\ U(copied.unit) \in DOMAIN row
                         /\ \A t \in copied.tags : DT(t) \in DOMAIN row'
<1>1. PICK q : q = request'[c]
  OBVIOUS
<1>2. PICK rw : rw = row'
  OBVIOUS
<1>3. /\ Fresh(c) /\ ~CopyIngredientRefused(q) /\ rw = Overlaid(row, CopiedRows(c, q))
  BY <1>1, <1>2, PerformedAs
<1>4. Others[q.seen].ingredient = Source
  BY <1>3 DEF CopyIngredientRefused
<1>5. PICK copies : copies = CopiesOf(c, rw)
  OBVIOUS
<1>6. /\ \A k \in DOMAIN CopiedRows(c, q) : k \in DOMAIN rw /\ rw[k] = CopiedRows(c, q)[k]
      /\ DOMAIN row \subseteq DOMAIN rw
      /\ copies = {IV(<<c, v>>) : v \in DOMAIN Source.versions}
      /\ Cardinality(copies) = Cardinality(DOMAIN Source.versions)
  <2> HIDE DEF Becomes
  <2>1. Fresh(c) /\ ~CopyIngredientRefused(q) /\ rw = Overlaid(row, CopiedRows(c, q))
    BY <1>3
  <2>2. QED
    BY ONLY IInv, <2>1, <1>5, CopiesAre
<1>d. DOMAIN CopiedRows(c, q) =
        {Copy(c)} \cup {IV(<<c, v>>) : v \in DOMAIN Source.versions}
          \cup {DT(<<c, t>>) : t \in NewTagsOf(q)}
  BY CopiedRowsAre
<1>7. rw[I(<<c, 0>>)].current = <<c, Source.current>>
  <2>1. Copy(c) \in DOMAIN CopiedRows(c, q)
    BY <1>d
  <2>2. CopiedRows(c, q)[Copy(c)] =
           [current |-> <<c, Source.current>>, price |-> None, retired |-> FALSE]
    BY CopiedRowsAre
  <2>3. rw[Copy(c)].current = <<c, Source.current>>
    BY <1>6, <2>1, <2>2
  <2>4. QED
    BY <2>3 DEF Copy
<1>8. ASSUME NEW v \in DOMAIN Source.versions, NEW copied, copied = rw[IV(<<c, v>>)],
             NEW base, base = Source.versions[v].base
      PROVE  /\ IF base = None THEN copied.base = None
                ELSE IV(copied.base) \in copies /\ copied.base[2] = base
             /\ Dimension[copied.unit] = Dimension[Source.versions[v].unit]
             /\ U(copied.unit) \in DOMAIN row
             /\ \A t \in copied.tags : DT(t) \in DOMAIN rw
  <2>1. copied = CopiedVersion(c, q, Source.versions[v])
    <3>1. IV(<<c, v>>) \in DOMAIN CopiedRows(c, q)
      BY <1>d
    <3>2. CopiedRows(c, q)[IV(<<c, v>>)] = CopiedVersion(c, q, Source.versions[v])
      BY CopiedRowsAre
    <3>3. QED
      BY <1>6, <1>8, <3>1, <3>2
  <2>2. /\ copied.base = IF base = None THEN None ELSE <<c, base>>
        /\ copied.unit = UnitFor(q, Source.versions[v].unit)
        /\ copied.tags = {TagFor(c, q, t) : t \in Source.versions[v].tags}
    BY <1>8, <2>1 DEF CopiedVersion, BaseCopied
  <2>3. base \in DOMAIN Source.versions \cup {None}
    BY <1>8, SourceIs
  <2>4. IF base = None THEN copied.base = None
        ELSE IV(copied.base) \in copies /\ copied.base[2] = base
    BY <1>6, <2>2, <2>3
  <2>5. U(copied.unit) \in DOMAIN row /\ Dimension[copied.unit] = Dimension[Source.versions[v].unit]
    BY <1>3, <2>2, MappedIs
  <2>6. ASSUME NEW t \in Source.versions[v].tags
        PROVE  DT(TagFor(c, q, t)) \in DOMAIN rw
    <3>1. \/ t \in NewTagsOf(q) /\ TagFor(c, q, t) = <<c, t>>
          \/ DT(TagFor(c, q, t)) \in DOMAIN row
      BY <1>3, MappedIs
    <3>2. ASSUME t \in NewTagsOf(q)
          PROVE  DT(<<c, t>>) \in DOMAIN CopiedRows(c, q)
      BY <3>2, <1>d
    <3>3. QED
      BY <1>6, <3>1, <3>2
  <2>7. \A t \in copied.tags : DT(t) \in DOMAIN rw
    BY <2>2, <2>6
  <2>8. QED
    BY <2>4, <2>5, <2>7
<1>9. \A v \in DOMAIN Source.versions :
         LET copied == rw[IV(<<c, v>>)]
             base == Source.versions[v].base
         IN  /\ IF base = None THEN copied.base = None
                ELSE IV(copied.base) \in copies /\ copied.base[2] = base
             /\ Dimension[copied.unit] = Dimension[Source.versions[v].unit]
             /\ U(copied.unit) \in DOMAIN row
             /\ \A t \in copied.tags : DT(t) \in DOMAIN rw
  BY <1>8
<1>10. QED
  BY <1>1, <1>2, <1>4, <1>5, <1>6, <1>7, <1>9 DEF CopiesOf

(* A copied ingredient has every version that the preview showed, each made from *)
(* the copy of the same one, and refers to units, tags and versions of this     *)
(* organization alone.                                                       *)
THEOREM HistoryCopied == Spec => CopyKeepsHistory
<1>1. IInv /\ [Next]_vars =>
         [\A c \in Command :
             Becomes(c) /\ request'[c].kind = "copy_ingredient" =>
                LET seen == Others[request'[c].seen].ingredient
                    copies == {k \in DOMAIN row' : k[1] = "ingredient_version"
                                                    /\ row'[k].of = <<c, 0>>}
                IN  /\ Cardinality(copies) = Cardinality(DOMAIN seen.versions)
                    /\ row'[I(<<c, 0>>)].current = <<c, seen.current>>
                    /\ \A v \in DOMAIN seen.versions :
                          LET copied == row'[IV(<<c, v>>)]
                              base == seen.versions[v].base
                          IN  /\ IF base = None THEN copied.base = None
                                 ELSE IV(copied.base) \in copies /\ copied.base[2] = base
                              /\ Dimension[copied.unit] = Dimension[seen.versions[v].unit]
                              /\ U(copied.unit) \in DOMAIN row
                              /\ \A t \in copied.tags : DT(t) \in DOMAIN row']_vars
  BY HistoryIsKept
<1>2. QED
  BY <1>1, Induction, PTL DEF Spec, CopyKeepsHistory
=============================================================================
