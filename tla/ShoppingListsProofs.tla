------------------------- MODULE ShoppingListsProofs -------------------------
(***************************************************************************)
(* Theorems of ShoppingLists, for any recipes, ingredients, plans, clients   *)
(* and clocks.                                                              *)
(*                                                                         *)
(* The inductive invariant says which write each clock remembers and that    *)
(* the row has its value, what the feed carries, and that the current         *)
(* revision has seen every contribution that has credit.  A second one, on top *)
(* of it, has the types: the amounts of a row are sums over its contributions, *)
(* and that they are numbers is shown by the least set that would not sum to   *)
(* one.                                                                     *)
(***************************************************************************)
EXTENDS ShoppingLists, FiniteSetTheorems, WellFoundedInduction, TLAPS

-----------------------------------------------------------------------------
(* The inductive invariant. *)

(* The columns that the proofs look at. *)
Shaped ==
    /\ retained \in [Command -> Outcome \cup {"none"}]
    /\ DOMAIN request = Command
    /\ \A c \in Applied : request[c].time \in Nat
    /\ {"name", "current"} \subseteq DOMAIN list
    /\ DOMAIN revision \subseteq Applied
    /\ DOMAIN row \subseteq Ingredient
    /\ \A i \in DOMAIN row : DOMAIN NewRow \subseteq DOMAIN row[i]
    /\ DOMAIN item \subseteq Item
    /\ \A x \in DOMAIN item : {"target", "section", "credit", "retired"} \subseteq DOMAIN item[x]

(* A list that is not there has nothing; one that is there has a revision. *)
Created ==
    /\ list = NoList =>
          /\ Applied = {} /\ DOMAIN clock = {} /\ DOMAIN revision = {}
          /\ DOMAIN row = {} /\ DOMAIN credit = {} /\ DOMAIN item = {}
    /\ list # NoList => <<"list", "current">> \in DOMAIN clock /\ list.current \in DOMAIN revision

(* In the clocks ck and the requests rq, field f has the stamp of the latest of *)
(* the commands in S, and no stamp without one.                               *)
Remembers(ck, rq, f, S) ==
    /\ f \in DOMAIN ck <=> S # {}
    /\ f \in DOMAIN ck =>
          /\ ck[f][2] \in S
          /\ ck[f] = StampOf(ck[f][2], rq[ck[f][2]])
          /\ \A d \in S : d # ck[f][2] => Later(ck[f], StampOf(d, rq[d]))

RowWrites(i, k) == {c \in AppliedOf({k}) : request[c].row = i}
ItemWrites(x, k) == {c \in AppliedOf({k}) : request[c].item = x}
RowClock(i, k) == <<"row", i, RowField[k]>>

ClocksRemember ==
    /\ Remembers(clock, request, <<"list", "current">>, AppliedOf({"create", "refresh"}))
    /\ Remembers(clock, request, <<"list", "name">>, AppliedOf({"rename"}))
    /\ \A i \in Ingredient, k \in DOMAIN RowField :
          Remembers(clock, request, RowClock(i, k), RowWrites(i, k))
    /\ \A x \in Item :
          /\ \A f \in ItemField :
                Remembers(clock, request, ItemClock(x, f), ItemWrites(x, "update_item"))
          /\ Remembers(clock, request, ItemClock(x, "lifecycle"), ItemWrites(x, "item_lifecycle"))

(* The request whose stamp a field has. *)
LastOf(f) == request[clock[f][2]]

ListIsTheirs ==
    /\ LET f == <<"list", "current">>
       IN  f \in DOMAIN clock => list # NoList /\ list.current = clock[f][2]
    /\ LET f == <<"list", "name">> IN f \in DOMAIN clock => list.name = LastOf(f).name

RowsAreTheirs ==
    \A i \in Ingredient, k \in DOMAIN RowField :
       RowClock(i, k) \in DOMAIN clock =>
          i \in DOMAIN row /\ row[i][k] = LastOf(RowClock(i, k)).value

ItemsAreTheirs ==
    \A x \in Item :
       LET t == ItemClock(x, "target_amount")
           s == ItemClock(x, "store_section_id")
           r == ItemClock(x, "lifecycle")
       IN  /\ t \in DOMAIN clock => x \in DOMAIN item /\ item[x].target = LastOf(t).target
           /\ s \in DOMAIN clock => x \in DOMAIN item /\ item[x].section = LastOf(s).section
           /\ r \in DOMAIN clock => x \in DOMAIN item /\ item[x].retired = LastOf(r).retire

IInv ==
    /\ Shaped /\ Created
    /\ ClocksRemember /\ ListIsTheirs /\ RowsAreTheirs /\ ItemsAreTheirs
    /\ FeedCarriesLists /\ CreditIsExplained

-----------------------------------------------------------------------------
(* Overlays and stamps. *)

LEMMA OverlaidIs ==
    ASSUME NEW f, NEW g
    PROVE  /\ DOMAIN Overlaid(f, g) = DOMAIN f \cup DOMAIN g
           /\ \A x \in DOMAIN g : Overlaid(f, g)[x] = g[x]
           /\ \A x \in DOMAIN f : x \notin DOMAIN g => Overlaid(f, g)[x] = f[x]
  BY DEF Overlaid

LEMMA OnlyIs ==
    ASSUME NEW x, NEW r
    PROVE  DOMAIN Only(x, r) = {x} /\ Only(x, r)[x] = r
  BY DEF Only

(* Later is a strict total order on stamps. *)
LEMMA LaterIsStrict ==
    ASSUME NEW s \in Stamp, NEW t \in Stamp
    PROVE  /\ ~Later(s, s)
           /\ ~(Later(s, t) /\ Later(t, s))
           /\ s # t => Later(s, t) \/ Later(t, s)
           /\ \A u \in Stamp : Later(s, t) /\ Later(t, u) => Later(s, u)
  BY DEF Stamp, Later

LEMMA StampTypes ==
    ASSUME NEW c \in Command, NEW req, req.time \in Nat
    PROVE  StampOf(c, req) \in Stamp /\ StampOf(c, req)[2] = c
  BY CommandAssumption DEF StampOf, Stamp

(* What the latest command of some is, when a clock remembers it. *)
LEMMA LatestIs ==
    ASSUME NEW f, NEW S \in SUBSET Command, \A c \in S : request[c].time \in Nat,
           Remembers(clock, request, f, S), S # {}
    PROVE  Latest(S) = clock[f][2] /\ clock[f][2] \in S
<1> DEFINE w == clock[f][2]
           Best(c) == \A d \in S \ {c} : Later(StampOf(c, request[c]), StampOf(d, request[d]))
<1>1. w \in S /\ Best(w)
  BY DEF Remembers
<1>2. ASSUME NEW c \in S, Best(c)
      PROVE  c = w
  <2>1. StampOf(c, request[c]) \in Stamp /\ StampOf(w, request[w]) \in Stamp
    BY <1>1, StampTypes
  <2>2. QED
    BY <1>1, <1>2, <2>1, LaterIsStrict
<1>3. Latest(S) = CHOOSE c \in S : Best(c)
  BY DEF Latest
<1> HIDE DEF Best
<1>4. QED
  BY <1>1, <1>2, <1>3

-----------------------------------------------------------------------------
(* What a step does to the log. *)

(* An applied command c adds its request and the clocks of the fields it won. *)
Logs(c, req, fields) ==
    /\ c \in Command \ Applied
    /\ Applied' = Applied \cup {c}
    /\ request'[c] = req
    /\ \A d \in Applied : request'[d] = request[d]
    /\ DOMAIN clock' = DOMAIN clock \cup fields
    /\ \A f \in fields : clock'[f] = StampOf(c, req)
    /\ \A f \in DOMAIN clock : f \notin fields => clock'[f] = clock[f]

LEMMA ConcludeLogs ==
    ASSUME Shaped, NEW c \in Command, Fresh(c), NEW req, NEW fields, NEW records,
           NEW outcome \in {"accepted", "partially_superseded"},
           Conclude(c, req, outcome, fields, records)
    PROVE  /\ Logs(c, req, fields)
           /\ shown' = Overlaid(shown, records)
           /\ retained' \in [Command -> Outcome \cup {"none"}]
           /\ DOMAIN request' = Command
<1>1. /\ retained' = [retained EXCEPT ![c] = outcome]
      /\ request' = [request EXCEPT ![c] = req]
      /\ clock' = Overlaid(clock, [f \in fields |-> StampOf(c, req)])
      /\ shown' = Overlaid(shown, records)
  BY DEF Conclude
<1>2. c \notin Applied /\ Applied' = Applied \cup {c}
  BY <1>1 DEF Shaped, Fresh, Applied
<1>3. /\ request'[c] = req /\ DOMAIN request' = Command
      /\ \A d \in Applied : request'[d] = request[d]
  BY <1>1, <1>2 DEF Shaped
<1>4. retained' \in [Command -> Outcome \cup {"none"}]
  BY <1>1 DEF Shaped, Outcome
<1>5. /\ DOMAIN clock' = DOMAIN clock \cup fields
      /\ \A f \in fields : clock'[f] = StampOf(c, req)
      /\ \A f \in DOMAIN clock : f \notin fields => clock'[f] = clock[f]
  <2> DEFINE stamps == [f \in fields |-> StampOf(c, req)]
  <2>1. /\ DOMAIN stamps = fields /\ \A f \in fields : stamps[f] = StampOf(c, req)
        /\ clock' = Overlaid(clock, stamps)
    BY <1>1
  <2> HIDE DEF stamps
  <2>2. /\ DOMAIN Overlaid(clock, stamps) = DOMAIN clock \cup DOMAIN stamps
        /\ \A f \in DOMAIN stamps : Overlaid(clock, stamps)[f] = stamps[f]
        /\ \A f \in DOMAIN clock : f \notin DOMAIN stamps =>
              Overlaid(clock, stamps)[f] = clock[f]
    BY OverlaidIs
  <2>3. QED
    BY <2>1, <2>2
<1>6. QED
  BY <1>1, <1>2, <1>3, <1>4, <1>5 DEF Logs

LEMMA RejectKeeps ==
    ASSUME Shaped, NEW c \in Command, Fresh(c), Reject(c)
    PROVE  /\ Applied' = Applied /\ retained' \in [Command -> Outcome \cup {"none"}]
           /\ UNCHANGED <<request, clock, shown>>
  BY DEF Shaped, Fresh, Reject, Applied, Outcome

LEMMA KeepsRemembering ==
    ASSUME NEW c, NEW req, NEW fields, Logs(c, req, fields), NEW f, f \notin fields,
           NEW S \in SUBSET Applied, Remembers(clock, request, f, S)
    PROVE  Remembers(clock', request', f, S)
  BY DEF Logs, Remembers

LEMMA RemembersWrite ==
    ASSUME Shaped, NEW c, NEW req, NEW fields, Logs(c, req, fields), req.time \in Nat,
           NEW f, f \in fields <=> Wins(f, StampOf(c, req)),
           NEW S \in SUBSET Applied, Remembers(clock, request, f, S)
    PROVE  Remembers(clock', request', f, S \cup {c})
<1> DEFINE s == StampOf(c, req)
<1>1. s \in Stamp /\ s[2] = c /\ c \notin S
  BY StampTypes DEF Logs
<1>2. \A d \in S : StampOf(d, request[d]) \in Stamp /\ request'[d] = request[d]
  BY StampTypes DEF Shaped, Logs, Applied
<1>3. StampOf(c, request'[c]) = s
  BY DEF Logs
<1>4. f \in DOMAIN clock => clock[f] \in Stamp
  BY <1>2 DEF Remembers
<1>5. CASE Wins(f, s)
  <2>1. f \in DOMAIN clock' /\ clock'[f] = s
    BY <1>5 DEF Logs
  <2>2. \A d \in S : Later(s, StampOf(d, request[d]))
    BY <1>1, <1>2, <1>4, <1>5, LaterIsStrict DEF Wins, Remembers
  <2>3. QED
    BY <1>1, <1>2, <1>3, <2>1, <2>2 DEF Remembers
<1>6. CASE ~Wins(f, s)
  <2>1. f \in DOMAIN clock /\ f \in DOMAIN clock' /\ clock'[f] = clock[f]
    BY <1>6 DEF Wins, Logs
  <2>2. Later(clock[f], s)
    <3>1. clock[f] # s
      BY <1>1, <2>1 DEF Remembers
    <3>2. QED
      BY <1>1, <1>4, <1>6, <2>1, <3>1, LaterIsStrict DEF Wins
  <2>3. QED
    BY <1>1, <1>2, <1>3, <2>1, <2>2 DEF Remembers
<1>7. QED
  BY <1>5, <1>6

-----------------------------------------------------------------------------
(* What a step does to the clocks: a request moves those of the fields that   *)
(* it writes, where it wins.                                                *)

Wrote(c, req, fields) ==
    /\ <<"list", "current">> \in fields <=>
          /\ req.kind \in {"create", "refresh"}
          /\ Wins(<<"list", "current">>, StampOf(c, req))
    /\ <<"list", "name">> \in fields <=>
          req.kind = "rename" /\ Wins(<<"list", "name">>, StampOf(c, req))
    /\ \A i \in Ingredient, k \in DOMAIN RowField :
          RowClock(i, k) \in fields <=>
             req.kind = k /\ req.row = i /\ Wins(RowClock(i, k), StampOf(c, req))
    /\ \A x \in Item :
          /\ \A f \in ItemField :
                ItemClock(x, f) \in fields <=>
                   /\ req.kind = "update_item" /\ req.item = x
                   /\ Wins(ItemClock(x, f), StampOf(c, req))
          /\ ItemClock(x, "lifecycle") \in fields <=>
                /\ req.kind = "item_lifecycle" /\ req.item = x
                /\ Wins(ItemClock(x, "lifecycle"), StampOf(c, req))

LEMMA WritersAre ==
    ASSUME NEW c, NEW req, NEW fields, Logs(c, req, fields)
    PROVE  /\ \A ks : /\ AppliedOf(ks) \subseteq Applied
                      /\ req.kind \in ks => AppliedOf(ks)' = AppliedOf(ks) \cup {c}
                      /\ req.kind \notin ks => AppliedOf(ks)' = AppliedOf(ks)
           /\ \A i, k : /\ RowWrites(i, k) \subseteq Applied
                        /\ req.kind = k /\ req.row = i =>
                              RowWrites(i, k)' = RowWrites(i, k) \cup {c}
                        /\ ~(req.kind = k /\ req.row = i) => RowWrites(i, k)' = RowWrites(i, k)
           /\ \A x, k : /\ ItemWrites(x, k) \subseteq Applied
                        /\ req.kind = k /\ req.item = x =>
                              ItemWrites(x, k)' = ItemWrites(x, k) \cup {c}
                        /\ ~(req.kind = k /\ req.item = x) => ItemWrites(x, k)' = ItemWrites(x, k)
<1>1. /\ Applied' = Applied \cup {c} /\ c \notin Applied /\ request'[c] = req
      /\ \A d \in Applied : request'[d] = request[d]
  BY DEF Logs
<1>2. ASSUME NEW ks
      PROVE  /\ AppliedOf(ks) \subseteq Applied
             /\ req.kind \in ks => AppliedOf(ks)' = AppliedOf(ks) \cup {c}
             /\ req.kind \notin ks => AppliedOf(ks)' = AppliedOf(ks)
  BY <1>1 DEF AppliedOf
<1>3. ASSUME NEW i, NEW k
      PROVE  /\ RowWrites(i, k) \subseteq Applied
             /\ req.kind = k /\ req.row = i => RowWrites(i, k)' = RowWrites(i, k) \cup {c}
             /\ ~(req.kind = k /\ req.row = i) => RowWrites(i, k)' = RowWrites(i, k)
  BY <1>1 DEF RowWrites, AppliedOf
<1>4. ASSUME NEW x, NEW k
      PROVE  /\ ItemWrites(x, k) \subseteq Applied
             /\ req.kind = k /\ req.item = x => ItemWrites(x, k)' = ItemWrites(x, k) \cup {c}
             /\ ~(req.kind = k /\ req.item = x) => ItemWrites(x, k)' = ItemWrites(x, k)
  BY <1>1 DEF ItemWrites, AppliedOf
<1>5. QED
  BY <1>2, <1>3, <1>4

LEMMA ClocksStep ==
    ASSUME Shaped, ClocksRemember, NEW c, NEW req, req.time \in Nat,
           NEW fields, Logs(c, req, fields), Wrote(c, req, fields)
    PROVE  ClocksRemember'
<1>1. Remembers(clock', request', <<"list", "current">>, AppliedOf({"create", "refresh"})')
  <2> DEFINE S == AppliedOf({"create", "refresh"})
             f == <<"list", "current">>
  <2>1. S \subseteq Applied /\ Remembers(clock, request, f, S)
    BY WritersAre DEF ClocksRemember
  <2>2. CASE req.kind \in {"create", "refresh"}
    <3>1. S' = S \cup {c} /\ (f \in fields <=> Wins(f, StampOf(c, req)))
      BY <2>2, WritersAre DEF Wrote
    <3>2. Remembers(clock', request', f, S \cup {c})
      BY <2>1, <3>1, RemembersWrite
    <3>3. QED
      BY <3>1, <3>2
  <2>3. CASE req.kind \notin {"create", "refresh"}
    <3>1. S' = S /\ f \notin fields
      BY <2>3, WritersAre DEF Wrote
    <3>2. Remembers(clock', request', f, S)
      BY <2>1, <3>1, KeepsRemembering
    <3>3. QED
      BY <3>1, <3>2
  <2>4. QED
    BY <2>2, <2>3
<1>2. Remembers(clock', request', <<"list", "name">>, AppliedOf({"rename"})')
  <2> DEFINE S == AppliedOf({"rename"})
             f == <<"list", "name">>
  <2>1. S \subseteq Applied /\ Remembers(clock, request, f, S)
    BY WritersAre DEF ClocksRemember
  <2>2. CASE req.kind = "rename"
    <3>1. S' = S \cup {c} /\ (f \in fields <=> Wins(f, StampOf(c, req)))
      BY <2>2, WritersAre DEF Wrote
    <3>2. Remembers(clock', request', f, S \cup {c})
      BY <2>1, <3>1, RemembersWrite
    <3>3. QED
      BY <3>1, <3>2
  <2>3. CASE req.kind # "rename"
    <3>1. S' = S /\ f \notin fields
      BY <2>3, WritersAre DEF Wrote
    <3>2. Remembers(clock', request', f, S)
      BY <2>1, <3>1, KeepsRemembering
    <3>3. QED
      BY <3>1, <3>2
  <2>4. QED
    BY <2>2, <2>3
<1>3. ASSUME NEW i \in Ingredient, NEW k \in DOMAIN RowField
      PROVE  Remembers(clock', request', RowClock(i, k), RowWrites(i, k)')
  <2> DEFINE S == RowWrites(i, k)
             f == RowClock(i, k)
  <2>1. S \subseteq Applied /\ Remembers(clock, request, f, S)
    BY WritersAre DEF ClocksRemember
  <2>2. CASE req.kind = k /\ req.row = i
    <3>1. S' = S \cup {c} /\ (f \in fields <=> Wins(f, StampOf(c, req)))
      BY <2>2, WritersAre DEF Wrote
    <3>2. Remembers(clock', request', f, S \cup {c})
      BY <2>1, <3>1, RemembersWrite
    <3>3. QED
      BY <3>1, <3>2
  <2>3. CASE ~(req.kind = k /\ req.row = i)
    <3>1. S' = S /\ f \notin fields
      BY <2>3, WritersAre DEF Wrote
    <3>2. Remembers(clock', request', f, S)
      BY <2>1, <3>1, KeepsRemembering
    <3>3. QED
      BY <3>1, <3>2
  <2>4. QED
    BY <2>2, <2>3
<1>4. ASSUME NEW x \in Item, NEW k \in {"update_item", "item_lifecycle"}, NEW f,
             Remembers(clock, request, f, ItemWrites(x, k)),
             f \in fields <=> /\ req.kind = k /\ req.item = x /\ Wins(f, StampOf(c, req))
      PROVE  Remembers(clock', request', f, ItemWrites(x, k)')
  <2> DEFINE S == ItemWrites(x, k)
  <2>1. S \subseteq Applied
    BY WritersAre
  <2>2. CASE req.kind = k /\ req.item = x
    <3>1. S' = S \cup {c}
      BY <2>2, WritersAre
    <3>2. Remembers(clock', request', f, S \cup {c})
      BY <1>4, <2>1, <2>2, RemembersWrite
    <3>3. QED
      BY <3>1, <3>2
  <2>3. CASE ~(req.kind = k /\ req.item = x)
    <3>1. S' = S
      BY <2>3, WritersAre
    <3>2. Remembers(clock', request', f, S)
      BY <1>4, <2>1, <2>3, KeepsRemembering
    <3>3. QED
      BY <3>1, <3>2
  <2>4. QED
    BY <2>2, <2>3
<1>5. ASSUME NEW x \in Item
      PROVE  /\ \A f \in ItemField :
                   Remembers(clock', request', ItemClock(x, f), ItemWrites(x, "update_item")')
             /\ Remembers(clock', request', ItemClock(x, "lifecycle"),
                          ItemWrites(x, "item_lifecycle")')
  BY <1>4 DEF ClocksRemember, Wrote
<1>6. QED
  BY <1>1, <1>2, <1>3, <1>5 DEF ClocksRemember

-----------------------------------------------------------------------------
(* What a step does to the values of the fields, and to the feed. *)

LEMMA HolderKept ==
    ASSUME NEW c, NEW req, NEW fields, Logs(c, req, fields), NEW f, f \notin fields,
           NEW S \in SUBSET Applied, Remembers(clock, request, f, S), f \in DOMAIN clock'
    PROVE  f \in DOMAIN clock /\ clock'[f] = clock[f] /\ LastOf(f)' = LastOf(f)
  BY DEF Logs, Remembers, LastOf

LEMMA HolderWritten ==
    ASSUME NEW c, NEW req, NEW fields, Logs(c, req, fields), NEW f, f \in fields
    PROVE  f \in DOMAIN clock' /\ clock'[f][2] = c /\ LastOf(f)' = req
  BY DEF Logs, LastOf, StampOf

LEMMA ListKept ==
    ASSUME ClocksRemember, ListIsTheirs, NEW c, NEW req, NEW fields, Logs(c, req, fields),
           <<"list", "current">> \notin fields, <<"list", "name">> \notin fields, list' = list
    PROVE  ListIsTheirs'
<1>1. /\ AppliedOf({"create", "refresh"}) \subseteq Applied
      /\ AppliedOf({"rename"}) \subseteq Applied
  BY WritersAre
<1>2. LET f == <<"list", "current">>
      IN  f \in DOMAIN clock' => f \in DOMAIN clock /\ clock'[f] = clock[f]
  BY <1>1, HolderKept DEF ClocksRemember
<1>3. LET f == <<"list", "name">>
      IN  f \in DOMAIN clock' => f \in DOMAIN clock /\ LastOf(f)' = LastOf(f)
  BY <1>1, HolderKept DEF ClocksRemember
<1>4. QED
  BY <1>2, <1>3 DEF ListIsTheirs

LEMMA RowsKept ==
    ASSUME ClocksRemember, RowsAreTheirs, NEW c, NEW req, NEW fields, Logs(c, req, fields),
           \A i \in Ingredient, k \in DOMAIN RowField : RowClock(i, k) \notin fields,
           \A i \in DOMAIN row : /\ i \in DOMAIN row'
                                 /\ \A k \in DOMAIN RowField : row'[i][k] = row[i][k]
    PROVE  RowsAreTheirs'
<1> SUFFICES ASSUME NEW i \in Ingredient, NEW k \in DOMAIN RowField,
                    RowClock(i, k) \in DOMAIN clock'
             PROVE  i \in DOMAIN row' /\ row'[i][k] = LastOf(RowClock(i, k))'.value
  BY DEF RowsAreTheirs, RowClock
<1>1. /\ RowWrites(i, k) \subseteq Applied
      /\ Remembers(clock, request, RowClock(i, k), RowWrites(i, k))
  BY WritersAre DEF ClocksRemember
<1>2. /\ RowClock(i, k) \in DOMAIN clock
      /\ LastOf(RowClock(i, k))' = LastOf(RowClock(i, k))
  BY <1>1, HolderKept
<1>3. QED
  BY <1>2 DEF RowsAreTheirs

LEMMA ItemsKept ==
    ASSUME ClocksRemember, ItemsAreTheirs, NEW c, NEW req, NEW fields, Logs(c, req, fields),
           \A x \in Item : /\ \A f \in ItemField : ItemClock(x, f) \notin fields
                           /\ ItemClock(x, "lifecycle") \notin fields,
           \A x \in DOMAIN item : /\ x \in DOMAIN item'
                                  /\ item'[x].target = item[x].target
                                  /\ item'[x].section = item[x].section
                                  /\ item'[x].retired = item[x].retired
    PROVE  ItemsAreTheirs'
<1>1. ASSUME NEW x \in Item, NEW f \in ItemField \cup {"lifecycle"},
             ItemClock(x, f) \in DOMAIN clock'
      PROVE  /\ ItemClock(x, f) \in DOMAIN clock
             /\ LastOf(ItemClock(x, f))' = LastOf(ItemClock(x, f))
  <2>1. ASSUME NEW S \in SUBSET Applied, Remembers(clock, request, ItemClock(x, f), S)
        PROVE  /\ ItemClock(x, f) \in DOMAIN clock
               /\ LastOf(ItemClock(x, f))' = LastOf(ItemClock(x, f))
    <3>1. ItemClock(x, f) \notin fields
      OBVIOUS
    <3>2. QED
      BY <1>1, <2>1, <3>1, HolderKept
  <2>2. /\ ItemWrites(x, "update_item") \subseteq Applied
        /\ ItemWrites(x, "item_lifecycle") \subseteq Applied
    BY WritersAre
  <2>3. QED
    BY <1>1, <2>1, <2>2 DEF ClocksRemember
<1>2. QED
  BY <1>1 DEF ItemsAreTheirs, ItemField, ItemClock

LEMMA TellsRow ==
    ASSUME NEW told, shown' = Overlaid(shown, told), NEW x, NEW r,
           IF x \in DOMAIN told THEN told[x] = r ELSE Shown(x, r)
    PROVE  x \in DOMAIN shown' /\ shown'[x] = r
<1>1. /\ DOMAIN shown' = DOMAIN shown \cup DOMAIN told
      /\ x \in DOMAIN told => shown'[x] = told[x]
      /\ x \in DOMAIN shown /\ x \notin DOMAIN told => shown'[x] = shown[x]
  BY OverlaidIs
<1>2. QED
  BY <1>1 DEF Shown

(* Every row that a step changes is among the records it publishes. *)
LEMMA FeedStep ==
    ASSUME FeedCarriesLists, NEW told, shown' = Overlaid(shown, told),
           list' # NoList =>
              IF <<"list">> \in DOMAIN told THEN told[<<"list">>] = list' ELSE list' = list,
           \A v \in DOMAIN revision' :
              IF <<"revision", v>> \in DOMAIN told THEN told[<<"revision", v>>] = revision'[v]
              ELSE v \in DOMAIN revision /\ revision'[v] = revision[v],
           \A i \in DOMAIN row' :
              IF <<"row", i>> \in DOMAIN told THEN told[<<"row", i>>] = row'[i]
              ELSE i \in DOMAIN row /\ row'[i] = row[i],
           \A p \in DOMAIN credit' :
              IF <<"contribution", p>> \in DOMAIN told
              THEN told[<<"contribution", p>>] = credit'[p]
              ELSE p \in DOMAIN credit /\ credit'[p] = credit[p],
           \A x \in DOMAIN item' :
              IF <<"item", x>> \in DOMAIN told THEN told[<<"item", x>>] = item'[x]
              ELSE x \in DOMAIN item /\ item'[x] = item[x]
    PROVE  FeedCarriesLists'
<1>1. \A x, r : (IF x \in DOMAIN told THEN told[x] = r ELSE Shown(x, r)) =>
                   x \in DOMAIN shown' /\ shown'[x] = r
  BY TellsRow
<1>2. list' # NoList => <<"list">> \in DOMAIN shown' /\ shown'[<<"list">>] = list'
  BY <1>1 DEF FeedCarriesLists
<1>3. \A v \in DOMAIN revision' :
         <<"revision", v>> \in DOMAIN shown' /\ shown'[<<"revision", v>>] = revision'[v]
  BY <1>1 DEF FeedCarriesLists
<1>4. \A i \in DOMAIN row' : <<"row", i>> \in DOMAIN shown' /\ shown'[<<"row", i>>] = row'[i]
  BY <1>1 DEF FeedCarriesLists
<1>5. \A p \in DOMAIN credit' :
         /\ <<"contribution", p>> \in DOMAIN shown'
         /\ shown'[<<"contribution", p>>] = credit'[p]
  BY <1>1 DEF FeedCarriesLists
<1>6. \A x \in DOMAIN item' : <<"item", x>> \in DOMAIN shown' /\ shown'[<<"item", x>>] = item'[x]
  BY <1>1 DEF FeedCarriesLists
<1>7. QED
  BY <1>2, <1>3, <1>4, <1>5, <1>6 DEF FeedCarriesLists, Shown

LEMMA RowRecordsAre ==
    ASSUME NEW rows, NEW is
    PROVE  /\ DOMAIN RowRecords(rows, is) = {<<"row", i>> : i \in is}
           /\ \A i \in is : RowRecords(rows, is)[<<"row", i>>] = rows[i]
  BY DEF RowRecords

LEMMA ContributionRecordsAre ==
    ASSUME NEW cs, NEW ps
    PROVE  /\ DOMAIN ContributionRecords(cs, ps) = {<<"contribution", p>> : p \in ps}
           /\ \A p \in ps : ContributionRecords(cs, ps)[<<"contribution", p>>] = cs[p]
  BY DEF ContributionRecords

LEMMA RowRecordIs ==
    ASSUME NEW rows, NEW i
    PROVE  /\ DOMAIN RowRecords(rows, {i}) = {<<"row", i>>}
           /\ RowRecords(rows, {i})[<<"row", i>>] = rows[i]
<1> DEFINE is == {i}
<1>1. i \in is /\ \A j \in is : j = i
  OBVIOUS
<1> HIDE DEF is
<1>2. QED
  BY <1>1, RowRecordsAre DEF is

LEMMA ContributionRecordIs ==
    ASSUME NEW cs, NEW p
    PROVE  /\ DOMAIN ContributionRecords(cs, {p}) = {<<"contribution", p>>}
           /\ ContributionRecords(cs, {p})[<<"contribution", p>>] = cs[p]
<1> DEFINE ps == {p}
<1>1. p \in ps /\ \A q \in ps : q = p
  OBVIOUS
<1> HIDE DEF ps
<1>2. QED
  BY <1>1, ContributionRecordsAre DEF ps

(* A step that leaves the list and the applied commands alone. *)
LEMMA QuietStep ==
    ASSUME IInv, retained' \in [Command -> Outcome \cup {"none"}], Applied' = Applied,
           UNCHANGED <<request, clock, shown, listVars>>
    PROVE  IInv'
<1>1. Shaped' /\ Created'
  BY DEF IInv, Shaped, Created, listVars
<1>2. ClocksRemember'
  BY DEF IInv, ClocksRemember, AppliedOf, RowWrites, ItemWrites, RowClock, ItemClock
<1>3. ListIsTheirs' /\ RowsAreTheirs' /\ ItemsAreTheirs'
  BY DEF IInv, ListIsTheirs, RowsAreTheirs, ItemsAreTheirs, LastOf, RowClock, ItemClock, listVars
<1>4. FeedCarriesLists' /\ CreditIsExplained'
  BY DEF IInv, FeedCarriesLists, Shown, CreditIsExplained, listVars
<1>5. QED
  BY <1>1, <1>2, <1>3, <1>4 DEF IInv

LEMMA RefusedStep ==
    ASSUME IInv, NEW c \in Command, Fresh(c), Reject(c), UNCHANGED listVars
    PROVE  IInv'
  BY RejectKeeps, QuietStep DEF IInv

LEMMA RequestTypes ==
    ASSUME NEW req \in Requests
    PROVE  /\ req.time \in Nat
           /\ req.kind \in DOMAIN RowField \cup {"check_row"} => req.row \in Ingredient
           /\ req.kind \in {"add_item", "check_item", "item_lifecycle", "update_item"} =>
                 req.item \in Item
<1>1. /\ DOMAIN RowField = {"supply", "target", "section", "note"}
      /\ WallTimes \subseteq Nat
  BY WallTimesAssumption DEF RowField
<1>2. CASE req \in CreateRequests \/ req \in RenameRequests \/ req \in RefreshRequests
  BY <1>1, <1>2 DEF CreateRequests, RenameRequests, RefreshRequests
<1>3. CASE req \in AddItemRequests \/ req \in UpdateItemRequests \/ req \in CheckItemRequests
           \/ req \in ItemLifecycleRequests
  BY <1>1, <1>3 DEF AddItemRequests, UpdateItemRequests, CheckItemRequests,
     ItemLifecycleRequests
<1>4. CASE req \in RowRequests
  <2>1. CASE \E V : req \in [kind : {"supply", "target", "section", "note"},
                             time : WallTimes, row : Ingredient, value : V]
    BY <1>1, <2>1
  <2>2. CASE req \in [kind : {"check_row"}, time : WallTimes, row : Ingredient,
                      fulfilled : BOOLEAN]
    BY <1>1, <2>2
  <2>3. CASE req \in [kind : {"check"}, time : WallTimes, pair : Contribution,
                      fulfilled : BOOLEAN]
    BY <1>1, <2>3
  <2>4. QED
    <3>1. \/ req \in [kind : {"supply"}, time : WallTimes, row : Ingredient, value : Amounts]
          \/ req \in [kind : {"target"}, time : WallTimes, row : Ingredient,
                      value : Amounts \cup {None}]
          \/ req \in [kind : {"section"}, time : WallTimes, row : Ingredient,
                      value : Section \cup {None}]
          \/ req \in [kind : {"note"}, time : WallTimes, row : Ingredient,
                      value : Name \cup {None}]
          \/ req \in [kind : {"check_row"}, time : WallTimes, row : Ingredient,
                      fulfilled : BOOLEAN]
          \/ req \in [kind : {"check"}, time : WallTimes, pair : Contribution,
                      fulfilled : BOOLEAN]
      BY <1>4, Zenon DEF RowRequests
    <3>2. ASSUME NEW V, NEW k \in {"supply", "target", "section", "note"},
                 req \in [kind : {k}, time : WallTimes, row : Ingredient, value : V]
          PROVE  req \in [kind : {"supply", "target", "section", "note"},
                          time : WallTimes, row : Ingredient, value : V]
      BY <3>2
    <3>3. QED
      BY <2>1, <2>2, <2>3, <3>1, <3>2
<1>5. QED
  BY <1>2, <1>3, <1>4, Zenon DEF Requests

-----------------------------------------------------------------------------
(* One lemma per command. *)

LEMMA AppliedTimes ==
    ASSUME Shaped, NEW c, NEW req, NEW fields, Logs(c, req, fields), req.time \in Nat
    PROVE  \A d \in Applied' : request'[d].time \in Nat
  BY DEF Shaped, Logs

LEMMA RenameStep ==
    ASSUME IInv, NEW c \in Command, NEW req \in Requests, Fresh(c), Rename(c, req)
    PROVE  IInv'
<1> DEFINE f == <<"list", "name">>
           fields == IF Wins(f, StampOf(c, req)) THEN {f} ELSE {}
<1>1. CASE Reject(c) /\ UNCHANGED list
  BY <1>1, RefusedStep DEF Rename, listVars
<1>2. CASE ~(Reject(c) /\ UNCHANGED list)
  <2>1. /\ req.kind = "rename" /\ UNCHANGED <<revision, row, credit, item>> /\ Usable
        /\ list' = IF Wins(f, StampOf(c, req)) THEN [list EXCEPT !.name = req.name] ELSE list
        /\ Conclude(c, req, IF Wins(f, StampOf(c, req)) THEN "accepted"
                            ELSE "partially_superseded", fields, ListRecord(list'))
    BY <1>2 DEF Rename
  <2>2. /\ Logs(c, req, fields) /\ req.time \in Nat
        /\ shown' = Overlaid(shown, ListRecord(list'))
        /\ retained' \in [Command -> Outcome \cup {"none"}] /\ DOMAIN request' = Command
    BY <2>1, ConcludeLogs, RequestTypes DEF IInv
  <2>3. Wrote(c, req, fields)
    BY <2>1 DEF Wrote, RowClock, ItemClock, RowField
  <2>4. ClocksRemember'
    BY <2>2, <2>3, ClocksStep DEF IInv
  <2>5. /\ {"name", "current"} \subseteq DOMAIN list' /\ list'.current = list.current
        /\ list' # NoList
    <3>1. CASE list' = list
      BY <2>1, <3>1 DEF IInv, Shaped, Usable
    <3>2. CASE list' = [list EXCEPT !.name = req.name]
      <4>1. list'.current = list.current /\ {"name", "current"} \subseteq DOMAIN list'
        BY <3>2 DEF IInv, Shaped
      <4>2. list.current # None
        BY <2>1, NoneAssumption DEF IInv, Created, Shaped, Usable, Applied
      <4>3. QED
        BY <4>1, <4>2 DEF NoList
    <3>3. QED
      BY <2>1, <3>1, <3>2
  <2>6. Shaped'
    BY <2>1, <2>2, <2>5, AppliedTimes DEF IInv, Shaped, Logs
  <2>7. Created' /\ CreditIsExplained'
    BY <2>1, <2>2, <2>5 DEF IInv, Created, CreditIsExplained, Usable, Logs
  <2>8. RowsAreTheirs' /\ ItemsAreTheirs'
    <3>1. /\ \A i \in Ingredient, k \in DOMAIN RowField : RowClock(i, k) \notin fields
          /\ \A x \in Item : /\ \A g \in ItemField : ItemClock(x, g) \notin fields
                             /\ ItemClock(x, "lifecycle") \notin fields
      BY DEF RowClock, ItemClock
    <3>2. QED
      BY <2>1, <2>2, <3>1, RowsKept, ItemsKept DEF IInv
  <2>9. ListIsTheirs'
    <3>1. LET g == <<"list", "current">>
          IN  g \in DOMAIN clock' => g \in DOMAIN clock /\ clock'[g] = clock[g]
      BY <2>2 DEF Logs
    <3>2. f \in DOMAIN clock' => list'.name = LastOf(f)'.name
      <4>1. CASE f \in fields
        BY <2>1, <2>2, <4>1, HolderWritten DEF IInv, Shaped
      <4>2. CASE f \notin fields
        <5>1. f \in DOMAIN clock' => f \in DOMAIN clock /\ LastOf(f)' = LastOf(f)
          BY <2>2, <4>2, HolderKept, WritersAre DEF IInv, ClocksRemember
        <5>2. QED
          BY <2>1, <4>2, <5>1 DEF IInv, ListIsTheirs
      <4>3. QED
        BY <4>1, <4>2
    <3>3. QED
      BY <2>5, <3>1, <3>2 DEF IInv, ListIsTheirs
  <2>10. FeedCarriesLists'
    <3>1. /\ DOMAIN ListRecord(list') = {<<"list">>} /\ ListRecord(list')[<<"list">>] = list'
      BY OnlyIs DEF ListRecord
    <3>2. QED
      BY <2>1, <2>2, <3>1, FeedStep DEF IInv
  <2>11. QED
    BY <2>4, <2>6, <2>7, <2>8, <2>9, <2>10 DEF IInv
<1>3. QED
  BY <1>1, <1>2

LEMMA RowWithIs ==
    ASSUME Shaped, NEW req, req.kind \in DOMAIN RowField, req.row \in DOMAIN row
    PROVE  /\ DOMAIN NewRow \subseteq DOMAIN RowWith(req)
           /\ RowWith(req)[req.kind] = req.value
           /\ \A k \in DOMAIN RowField : k # req.kind => RowWith(req)[k] = row[req.row][k]
<1> DEFINE r == row[req.row]
<1>1. /\ DOMAIN RowField = {"supply", "target", "section", "note"}
      /\ DOMAIN NewRow = {"supply", "target", "automatic", "basis", "section", "note", "extra"}
      /\ DOMAIN NewRow \subseteq DOMAIN r
  BY DEF RowField, NewRow, Shaped
<1> HIDE DEF r
<1>2. CASE req.kind = "supply"
  <2>1. RowWith(req) = [r EXCEPT !.supply = req.value]
    BY <1>2 DEF RowWith, r
  <2>2. QED
    BY <1>1, <1>2, <2>1 DEF r
<1>3. CASE req.kind = "section"
  <2>1. RowWith(req) = [r EXCEPT !.section = req.value]
    BY <1>3 DEF RowWith, r
  <2>2. QED
    BY <1>1, <1>3, <2>1 DEF r
<1>4. CASE req.kind = "note"
  <2>1. RowWith(req) = [r EXCEPT !.note = req.value]
    BY <1>4 DEF RowWith, r
  <2>2. QED
    BY <1>1, <1>4, <2>1 DEF r
<1>5. CASE req.kind = "target"
  <2>1. \E a, b : RowWith(req) = [r EXCEPT !.target = req.value, !.automatic = a, !.basis = b]
    BY <1>5 DEF RowWith, r
  <2>2. QED
    BY <1>1, <1>5, <2>1 DEF r
<1>6. QED
  BY <1>1, <1>2, <1>3, <1>4, <1>5

LEMMA SetRowFieldStep ==
    ASSUME IInv, NEW c \in Command, NEW req \in Requests, Fresh(c), SetRowField(c, req)
    PROVE  IInv'
<1> DEFINE f == RowClock(req.row, req.kind)
           fields == IF Wins(f, StampOf(c, req)) THEN {f} ELSE {}
<1>1. CASE Reject(c) /\ UNCHANGED row
  BY <1>1, RefusedStep DEF SetRowField, listVars
<1>2. CASE ~(Reject(c) /\ UNCHANGED row)
  <2>1. /\ req.kind \in DOMAIN RowField /\ UNCHANGED <<list, revision, credit, item>>
        /\ Usable /\ req.row \in DOMAIN row
        /\ row' = IF Wins(f, StampOf(c, req)) THEN [row EXCEPT ![req.row] = RowWith(req)]
                  ELSE row
        /\ Conclude(c, req, IF Wins(f, StampOf(c, req)) THEN "accepted"
                            ELSE "partially_superseded", fields, RowRecords(row', {req.row}))
    BY <1>2 DEF SetRowField, RowFieldRefused, OperationRefused, RowClock
  <2>2. /\ Logs(c, req, fields) /\ req.time \in Nat
        /\ shown' = Overlaid(shown, RowRecords(row', {req.row}))
        /\ retained' \in [Command -> Outcome \cup {"none"}] /\ DOMAIN request' = Command
    BY <2>1, ConcludeLogs, RequestTypes DEF IInv
  <2>3. Wrote(c, req, fields)
    BY <2>1 DEF Wrote, RowClock, ItemClock, RowField
  <2>4. ClocksRemember'
    BY <2>2, <2>3, ClocksStep DEF IInv
  <2>5. /\ DOMAIN row' = DOMAIN row /\ req.row \in Ingredient
        /\ \A i \in DOMAIN row : i # req.row => row'[i] = row[i]
        /\ DOMAIN NewRow \subseteq DOMAIN row'[req.row]
        /\ \A k \in DOMAIN RowField : k # req.kind => row'[req.row][k] = row[req.row][k]
        /\ f \in fields => row'[req.row][req.kind] = req.value
        /\ f \notin fields => row' = row
    BY <2>1, RowWithIs DEF IInv, Shaped
  <2>6. Shaped'
    BY <2>1, <2>2, <2>5, AppliedTimes DEF IInv, Shaped, Logs
  <2>7. Created' /\ CreditIsExplained'
    BY <2>1, <2>2, <2>5 DEF IInv, Created, CreditIsExplained, Usable, Logs
  <2>8. ListIsTheirs' /\ ItemsAreTheirs'
    <3>1. /\ <<"list", "current">> \notin fields /\ <<"list", "name">> \notin fields
          /\ \A x \in Item : /\ \A g \in ItemField : ItemClock(x, g) \notin fields
                             /\ ItemClock(x, "lifecycle") \notin fields
      BY DEF RowClock, ItemClock
    <3>2. QED
      BY <2>1, <2>2, <3>1, ListKept, ItemsKept DEF IInv
  <2>9. RowsAreTheirs'
    <3> SUFFICES ASSUME NEW i \in Ingredient, NEW k \in DOMAIN RowField,
                        RowClock(i, k) \in DOMAIN clock'
                 PROVE  i \in DOMAIN row' /\ row'[i][k] = LastOf(RowClock(i, k))'.value
      BY DEF RowsAreTheirs, RowClock
    <3>1. CASE RowClock(i, k) \in fields
      <4>1. i = req.row /\ k = req.kind
        BY <2>1, <3>1 DEF RowClock, RowField
      <4>2. QED
        BY <2>1, <2>2, <2>5, <3>1, <4>1, HolderWritten
    <3>2. CASE RowClock(i, k) \notin fields
      <4>1. /\ RowClock(i, k) \in DOMAIN clock
            /\ LastOf(RowClock(i, k))' = LastOf(RowClock(i, k))
        BY <2>2, <3>2, HolderKept, WritersAre DEF IInv, ClocksRemember
      <4>2. i \in DOMAIN row /\ row[i][k] = LastOf(RowClock(i, k)).value
        BY <4>1 DEF IInv, RowsAreTheirs
      <4>3. row'[i][k] = row[i][k]
        BY <2>5, <3>2, <4>2
      <4>4. QED
        BY <2>5, <4>1, <4>2, <4>3
    <3>3. QED
      BY <3>1, <3>2
  <2>10. FeedCarriesLists'
    <3>1. /\ DOMAIN RowRecords(row', {req.row}) = {<<"row", req.row>>}
          /\ RowRecords(row', {req.row})[<<"row", req.row>>] = row'[req.row]
      BY RowRecordIs
    <3> DEFINE told == RowRecords(row', {req.row})
    <3>2. /\ shown' = Overlaid(shown, told) /\ DOMAIN told = {<<"row", req.row>>}
          /\ told[<<"row", req.row>>] = row'[req.row]
      BY <2>2, <3>1
    <3> HIDE DEF told
    <3>3. QED
      BY <2>1, <2>5, <3>2, FeedStep DEF IInv
  <2>11. QED
    BY <2>4, <2>6, <2>7, <2>8, <2>9, <2>10 DEF IInv
<1>3. QED
  BY <1>1, <1>2

LEMMA CheckStep ==
    ASSUME IInv, NEW c \in Command, NEW req \in Requests, Fresh(c), Check(c, req)
    PROVE  IInv'
<1> DEFINE p == req.pair
           f == CreditClock(p)
           fields == IF Wins(f, StampOf(c, req)) THEN {f} ELSE {}
           told == Overlaid(ContributionRecords(credit', {p}), RowRecords(row, {p[2]}))
<1>1. CASE Reject(c) /\ UNCHANGED credit
  BY <1>1, RefusedStep DEF Check, listVars
<1>2. CASE ~(Reject(c) /\ UNCHANGED credit)
  <2>1. /\ req.kind = "check" /\ UNCHANGED <<list, revision, row, item>>
        /\ Usable /\ p \in DOMAIN credit
        /\ credit' = IF Wins(f, StampOf(c, req))
                     THEN [credit EXCEPT ![p] = IF req.fulfilled THEN Current(p) ELSE 0]
                     ELSE credit
        /\ Conclude(c, req, IF Wins(f, StampOf(c, req)) THEN "accepted"
                            ELSE "partially_superseded", fields, told)
    BY <1>2 DEF Check, OperationRefused
  <2>2. /\ Logs(c, req, fields) /\ req.time \in Nat
        /\ shown' = Overlaid(shown, told)
        /\ retained' \in [Command -> Outcome \cup {"none"}] /\ DOMAIN request' = Command
    <3> HIDE DEF told
    <3>1. QED
      BY <2>1, ConcludeLogs, RequestTypes DEF IInv
  <2>3. Wrote(c, req, fields)
    BY <2>1 DEF Wrote, RowClock, ItemClock, RowField, CreditClock
  <2>4. ClocksRemember'
    BY <2>2, <2>3, ClocksStep DEF IInv
  <2>5. /\ DOMAIN credit' = DOMAIN credit
        /\ \A q \in DOMAIN credit : q # p => credit'[q] = credit[q]
        /\ credit'[p] \in {credit[p], Current(p), 0}
    BY <2>1
  <2>6. Shaped' /\ Created'
    BY <2>1, <2>2, <2>5, AppliedTimes DEF IInv, Shaped, Created, Usable, Logs
  <2>7. CreditIsExplained'
    <3>1. ASSUME NEW q \in DOMAIN credit, credit'[q] > 0
          PROVE  q \in DOMAIN revision[list.current].snapshot
      <4>1. CASE credit'[q] = credit[q]
        BY <3>1, <4>1 DEF IInv, CreditIsExplained
      <4>2. CASE q = p /\ (credit'[q] = 0 \/ credit'[q] = Current(p))
        BY <3>1, <4>2 DEF Current, Active
      <4>3. QED
        BY <2>5, <4>1, <4>2
    <3>2. QED
      BY <2>1, <2>5, <3>1 DEF CreditIsExplained
  <2>8. ListIsTheirs' /\ RowsAreTheirs' /\ ItemsAreTheirs'
    <3>1. /\ <<"list", "current">> \notin fields /\ <<"list", "name">> \notin fields
          /\ \A i \in Ingredient, k \in DOMAIN RowField : RowClock(i, k) \notin fields
          /\ \A x \in Item : /\ \A g \in ItemField : ItemClock(x, g) \notin fields
                             /\ ItemClock(x, "lifecycle") \notin fields
      BY DEF RowClock, ItemClock, CreditClock
    <3>2. QED
      BY <2>1, <2>2, <3>1, ListKept, RowsKept, ItemsKept DEF IInv
  <2>9. FeedCarriesLists'
    <3>1. /\ DOMAIN told = {<<"contribution", p>>, <<"row", p[2]>>}
          /\ told[<<"contribution", p>>] = credit'[p]
          /\ told[<<"row", p[2]>>] = row[p[2]]
      <4>1. /\ DOMAIN ContributionRecords(credit', {p}) = {<<"contribution", p>>}
            /\ ContributionRecords(credit', {p})[<<"contribution", p>>] = credit'[p]
        BY ContributionRecordIs
      <4>2. /\ DOMAIN RowRecords(row, {p[2]}) = {<<"row", p[2]>>}
            /\ RowRecords(row, {p[2]})[<<"row", p[2]>>] = row[p[2]]
        BY RowRecordIs
      <4> DEFINE one == ContributionRecords(credit', {p})
                 two == RowRecords(row, {p[2]})
      <4>3. told = Overlaid(one, two)
        OBVIOUS
      <4> HIDE DEF told, one, two
      <4>4. /\ DOMAIN told = DOMAIN one \cup DOMAIN two
            /\ \A x \in DOMAIN two : told[x] = two[x]
            /\ \A x \in DOMAIN one : x \notin DOMAIN two => told[x] = one[x]
        BY <4>3 DEF Overlaid
      <4>5. QED
        BY <4>1, <4>2, <4>4 DEF one, two
    <3> HIDE DEF told
    <3>2. QED
      BY <2>1, <2>2, <2>5, <3>1, FeedStep DEF IInv
  <2>10. QED
    BY <2>4, <2>6, <2>7, <2>8, <2>9 DEF IInv
<1>3. QED
  BY <1>1, <1>2

LEMMA CheckRowStep ==
    ASSUME IInv, NEW c \in Command, NEW req \in Requests, Fresh(c), CheckRow(c, req)
    PROVE  IInv'
<1> DEFINE i == req.row
           is == ContributionsOf(i)
           fields == RowCheckFields(req)
           one == RowRecords(row', {i})
           two == ContributionRecords(credit', is)
           told == Overlaid(one, two)
<1>1. CASE Reject(c) /\ UNCHANGED <<row, credit>>
  BY <1>1, RefusedStep DEF CheckRow, listVars
<1>2. CASE ~(Reject(c) /\ UNCHANGED <<row, credit>>)
  <2>1. /\ req.kind = "check_row" /\ UNCHANGED <<list, revision, item>>
        /\ Usable /\ i \in DOMAIN row
        /\ credit' = [p \in DOMAIN credit |->
                        IF p \notin Touched(req) THEN credit[p]
                        ELSE IF req.fulfilled THEN Current(p) ELSE 0]
        /\ \E n : row' = [row EXCEPT ![i].extra = n]
        /\ Conclude(c, req, "accepted", fields, told)
    BY <1>2 DEF CheckRow, CheckRowRefused, OperationRefused
  <2>2. /\ Logs(c, req, fields) /\ req.time \in Nat
        /\ shown' = Overlaid(shown, told)
        /\ retained' \in [Command -> Outcome \cup {"none"}] /\ DOMAIN request' = Command
    <3> HIDE DEF told, fields
    <3>1. QED
      BY <2>1, ConcludeLogs, RequestTypes DEF IInv
  <2>3. /\ <<"list", "current">> \notin fields /\ <<"list", "name">> \notin fields
        /\ \A j \in Ingredient, k \in DOMAIN RowField : RowClock(j, k) \notin fields
        /\ \A x \in Item : /\ \A g \in ItemField : ItemClock(x, g) \notin fields
                           /\ ItemClock(x, "lifecycle") \notin fields
    BY DEF RowClock, ItemClock, CreditClock, RowCheckFields, RowField
  <2>4. Wrote(c, req, fields)
    <3> HIDE DEF fields
    <3>1. QED
      BY <2>1, <2>3 DEF Wrote, RowField
  <2>5. ClocksRemember'
    BY <2>2, <2>4, ClocksStep DEF IInv
  <2>6. /\ DOMAIN credit' = DOMAIN credit
        /\ \A p \in DOMAIN credit : credit'[p] \in {credit[p], Current(p), 0}
        /\ \A p \in DOMAIN credit : p \notin is => credit'[p] = credit[p]
    BY <2>1 DEF Touched
  <2>7. /\ DOMAIN row' = DOMAIN row /\ i \in DOMAIN row
        /\ \A j \in DOMAIN row : j # i => row'[j] = row[j]
        /\ DOMAIN NewRow \subseteq DOMAIN row'[i]
        /\ \A k \in DOMAIN RowField : row'[i][k] = row[i][k]
    <3>1. PICK n : row' = [row EXCEPT ![i].extra = n]
      BY <2>1
    <3>2. DOMAIN NewRow \subseteq DOMAIN row[i] /\ DOMAIN RowField \subseteq DOMAIN row[i]
      BY <2>1 DEF IInv, Shaped, NewRow, RowField
    <3>3. row'[i] = [row[i] EXCEPT !.extra = n] /\ "extra" \notin DOMAIN RowField
      BY <2>1, <3>1 DEF RowField
    <3>4. QED
      BY <2>1, <3>1, <3>2, <3>3
  <2>8. Shaped' /\ Created'
    BY <2>1, <2>2, <2>6, <2>7, AppliedTimes DEF IInv, Shaped, Created, Usable, Logs
  <2>9. CreditIsExplained'
    <3>1. ASSUME NEW q \in DOMAIN credit, credit'[q] > 0
          PROVE  q \in DOMAIN revision[list.current].snapshot
      <4>1. CASE credit'[q] = credit[q]
        BY <3>1, <4>1 DEF IInv, CreditIsExplained
      <4>2. CASE credit'[q] = 0 \/ credit'[q] = Current(q)
        BY <3>1, <4>2 DEF Current, Active
      <4>3. QED
        BY <2>6, <4>1, <4>2
    <3>2. QED
      BY <2>1, <2>6, <3>1 DEF CreditIsExplained
  <2>10. ListIsTheirs' /\ RowsAreTheirs' /\ ItemsAreTheirs'
    <3> HIDE DEF fields
    <3>1. \A j \in DOMAIN row : /\ j \in DOMAIN row'
                                /\ \A k \in DOMAIN RowField : row'[j][k] = row[j][k]
      BY <2>7
    <3>2. QED
      BY <2>1, <2>2, <2>3, <3>1, ListKept, RowsKept, ItemsKept DEF IInv
  <2>11. FeedCarriesLists'
    <3>1. /\ DOMAIN one = {<<"row", i>>} /\ one[<<"row", i>>] = row'[i]
      BY RowRecordIs
    <3>2. /\ DOMAIN two = {<<"contribution", p>> : p \in is}
          /\ \A p \in is : two[<<"contribution", p>>] = credit'[p]
      BY ContributionRecordsAre
    <3>3. told = Overlaid(one, two)
      OBVIOUS
    <3> HIDE DEF one, two, told, is
    <3>4. /\ DOMAIN told = DOMAIN one \cup DOMAIN two
          /\ \A x \in DOMAIN two : told[x] = two[x]
          /\ \A x \in DOMAIN one : x \notin DOMAIN two => told[x] = one[x]
      BY <3>3 DEF Overlaid
    <3>5. /\ <<"list">> \notin DOMAIN told
          /\ \A v : <<"revision", v>> \notin DOMAIN told /\ <<"item", v>> \notin DOMAIN told
          /\ \A j : <<"row", j>> \in DOMAIN told => j = i
          /\ told[<<"row", i>>] = row'[i]
          /\ \A p : <<"contribution", p>> \in DOMAIN told <=> p \in is
          /\ \A p \in is : told[<<"contribution", p>>] = credit'[p]
      BY <3>1, <3>2, <3>4
    <3>6. \A j \in DOMAIN row' :
             IF <<"row", j>> \in DOMAIN told THEN told[<<"row", j>>] = row'[j]
             ELSE j \in DOMAIN row /\ row'[j] = row[j]
      <4> HIDE DEF i
      <4>1. \A j \in DOMAIN row' : j \in DOMAIN row /\ (j # i => row'[j] = row[j])
        BY <2>7
      <4>2. ASSUME NEW j \in DOMAIN row', <<"row", j>> \notin DOMAIN told
            PROVE  j # i
        BY <3>1, <3>4, <4>2
      <4>3. QED
        BY <3>5, <4>1, <4>2
    <3>7. \A p \in DOMAIN credit' :
             IF <<"contribution", p>> \in DOMAIN told
             THEN told[<<"contribution", p>>] = credit'[p]
             ELSE p \in DOMAIN credit /\ credit'[p] = credit[p]
      BY <2>6, <3>5
    <3>8. QED
      BY <2>1, <2>2, <3>5, <3>6, <3>7, FeedStep DEF IInv
  <2>12. QED
    BY <2>5, <2>8, <2>9, <2>10, <2>11 DEF IInv
<1>3. QED
  BY <1>1, <1>2

(* The commands on items leave the rest alone. *)
LEMMA ItemStep ==
    ASSUME IInv, NEW c \in Command, NEW req \in Requests, Usable,
           NEW fields, NEW told, Logs(c, req, fields), Wrote(c, req, fields),
           fields \subseteq {ItemClock(x, f) : x \in Item, f \in ItemField \cup {"lifecycle", "fulfilment_credit"}},
           UNCHANGED <<list, revision, row, credit>>,
           retained' \in [Command -> Outcome \cup {"none"}], DOMAIN request' = Command,
           shown' = Overlaid(shown, told),
           NEW x \in Item, told = ItemRecord(x, item'[x]),
           DOMAIN item' \subseteq DOMAIN item \cup {x},
           \A y \in DOMAIN item' : y # x => item'[y] = item[y],
           \A y \in DOMAIN item' : {"target", "section", "credit", "retired"} \subseteq DOMAIN item'[y],
           ItemsAreTheirs'
    PROVE  IInv'
<1>1. req.time \in Nat
  BY RequestTypes
<1>2. ClocksRemember'
  BY <1>1, ClocksStep DEF IInv
<1>3. Shaped' /\ Created' /\ CreditIsExplained'
  BY <1>1, AppliedTimes DEF IInv, Shaped, Created, CreditIsExplained, Usable, Logs
<1>4. ListIsTheirs' /\ RowsAreTheirs'
  <2>1. /\ <<"list", "current">> \notin fields /\ <<"list", "name">> \notin fields
        /\ \A i \in Ingredient, k \in DOMAIN RowField : RowClock(i, k) \notin fields
    BY DEF RowClock, ItemClock
  <2>2. QED
    BY <2>1, ListKept, RowsKept DEF IInv
<1>5. FeedCarriesLists'
  <2>1. DOMAIN told = {<<"item", x>>} /\ told[<<"item", x>>] = item'[x]
    BY DEF ItemRecord, Only
  <2>2. QED
    BY <2>1, FeedStep DEF IInv
<1>6. QED
  BY <1>2, <1>3, <1>4, <1>5 DEF IInv

LEMMA AddItemStep ==
    ASSUME IInv, NEW c \in Command, NEW req \in Requests, Fresh(c), AddItem(c, req)
    PROVE  IInv'
<1> DEFINE x == req.item
           new == [target |-> req.target, section |-> req.section, credit |-> 0,
                   retired |-> FALSE]
<1>1. CASE Reject(c) /\ UNCHANGED item
  BY <1>1, RefusedStep DEF AddItem, listVars
<1>2. CASE ~(Reject(c) /\ UNCHANGED item)
  <2>1. /\ req.kind = "add_item" /\ UNCHANGED <<list, revision, row, credit>>
        /\ Usable /\ x \notin DOMAIN item
        /\ item' = Overlaid(item, Only(x, new))
        /\ Conclude(c, req, "accepted", {}, ItemRecord(x, new))
    BY <1>2 DEF AddItem, AddItemRefused, OperationRefused
  <2>2. /\ Logs(c, req, {}) /\ req.time \in Nat /\ x \in Item
        /\ shown' = Overlaid(shown, ItemRecord(x, new))
        /\ retained' \in [Command -> Outcome \cup {"none"}] /\ DOMAIN request' = Command
    BY <2>1, ConcludeLogs, RequestTypes DEF IInv
  <2>3. Wrote(c, req, {})
    BY <2>1 DEF Wrote, RowField
  <2>4. /\ DOMAIN item' = DOMAIN item \cup {x} /\ item'[x] = new
        /\ \A y \in DOMAIN item : item'[y] = item[y]
    <3> HIDE DEF new
    <3>1. QED
      BY <2>1 DEF Overlaid, Only
  <2>5. \A y \in DOMAIN item' : {"target", "section", "credit", "retired"} \subseteq DOMAIN item'[y]
    BY <2>4 DEF IInv, Shaped
  <2> HIDE DEF new
  <2>6. ItemsAreTheirs'
    BY <2>2, <2>4, ItemsKept DEF IInv
  <2>7. \A y \in DOMAIN item' : y # x => item'[y] = item[y]
    BY <2>4
  <2>8. QED
    BY <2>1, <2>2, <2>3, <2>4, <2>5, <2>6, <2>7, ItemStep
<1>3. QED
  BY <1>1, <1>2

LEMMA CheckItemStep ==
    ASSUME IInv, NEW c \in Command, NEW req \in Requests, Fresh(c), CheckItem(c, req)
    PROVE  IInv'
<1> DEFINE x == req.item
           f == ItemClock(x, "fulfilment_credit")
           fields == IF Wins(f, StampOf(c, req)) THEN {f} ELSE {}
<1>1. CASE Reject(c) /\ UNCHANGED item
  BY <1>1, RefusedStep DEF CheckItem, listVars
<1>2. CASE ~(Reject(c) /\ UNCHANGED item)
  <2>1. /\ req.kind = "check_item" /\ UNCHANGED <<list, revision, row, credit>>
        /\ Usable /\ x \in DOMAIN item
        /\ \E n : item' \in {[item EXCEPT ![x].credit = n], item}
        /\ Conclude(c, req, IF Wins(f, StampOf(c, req)) THEN "accepted"
                            ELSE "partially_superseded", fields, ItemRecord(x, item'[x]))
    BY <1>2 DEF CheckItem, OperationRefused, Listed
  <2>2. /\ Logs(c, req, fields) /\ req.time \in Nat /\ x \in Item
        /\ shown' = Overlaid(shown, ItemRecord(x, item'[x]))
        /\ retained' \in [Command -> Outcome \cup {"none"}] /\ DOMAIN request' = Command
    BY <2>1, ConcludeLogs, RequestTypes DEF IInv
  <2>3. Wrote(c, req, fields)
    BY <2>1 DEF Wrote, RowClock, ItemClock, RowField, ItemField
  <2>4. /\ DOMAIN item' = DOMAIN item
        /\ \A y \in DOMAIN item : y # x => item'[y] = item[y]
        /\ {"target", "section", "credit", "retired"} \subseteq DOMAIN item'[x]
        /\ item'[x].target = item[x].target /\ item'[x].section = item[x].section
        /\ item'[x].retired = item[x].retired
    BY <2>1 DEF IInv, Shaped
  <2>5. \A y \in DOMAIN item' : {"target", "section", "credit", "retired"} \subseteq DOMAIN item'[y]
    BY <2>4 DEF IInv, Shaped
  <2>6. ItemsAreTheirs'
    <3>1. \A y \in Item : /\ \A g \in ItemField : ItemClock(y, g) \notin fields
                          /\ ItemClock(y, "lifecycle") \notin fields
      BY DEF ItemClock, ItemField
    <3>2. \A y \in DOMAIN item : /\ y \in DOMAIN item'
                                 /\ item'[y].target = item[y].target
                                 /\ item'[y].section = item[y].section
                                 /\ item'[y].retired = item[y].retired
      BY <2>4
    <3>3. QED
      BY <2>2, <3>1, <3>2, ItemsKept DEF IInv
  <2>7. fields \subseteq {ItemClock(y, g) : y \in Item,
                             g \in ItemField \cup {"lifecycle", "fulfilment_credit"}}
    BY <2>2
  <2>8. QED
    BY <2>1, <2>2, <2>3, <2>4, <2>5, <2>6, <2>7, ItemStep
<1>3. QED
  BY <1>1, <1>2

(* The clock of an item's field after a step: this command's, or as it was. *)
LEMMA ItemHolder ==
    ASSUME ClocksRemember, NEW c, NEW req, NEW fields, Logs(c, req, fields),
           NEW x \in Item, NEW f \in ItemField \cup {"lifecycle"},
           ItemClock(x, f) \in DOMAIN clock'
    PROVE  IF ItemClock(x, f) \in fields THEN LastOf(ItemClock(x, f))' = req
           ELSE /\ ItemClock(x, f) \in DOMAIN clock
                /\ LastOf(ItemClock(x, f))' = LastOf(ItemClock(x, f))
<1>1. CASE ItemClock(x, f) \in fields
  BY <1>1, HolderWritten
<1>2. CASE ItemClock(x, f) \notin fields
  <2>1. ASSUME NEW S \in SUBSET Applied, Remembers(clock, request, ItemClock(x, f), S)
        PROVE  /\ ItemClock(x, f) \in DOMAIN clock
               /\ LastOf(ItemClock(x, f))' = LastOf(ItemClock(x, f))
    BY <1>2, <2>1, HolderKept
  <2>2. /\ ItemWrites(x, "update_item") \subseteq Applied
        /\ ItemWrites(x, "item_lifecycle") \subseteq Applied
    BY WritersAre
  <2>3. QED
    BY <1>2, <2>1, <2>2 DEF ClocksRemember
<1>3. QED
  BY <1>1, <1>2

LEMMA ItemValues ==
    ASSUME ClocksRemember, ItemsAreTheirs, NEW c, NEW req, NEW fields, Logs(c, req, fields),
           DOMAIN item' = DOMAIN item, NEW x \in DOMAIN item, x \in Item,
           \A y \in DOMAIN item : y # x => item'[y] = item[y],
           \A y \in Item, f \in ItemField \cup {"lifecycle"} : ItemClock(y, f) \in fields => y = x,
           item'[x].target = IF ItemClock(x, "target_amount") \in fields THEN req.target
                             ELSE item[x].target,
           item'[x].section = IF ItemClock(x, "store_section_id") \in fields THEN req.section
                              ELSE item[x].section,
           item'[x].retired = IF ItemClock(x, "lifecycle") \in fields THEN req.retire
                              ELSE item[x].retired
    PROVE  ItemsAreTheirs'
<1> SUFFICES ASSUME NEW y \in Item
             PROVE  LET t == ItemClock(y, "target_amount")
                        s == ItemClock(y, "store_section_id")
                        r == ItemClock(y, "lifecycle")
                    IN  /\ t \in DOMAIN clock' =>
                              y \in DOMAIN item' /\ item'[y].target = LastOf(t)'.target
                        /\ s \in DOMAIN clock' =>
                              y \in DOMAIN item' /\ item'[y].section = LastOf(s)'.section
                        /\ r \in DOMAIN clock' =>
                              y \in DOMAIN item' /\ item'[y].retired = LastOf(r)'.retire
  BY DEF ItemsAreTheirs, ItemClock
<1>1. \A f \in {"target_amount", "store_section_id", "lifecycle"} :
         ItemClock(y, f) \in DOMAIN clock' =>
            IF ItemClock(y, f) \in fields THEN LastOf(ItemClock(y, f))' = req
            ELSE /\ ItemClock(y, f) \in DOMAIN clock
                 /\ LastOf(ItemClock(y, f))' = LastOf(ItemClock(y, f))
  BY ItemHolder DEF ItemField
<1>2. CASE y = x
  BY <1>1, <1>2 DEF ItemsAreTheirs
<1>3. CASE y # x
  <2>1. \A f \in {"target_amount", "store_section_id", "lifecycle"} :
           ItemClock(y, f) \notin fields
    BY <1>3 DEF ItemField
  <2>2. QED
    BY <1>1, <1>3, <2>1 DEF ItemsAreTheirs
<1>4. QED
  BY <1>2, <1>3

LEMMA SetItemLifecycleStep ==
    ASSUME IInv, NEW c \in Command, NEW req \in Requests, Fresh(c), SetItemLifecycle(c, req)
    PROVE  IInv'
<1> DEFINE x == req.item
           f == ItemClock(x, "lifecycle")
           fields == IF Wins(f, StampOf(c, req)) THEN {f} ELSE {}
<1>1. CASE Reject(c) /\ UNCHANGED item
  BY <1>1, RefusedStep DEF SetItemLifecycle, listVars
<1>2. CASE ~(Reject(c) /\ UNCHANGED item)
  <2>1. /\ req.kind = "item_lifecycle" /\ UNCHANGED <<list, revision, row, credit>>
        /\ Usable /\ x \in DOMAIN item
        /\ item' = IF Wins(f, StampOf(c, req)) THEN [item EXCEPT ![x].retired = req.retire]
                   ELSE item
        /\ Conclude(c, req, IF Wins(f, StampOf(c, req)) THEN "accepted"
                            ELSE "partially_superseded", fields, ItemRecord(x, item'[x]))
    BY <1>2 DEF SetItemLifecycle, OperationRefused
  <2>2. /\ Logs(c, req, fields) /\ req.time \in Nat /\ x \in Item
        /\ shown' = Overlaid(shown, ItemRecord(x, item'[x]))
        /\ retained' \in [Command -> Outcome \cup {"none"}] /\ DOMAIN request' = Command
    BY <2>1, ConcludeLogs, RequestTypes DEF IInv
  <2>3. Wrote(c, req, fields)
    BY <2>1 DEF Wrote, RowClock, ItemClock, RowField, ItemField
  <2>4. /\ DOMAIN item' = DOMAIN item
        /\ \A y \in DOMAIN item : y # x => item'[y] = item[y]
        /\ {"target", "section", "credit", "retired"} \subseteq DOMAIN item'[x]
        /\ item'[x].target = item[x].target /\ item'[x].section = item[x].section
        /\ item'[x].retired = IF f \in fields THEN req.retire ELSE item[x].retired
    BY <2>1 DEF IInv, Shaped
  <2>5. \A y \in DOMAIN item' : {"target", "section", "credit", "retired"} \subseteq DOMAIN item'[y]
    BY <2>4 DEF IInv, Shaped
  <2>6. ItemsAreTheirs'
    <3>1. \A y \in Item, g \in ItemField \cup {"lifecycle"} : ItemClock(y, g) \in fields => y = x
      BY DEF ItemClock
    <3>2. /\ ItemClock(x, "target_amount") \notin fields
          /\ ItemClock(x, "store_section_id") \notin fields
      BY DEF ItemClock
    <3> HIDE DEF fields
    <3>3. QED
      BY <2>1, <2>2, <2>4, <3>1, <3>2, ItemValues DEF IInv
  <2>7. fields \subseteq {ItemClock(y, g) : y \in Item,
                             g \in ItemField \cup {"lifecycle", "fulfilment_credit"}}
    BY <2>2
  <2>8. QED
    BY <2>1, <2>2, <2>3, <2>4, <2>5, <2>6, <2>7, ItemStep
<1>3. QED
  BY <1>1, <1>2

LEMMA UpdateItemStep ==
    ASSUME IInv, NEW c \in Command, NEW req \in Requests, Fresh(c), UpdateItem(c, req)
    PROVE  IInv'
<1> DEFINE x == req.item
           won == WonFields(c, req)
           fields == {ItemClock(x, f) : f \in won}
<1>1. CASE Reject(c) /\ UNCHANGED item
  BY <1>1, RefusedStep DEF UpdateItem, listVars
<1>2. CASE ~(Reject(c) /\ UNCHANGED item)
  <2>1. /\ req.kind = "update_item" /\ UNCHANGED <<list, revision, row, credit>>
        /\ Usable /\ x \in DOMAIN item
        /\ item' = [item EXCEPT ![x] =
                      [item[x] EXCEPT
                         !.target = IF "target_amount" \in won THEN req.target ELSE @,
                         !.section = IF "store_section_id" \in won THEN req.section ELSE @]]
        /\ \E outcome \in {"accepted", "partially_superseded"} :
              Conclude(c, req, outcome, fields, ItemRecord(x, item'[x]))
    BY <1>2 DEF UpdateItem, UpdateItemRefused, OperationRefused, Listed
  <2>2. /\ Logs(c, req, fields) /\ req.time \in Nat /\ x \in Item
        /\ shown' = Overlaid(shown, ItemRecord(x, item'[x]))
        /\ retained' \in [Command -> Outcome \cup {"none"}] /\ DOMAIN request' = Command
    <3> HIDE DEF fields
    <3>1. QED
      BY <2>1, ConcludeLogs, RequestTypes DEF IInv
  <2>3. \A f : ItemClock(x, f) \in fields <=> f \in ItemField /\ Wins(ItemClock(x, f), StampOf(c, req))
    BY DEF ItemClock, WonFields
  <2>4. Wrote(c, req, fields)
    <3>1. /\ <<"list", "current">> \notin fields /\ <<"list", "name">> \notin fields
          /\ \A i \in Ingredient, k \in DOMAIN RowField : RowClock(i, k) \notin fields
          /\ \A y \in Item : \A g : ItemClock(y, g) \in fields => y = x
      BY DEF RowClock, ItemClock
    <3> HIDE DEF fields
    <3>2. QED
      BY <2>1, <2>3, <3>1 DEF Wrote, RowField, ItemField
  <2>5. /\ DOMAIN item' = DOMAIN item
        /\ \A y \in DOMAIN item : y # x => item'[y] = item[y]
        /\ {"target", "section", "credit", "retired"} \subseteq DOMAIN item'[x]
        /\ item'[x].target = IF "target_amount" \in won THEN req.target ELSE item[x].target
        /\ item'[x].section = IF "store_section_id" \in won THEN req.section ELSE item[x].section
        /\ item'[x].retired = item[x].retired
    <3> HIDE DEF won
    <3>1. QED
      BY <2>1 DEF IInv, Shaped
  <2>6. \A y \in DOMAIN item' : {"target", "section", "credit", "retired"} \subseteq DOMAIN item'[y]
    BY <2>5 DEF IInv, Shaped
  <2>7. ItemsAreTheirs'
    <3>1. \A y \in Item, g \in ItemField \cup {"lifecycle"} : ItemClock(y, g) \in fields => y = x
      BY DEF ItemClock
    <3>2. /\ "target_amount" \in won <=> ItemClock(x, "target_amount") \in fields
          /\ "store_section_id" \in won <=> ItemClock(x, "store_section_id") \in fields
          /\ ItemClock(x, "lifecycle") \notin fields
      BY DEF ItemClock, WonFields, ItemField
    <3> HIDE DEF fields, won
    <3>3. QED
      BY <2>1, <2>2, <2>5, <3>1, <3>2, ItemValues DEF IInv
  <2>8. fields \subseteq {ItemClock(y, g) : y \in Item,
                             g \in ItemField \cup {"lifecycle", "fulfilment_credit"}}
    BY <2>2 DEF WonFields
  <2> HIDE DEF fields
  <2>9. QED
    BY <2>1, <2>2, <2>4, <2>5, <2>6, <2>7, <2>8, ItemStep
<1>3. QED
  BY <1>1, <1>2

(* Rows and credits that the list has stay as they are. *)
LEMMA RowsForIs ==
    ASSUME NEW ps
    PROVE  /\ DOMAIN RowsFor(ps) = {p[2] : p \in ps} \cup DOMAIN row
           /\ \A i \in DOMAIN RowsFor(ps) :
                 RowsFor(ps)[i] = IF i \in DOMAIN row THEN row[i] ELSE NewRow
<1> DEFINE new == [i \in {p[2] : p \in ps} |-> NewRow]
<1>1. DOMAIN new = {p[2] : p \in ps} /\ \A i \in DOMAIN new : new[i] = NewRow
  OBVIOUS
<1>2. RowsFor(ps) = Overlaid(new, row)
  BY DEF RowsFor
<1> HIDE DEF new
<1>3. QED
  BY <1>1, <1>2 DEF Overlaid

LEMMA CreditsForIs ==
    ASSUME NEW ps
    PROVE  /\ DOMAIN CreditsFor(ps) = ps \cup DOMAIN credit
           /\ \A p \in DOMAIN CreditsFor(ps) :
                 CreditsFor(ps)[p] = IF p \in DOMAIN credit THEN credit[p] ELSE 0
  BY DEF CreditsFor, Overlaid

(* What a creation and a refresh publish. *)
LEMMA GenerationIs ==
    ASSUME NEW v, NEW r, NEW l, NEW rows, NEW is, NEW cs, NEW ps, NEW told,
           told = Overlaid(Overlaid(RevisionRecord(v, r), ListRecord(l)),
                           Overlaid(RowRecords(rows, is), ContributionRecords(cs, ps)))
    PROVE  /\ <<"list">> \in DOMAIN told /\ told[<<"list">>] = l
           /\ \A w : <<"revision", w>> \in DOMAIN told <=> w = v
           /\ told[<<"revision", v>>] = r
           /\ \A i : <<"row", i>> \in DOMAIN told <=> i \in is
           /\ \A i \in is : told[<<"row", i>>] = rows[i]
           /\ \A p : <<"contribution", p>> \in DOMAIN told <=> p \in ps
           /\ \A p \in ps : told[<<"contribution", p>>] = cs[p]
           /\ \A x : <<"item", x>> \notin DOMAIN told
<1> DEFINE a == RevisionRecord(v, r)
           b == ListRecord(l)
           d == RowRecords(rows, is)
           e == ContributionRecords(cs, ps)
<1>1. DOMAIN a = {<<"revision", v>>} /\ a[<<"revision", v>>] = r
  BY OnlyIs DEF RevisionRecord
<1>2. DOMAIN b = {<<"list">>} /\ b[<<"list">>] = l
  BY OnlyIs DEF ListRecord
<1>3. DOMAIN d = {<<"row", i>> : i \in is} /\ \A i \in is : d[<<"row", i>>] = rows[i]
  BY RowRecordsAre
<1>4. /\ DOMAIN e = {<<"contribution", p>> : p \in ps}
      /\ \A p \in ps : e[<<"contribution", p>>] = cs[p]
  BY ContributionRecordsAre
<1>5. told = Overlaid(Overlaid(a, b), Overlaid(d, e))
  OBVIOUS
<1> HIDE DEF a, b, d, e
<1>6. /\ DOMAIN told = DOMAIN a \cup DOMAIN b \cup DOMAIN d \cup DOMAIN e
      /\ \A x \in DOMAIN e : told[x] = e[x]
      /\ \A x \in DOMAIN d : x \notin DOMAIN e => told[x] = d[x]
      /\ \A x \in DOMAIN b : x \notin DOMAIN d \cup DOMAIN e => told[x] = b[x]
      /\ \A x \in DOMAIN a : x \notin DOMAIN b \cup DOMAIN d \cup DOMAIN e => told[x] = a[x]
  BY <1>5 DEF Overlaid
<1>7. /\ \A i : <<"row", i>> \in DOMAIN d <=> i \in is
      /\ \A p : <<"contribution", p>> \in DOMAIN e <=> p \in ps
  BY <1>3, <1>4
<1>8. /\ <<"list">> \notin DOMAIN d \cup DOMAIN e
      /\ \A w : /\ <<"revision", w>> \notin DOMAIN b \cup DOMAIN d \cup DOMAIN e
                /\ <<"item", w>> \notin DOMAIN a \cup DOMAIN b \cup DOMAIN d \cup DOMAIN e
                /\ <<"row", w>> \notin DOMAIN a \cup DOMAIN b \cup DOMAIN e
                /\ <<"contribution", w>> \notin DOMAIN a \cup DOMAIN b \cup DOMAIN d
                /\ <<"revision", w>> \in DOMAIN a <=> w = v
  BY <1>1, <1>2, <1>3, <1>4
<1>9. QED
  BY <1>1, <1>2, <1>3, <1>4, <1>6, <1>7, <1>8

LEMMA CreateStep ==
    ASSUME IInv, NEW c \in Command, NEW req \in Requests, Fresh(c), Create(c, req)
    PROVE  IInv'
<1> DEFINE ps == Generated(req.sources)
           is == {p[2] : p \in ps}
           f == <<"list", "current">>
           first == [parent |-> None, sources |-> req.sources, at |-> 0,
                     snapshot |-> [p \in ps |-> [active |-> TRUE, quantity |-> Need(p)]]]
           told == Overlaid(Overlaid(RevisionRecord(c, first), ListRecord(list')),
                            Overlaid(RowRecords(row', is), ContributionRecords(credit', ps)))
<1>1. CASE Reject(c) /\ UNCHANGED listVars
  BY <1>1, RefusedStep
<1>2. CASE ~(Reject(c) /\ UNCHANGED listVars)
  <2>1. /\ req.kind = "create" /\ list = NoList
        /\ list' = [name |-> req.name, current |-> c]
        /\ revision' = Only(c, first)
        /\ row' = RowsFor(ps) /\ credit' = CreditsFor(ps) /\ item' = item
        /\ Conclude(c, req, "accepted", {f}, told)
    BY <1>2 DEF Create, CreateRefused
  <2> HIDE DEF first
  <2>2. /\ Logs(c, req, {f}) /\ req.time \in Nat
        /\ shown' = Overlaid(shown, told)
        /\ retained' \in [Command -> Outcome \cup {"none"}] /\ DOMAIN request' = Command
    <3> HIDE DEF told, f
    <3>1. QED
      BY <2>1, ConcludeLogs, RequestTypes DEF IInv
  <2>3. /\ Applied = {} /\ DOMAIN clock = {} /\ DOMAIN revision = {}
        /\ DOMAIN row = {} /\ DOMAIN credit = {} /\ DOMAIN item = {}
    BY <2>1 DEF IInv, Created
  <2>4. Wrote(c, req, {f})
    BY <2>1, <2>3 DEF Wrote, Wins, RowClock, ItemClock, RowField
  <2>5. ClocksRemember'
    BY <2>2, <2>4, ClocksStep DEF IInv
  <2>6. /\ DOMAIN list' = {"name", "current"} /\ list'.current = c /\ list' # NoList
        /\ DOMAIN revision' = {c} /\ revision'[c] = first
    BY <2>1, NoneAssumption DEF NoList, Only
  <2>7. /\ DOMAIN row' = is /\ is \subseteq Ingredient /\ \A i \in is : row'[i] = NewRow
        /\ DOMAIN credit' = ps /\ \A p \in ps : credit'[p] = 0
    <3>1. DOMAIN row' = is /\ \A i \in is : row'[i] = NewRow
      <4> HIDE DEF ps
      <4>1. QED
        BY <2>1, <2>3, RowsForIs
    <3>2. DOMAIN credit' = ps /\ \A p \in ps : credit'[p] = 0
      BY <2>1, <2>3, CreditsForIs
    <3>3. is \subseteq Ingredient
      BY DEF Generated
    <3>4. QED
      BY <3>1, <3>2, <3>3
  <2> HIDE DEF ps, is
  <2>8. Shaped'
    BY <2>1, <2>2, <2>3, <2>6, <2>7, AppliedTimes DEF IInv, Shaped, Logs
  <2>9. DOMAIN clock' = {f} /\ clock'[f][2] = c
    <3>1. DOMAIN clock' = {f}
      BY <2>2, <2>3 DEF Logs
    <3>2. clock'[f] = StampOf(c, req)
      BY <2>2 DEF Logs
    <3>3. QED
      BY <3>1, <3>2 DEF StampOf
  <2>10. Created' /\ CreditIsExplained'
    BY <2>6, <2>7, <2>9 DEF Created, CreditIsExplained
  <2>11. ListIsTheirs' /\ RowsAreTheirs' /\ ItemsAreTheirs'
    BY <2>6, <2>9 DEF ListIsTheirs, RowsAreTheirs, ItemsAreTheirs, RowClock, ItemClock
  <2>12. FeedCarriesLists'
    <3>1. told = Overlaid(Overlaid(RevisionRecord(c, first), ListRecord(list')),
                          Overlaid(RowRecords(row', is), ContributionRecords(credit', ps)))
      OBVIOUS
    <3> HIDE DEF told
    <3>2. /\ <<"list">> \in DOMAIN told /\ told[<<"list">>] = list'
          /\ <<"revision", c>> \in DOMAIN told /\ told[<<"revision", c>>] = first
          /\ \A i \in is : <<"row", i>> \in DOMAIN told /\ told[<<"row", i>>] = row'[i]
          /\ \A p \in ps : /\ <<"contribution", p>> \in DOMAIN told
                           /\ told[<<"contribution", p>>] = credit'[p]
      BY <3>1, GenerationIs
    <3>3. QED
      BY <2>1, <2>2, <2>3, <2>6, <2>7, <3>2, FeedStep DEF IInv
  <2>13. QED
    BY <2>5, <2>8, <2>10, <2>11, <2>12 DEF IInv
<1>3. QED
  BY <1>1, <1>2

LEMMA RefreshStep ==
    ASSUME IInv, NEW c \in Command, NEW req \in Requests, Fresh(c), Refresh(c, req)
    PROVE  IInv'
<1> DEFINE ps == Generated(req.sources)
           f == <<"list", "current">>
           wins == Wins(f, StampOf(c, req))
           fields == IF wins THEN {f} ELSE {}
           next == [parent |-> req.parent, sources |-> req.sources,
                    at |-> Cardinality(DOMAIN revision), snapshot |-> Refreshed(req)]
           qs == DOMAIN next.snapshot
           is == {p[2] : p \in qs}
           told == Overlaid(Overlaid(RevisionRecord(c, next), ListRecord(list')),
                            Overlaid(RowRecords(row', is), ContributionRecords(credit', qs)))
<1>1. CASE Reject(c) /\ UNCHANGED listVars
  BY <1>1, RefusedStep
<1>2. CASE ~(Reject(c) /\ UNCHANGED listVars)
  <2>1. /\ req.kind = "refresh" /\ Usable
        /\ list' = IF wins THEN [list EXCEPT !.current = c] ELSE list
        /\ revision' = Overlaid(revision, Only(c, next))
        /\ row' = RowsFor(ps) /\ credit' = CreditsFor(ps) /\ item' = item
        /\ Conclude(c, req, IF wins THEN "accepted" ELSE "partially_superseded", fields, told)
    BY <1>2 DEF Refresh, RefreshRefused
  <2>2. qs = ps \cup DOMAIN credit
    BY DEF Refreshed
  <2> HIDE DEF next
  <2>3. /\ Logs(c, req, fields) /\ req.time \in Nat
        /\ shown' = Overlaid(shown, told)
        /\ retained' \in [Command -> Outcome \cup {"none"}] /\ DOMAIN request' = Command
    <3> HIDE DEF told, fields
    <3>1. QED
      BY <2>1, ConcludeLogs, RequestTypes DEF IInv
  <2>4. Wrote(c, req, fields)
    BY <2>1 DEF Wrote, RowClock, ItemClock, RowField
  <2>5. ClocksRemember'
    BY <2>3, <2>4, ClocksStep DEF IInv
  <2>6. /\ {"name", "current"} \subseteq DOMAIN list' /\ list'.name = list.name
        /\ list'.current = IF wins THEN c ELSE list.current
    BY <2>1 DEF IInv, Shaped
  <2>7. /\ list.current \in DOMAIN revision /\ c \notin DOMAIN revision
        /\ DOMAIN revision \subseteq Command
    BY <2>1, <2>3 DEF IInv, Shaped, Created, Usable, Logs, Applied
  <2>8. list' # NoList
    <3>1. list'.current # None
      BY <2>6, <2>7, NoneAssumption
    <3>2. QED
      BY <3>1 DEF NoList
  <2>9. /\ DOMAIN revision' = DOMAIN revision \cup {c} /\ revision'[c] = next
        /\ \A v \in DOMAIN revision : revision'[v] = revision[v]
    BY <2>1, <2>7 DEF Overlaid, Only
  <2>10. /\ DOMAIN credit' = qs
         /\ \A p \in qs : credit'[p] = IF p \in DOMAIN credit THEN credit[p] ELSE 0
    BY <2>1, <2>2, CreditsForIs
  <2>11. ps \subseteq qs /\ \A p \in ps : p[2] \in Ingredient
    BY <2>2 DEF Generated
  <2>12. /\ DOMAIN row' = {p[2] : p \in ps} \cup DOMAIN row
         /\ \A i \in DOMAIN row' : row'[i] = IF i \in DOMAIN row THEN row[i] ELSE NewRow
    <3> HIDE DEF ps
    <3>1. QED
      BY <2>1, RowsForIs
  <2>13. /\ DOMAIN row' \subseteq Ingredient /\ DOMAIN row \subseteq DOMAIN row'
         /\ \A i \in DOMAIN row' : i \in is \/ i \in DOMAIN row
    BY <2>11, <2>12 DEF IInv, Shaped
  <2> HIDE DEF ps, qs, is, wins
  <2>14. Shaped'
    BY <2>1, <2>3, <2>6, <2>9, <2>12, <2>13, AppliedTimes DEF IInv, Shaped, Logs
  <2>15. Created'
    BY <2>1, <2>3, <2>6, <2>7, <2>8, <2>9 DEF IInv, Created, Usable, Logs
  <2>16. CreditIsExplained'
    <3>1. ASSUME NEW p \in qs, credit'[p] > 0
          PROVE  p \in DOMAIN revision'[list'.current].snapshot
      <4>1. CASE wins
        BY <2>6, <2>9, <4>1 DEF qs
      <4>2. CASE ~wins
        <5>1. p \in DOMAIN credit /\ credit[p] > 0
          BY <2>10, <3>1
        <5>2. QED
          BY <2>6, <2>7, <2>9, <4>2, <5>1 DEF IInv, CreditIsExplained
      <4>3. QED
        BY <4>1, <4>2
    <3>2. QED
      BY <2>10, <3>1 DEF CreditIsExplained
  <2>17. RowsAreTheirs' /\ ItemsAreTheirs'
    <3>1. /\ \A i \in Ingredient, k \in DOMAIN RowField : RowClock(i, k) \notin fields
          /\ \A x \in Item : /\ \A g \in ItemField : ItemClock(x, g) \notin fields
                             /\ ItemClock(x, "lifecycle") \notin fields
      BY DEF RowClock, ItemClock
    <3>2. \A i \in DOMAIN row : /\ i \in DOMAIN row'
                                /\ \A k \in DOMAIN RowField : row'[i][k] = row[i][k]
      BY <2>12, <2>13
    <3> HIDE DEF fields
    <3>3. QED
      BY <2>1, <2>3, <3>1, <3>2, RowsKept, ItemsKept DEF IInv
  <2>18. ListIsTheirs'
    <3>1. LET g == <<"list", "name">>
          IN  g \in DOMAIN clock' => g \in DOMAIN clock /\ LastOf(g)' = LastOf(g)
      <4>1. <<"list", "name">> \notin fields
        OBVIOUS
      <4> HIDE DEF fields
      <4>2. QED
        BY <2>3, <4>1, HolderKept, WritersAre DEF IInv, ClocksRemember
    <3>2. f \in DOMAIN clock' => list'.current = clock'[f][2]
      <4>1. CASE wins
        BY <2>3, <2>6, <4>1, HolderWritten
      <4>2. CASE ~wins
        <5>1. f \in DOMAIN clock' => f \in DOMAIN clock /\ clock'[f] = clock[f]
          BY <2>3, <4>2 DEF Logs
        <5>2. QED
          BY <2>6, <4>2, <5>1 DEF IInv, ListIsTheirs
      <4>3. QED
        BY <4>1, <4>2
    <3>3. QED
      BY <2>6, <2>8, <3>1, <3>2 DEF IInv, ListIsTheirs
  <2>19. FeedCarriesLists'
    <3>1. told = Overlaid(Overlaid(RevisionRecord(c, next), ListRecord(list')),
                          Overlaid(RowRecords(row', is), ContributionRecords(credit', qs)))
      OBVIOUS
    <3> HIDE DEF told
    <3>2. /\ <<"list">> \in DOMAIN told /\ told[<<"list">>] = list'
          /\ \A w : <<"revision", w>> \in DOMAIN told <=> w = c
          /\ told[<<"revision", c>>] = next
          /\ \A i : <<"row", i>> \in DOMAIN told <=> i \in is
          /\ \A i \in is : told[<<"row", i>>] = row'[i]
          /\ \A p \in qs : /\ <<"contribution", p>> \in DOMAIN told
                           /\ told[<<"contribution", p>>] = credit'[p]
          /\ \A x : <<"item", x>> \notin DOMAIN told
      BY <3>1, GenerationIs
    <3>3. \A i \in DOMAIN row' :
             IF <<"row", i>> \in DOMAIN told THEN told[<<"row", i>>] = row'[i]
             ELSE i \in DOMAIN row /\ row'[i] = row[i]
      BY <2>12, <2>13, <3>2
    <3>4. \A v \in DOMAIN revision' :
             IF <<"revision", v>> \in DOMAIN told THEN told[<<"revision", v>>] = revision'[v]
             ELSE v \in DOMAIN revision /\ revision'[v] = revision[v]
      BY <2>9, <3>2
    <3>5. QED
      BY <2>1, <2>3, <2>10, <3>2, <3>3, <3>4, FeedStep DEF IInv
  <2>20. QED
    BY <2>5, <2>14, <2>15, <2>16, <2>17, <2>18, <2>19 DEF IInv
<1>3. QED
  BY <1>1, <1>2

-----------------------------------------------------------------------------
(* The invariant is inductive. *)

LEMMA InitialState == Init => IInv
<1> SUFFICES ASSUME Init PROVE IInv
  OBVIOUS
<1>1. /\ \A c \in Command : retained[c] = "none"
      /\ retained \in [Command -> Outcome \cup {"none"}]
      /\ DOMAIN request = Command /\ list = NoList
      /\ DOMAIN clock = {} /\ DOMAIN revision = {} /\ DOMAIN row = {} /\ DOMAIN credit = {}
      /\ DOMAIN item = {}
  BY DEF Init, LogInit
<1>2. Applied = {}
  BY <1>1 DEF Applied
<1>3. Shaped
  <2>1. {"name", "current"} \subseteq DOMAIN list
    BY <1>1 DEF NoList
  <2>2. QED
    BY <1>1, <1>2, <2>1 DEF Shaped
<1>4. Created
  BY <1>1, <1>2 DEF Created
<1>5. ClocksRemember
  BY <1>1, <1>2 DEF ClocksRemember, Remembers, AppliedOf, RowWrites, ItemWrites
<1>6. ListIsTheirs /\ RowsAreTheirs /\ ItemsAreTheirs
  BY <1>1 DEF ListIsTheirs, RowsAreTheirs, ItemsAreTheirs
<1>7. FeedCarriesLists /\ CreditIsExplained
  BY <1>1 DEF FeedCarriesLists, CreditIsExplained
<1>8. QED
  BY <1>3, <1>4, <1>5, <1>6, <1>7 DEF IInv

LEMMA InductiveStep ==
    ASSUME IInv, [Next]_vars
    PROVE  IInv'
<1>1. ASSUME NEW c \in Command, NEW req \in Requests, Fresh(c), Perform(c, req)
      PROVE  IInv'
  BY <1>1, CreateStep, RenameStep, RefreshStep, SetRowFieldStep, CheckStep, CheckRowStep,
     AddItemStep, CheckItemStep, SetItemLifecycleStep, UpdateItemStep DEF Perform
<1>2. ASSUME NEW c \in Command, Malformed(c), UNCHANGED listVars
      PROVE  IInv'
  BY <1>2, RefusedStep DEF Malformed
<1>3. CASE UNCHANGED <<logVars, listVars>>
  <2>1. Applied' = Applied /\ retained' \in [Command -> Outcome \cup {"none"}]
    BY <1>3 DEF logVars, Applied, IInv, Shaped
  <2>2. QED
    BY <1>3, <2>1, QuietStep DEF logVars
<1>4. QED
  BY <1>1, <1>2, <1>3 DEF Next, Retry, Replan, Archive, vars

LEMMA Induction == Spec => []IInv
  BY InitialState, InductiveStep, PTL DEF Spec

-----------------------------------------------------------------------------
(* The theorems. *)

(* A contribution that has credit has a snapshot in the current revision: a     *)
(* refresh carries along what any branch has ever generated, also when it       *)
(* comes late, so no purchase is without the line that explains it.            *)
THEOREM CreditExplained == Spec => []CreditIsExplained
<1>1. IInv => CreditIsExplained
  BY DEF IInv
<1>2. QED
  BY <1>1, Induction, PTL

(* Whoever replays the change feed has every list, revision, row, contribution  *)
(* and item as the tables have them.                                        *)
THEOREM ListsCarried == Spec => []FeedCarriesLists
<1>1. IInv => FeedCarriesLists
  BY DEF IInv
<1>2. QED
  BY <1>1, Induction, PTL

LEMMA LatestValues == ASSUME IInv PROVE LatestWriteHolds
<1>1. ASSUME NEW f, NEW S \in SUBSET Applied, Remembers(clock, request, f, S), S # {}
      PROVE  f \in DOMAIN clock /\ Latest(S) = clock[f][2]
  <2>1. S \subseteq Command /\ \A c \in S : request[c].time \in Nat
    BY DEF IInv, Shaped, Applied
  <2>2. QED
    BY <1>1, <2>1, LatestIs DEF Remembers
<1>2. list # NoList => list.current = Latest(AppliedOf({"create", "refresh"}))
  <2>1. Remembers(clock, request, <<"list", "current">>, AppliedOf({"create", "refresh"}))
    BY DEF IInv, ClocksRemember
  <2>2. AppliedOf({"create", "refresh"}) \subseteq Applied
    BY DEF AppliedOf
  <2>3. list # NoList => AppliedOf({"create", "refresh"}) # {}
    BY <2>1 DEF IInv, Created, Remembers
  <2>4. QED
    BY <1>1, <2>1, <2>2, <2>3 DEF IInv, ListIsTheirs
<1>3. LET renames == AppliedOf({"rename"})
      IN  renames # {} => list.name = request[Latest(renames)].name
  <2>1. AppliedOf({"rename"}) \subseteq Applied
    BY DEF AppliedOf
  <2>2. QED
    BY <1>1, <2>1 DEF IInv, ClocksRemember, ListIsTheirs, LastOf
<1>4. ASSUME NEW i \in DOMAIN row, NEW k \in DOMAIN RowField, RowWrites(i, k) # {}
      PROVE  row[i][k] = request[Latest(RowWrites(i, k))].value
  <2>1. RowWrites(i, k) \subseteq Applied /\ i \in Ingredient
    BY DEF RowWrites, AppliedOf, IInv, Shaped
  <2>2. QED
    BY <1>1, <1>4, <2>1 DEF IInv, ClocksRemember, RowsAreTheirs, LastOf
<1>5. ASSUME NEW x \in DOMAIN item
      PROVE  /\ ItemWrites(x, "update_item") # {} =>
                   LET q == request[Latest(ItemWrites(x, "update_item"))]
                   IN  item[x].target = q.target /\ item[x].section = q.section
             /\ ItemWrites(x, "item_lifecycle") # {} =>
                   item[x].retired = request[Latest(ItemWrites(x, "item_lifecycle"))].retire
  <2>1. /\ ItemWrites(x, "update_item") \subseteq Applied
        /\ ItemWrites(x, "item_lifecycle") \subseteq Applied /\ x \in Item
    BY DEF ItemWrites, AppliedOf, IInv, Shaped
  <2>2. /\ Remembers(clock, request, ItemClock(x, "target_amount"), ItemWrites(x, "update_item"))
        /\ Remembers(clock, request, ItemClock(x, "store_section_id"),
                     ItemWrites(x, "update_item"))
        /\ Remembers(clock, request, ItemClock(x, "lifecycle"), ItemWrites(x, "item_lifecycle"))
    BY <2>1 DEF IInv, ClocksRemember, ItemField
  <2>3. QED
    BY <1>1, <2>1, <2>2 DEF IInv, ItemsAreTheirs, LastOf
<1>6. QED
  BY <1>2, <1>3, <1>4, <1>5 DEF LatestWriteHolds, RowWrites, ItemWrites

(* Last writer wins in whatever order the commands of the devices arrive: the   *)
(* current revision, the name, the fields of rows and of items are those of the  *)
(* write with the latest stamp.                                              *)
THEOREM LastWriteWins == Spec => []LatestWriteHolds
  BY Induction, LatestValues, PTL

LEMMA CheckAdvances ==
    ASSUME IInv, [Next]_vars, NEW p \in DOMAIN credit, credit'[p] # credit[p]
    PROVE  LET f == CreditClock(p)
           IN  f \in DOMAIN clock' /\ (f \in DOMAIN clock => Later(clock'[f], clock[f]))
<1> DEFINE f == CreditClock(p)
<1>1. ASSUME NEW c \in Command, NEW req, NEW fields, Logs(c, req, fields), f \in fields,
             Wins(f, StampOf(c, req))
      PROVE  f \in DOMAIN clock' /\ (f \in DOMAIN clock => Later(clock'[f], clock[f]))
  BY <1>1 DEF Logs, Wins
<1>2. ~(UNCHANGED credit)
  OBVIOUS
<1>3. ASSUME NEW c \in Command, NEW req \in Requests, Fresh(c), Check(c, req)
      PROVE  f \in DOMAIN clock' /\ (f \in DOMAIN clock => Later(clock'[f], clock[f]))
  <2> DEFINE fields == IF Wins(CreditClock(req.pair), StampOf(c, req))
                       THEN {CreditClock(req.pair)} ELSE {}
             outcome == IF Wins(CreditClock(req.pair), StampOf(c, req)) THEN "accepted"
                        ELSE "partially_superseded"
             told == Overlaid(ContributionRecords(credit', {req.pair}),
                              RowRecords(row, {req.pair[2]}))
  <2>1. /\ Conclude(c, req, outcome, fields, told)
        /\ p = req.pair /\ Wins(f, StampOf(c, req))
    BY <1>2, <1>3 DEF Check
  <2>2. f \in fields
    BY <2>1
  <2>3. Logs(c, req, fields)
    <3>1. outcome \in {"accepted", "partially_superseded"}
      OBVIOUS
    <3> HIDE DEF told, fields, outcome
    <3>2. QED
      BY <1>3, <2>1, <3>1, ConcludeLogs DEF IInv
  <2>4. QED
    BY <1>1, <2>1, <2>2, <2>3
<1>4. ASSUME NEW c \in Command, NEW req \in Requests, Fresh(c), CheckRow(c, req)
      PROVE  f \in DOMAIN clock' /\ (f \in DOMAIN clock => Later(clock'[f], clock[f]))
  <2> DEFINE fields == RowCheckFields(req)
             told == Overlaid(RowRecords(row', {req.row}),
                              ContributionRecords(credit', ContributionsOf(req.row)))
  <2>1. /\ Conclude(c, req, "accepted", fields, told)
        /\ p \in Touched(req) /\ WinsAll(c, req)
    BY <1>2, <1>4 DEF CheckRow, CheckRowRefused
  <2>2. f \in fields /\ Wins(f, StampOf(c, req))
    BY <2>1 DEF RowCheckFields, WinsAll
  <2>3. Logs(c, req, fields)
    <3> HIDE DEF told, fields
    <3>1. QED
      BY <1>4, <2>1, ConcludeLogs DEF IInv
  <2>4. QED
    BY <1>1, <2>2, <2>3
<1>5. ASSUME NEW c \in Command, NEW req \in Requests, Create(c, req)
      PROVE  FALSE
  <2>1. list = NoList
    BY <1>2, <1>5 DEF Create, CreateRefused, listVars
  <2>2. QED
    BY <2>1 DEF IInv, Created
<1>6. ASSUME NEW c \in Command, NEW req \in Requests, Refresh(c, req)
      PROVE  FALSE
  <2>1. credit' = CreditsFor(Generated(req.sources))
    BY <1>2, <1>6 DEF Refresh, listVars
  <2>2. QED
    BY <2>1, CreditsForIs
<1>7. ASSUME NEW c \in Command, NEW req \in Requests,
             \/ Rename(c, req) \/ SetRowField(c, req) \/ AddItem(c, req) \/ CheckItem(c, req)
             \/ SetItemLifecycle(c, req) \/ UpdateItem(c, req)
      PROVE  FALSE
  BY <1>2, <1>7 DEF Rename, SetRowField, AddItem, CheckItem, SetItemLifecycle, UpdateItem
<1>8. PICK c \in Command, req \in Requests : Fresh(c) /\ Perform(c, req)
  BY <1>2 DEF Next, Replan, Archive, vars, listVars
<1>9. QED
  BY <1>3, <1>4, <1>5, <1>6, <1>7, <1>8 DEF Perform

(* No late checkbox replaces a newer one: the credit of a contribution changes   *)
(* only in a step that moves its clock, and moves it forward.                 *)
THEOREM NewerChecksSurvive == Spec => NewerCheckSurvives
<1>1. IInv /\ [Next]_vars =>
         [\A p \in DOMAIN credit : credit'[p] # credit[p] =>
             LET f == CreditClock(p)
             IN  f \in DOMAIN clock' /\ (f \in DOMAIN clock => Later(clock'[f], clock[f]))]_vars
  BY CheckAdvances
<1>2. QED
  BY <1>1, Induction, PTL DEF Spec, NewerCheckSurvives

-----------------------------------------------------------------------------
(* Sums: the recursive function behind a fold exists on the subsets of every    *)
(* finite set, by taking a smallest number of elements up to which it does not.  *)

LessThan == {p \in Nat \X Nat : p[1] < p[2]}

LEMMA LeastExists ==
    ASSUME NEW T \in SUBSET Nat, T # {}
    PROVE  \E m \in T : \A k \in T : m <= k
<1>1. IsWellFoundedOn(OpToRel(<, Nat), Nat)
  BY NatLessThanWellFounded
<1>2. IsWellFoundedOn(LessThan, Nat)
  BY <1>1 DEF OpToRel, LessThan
<1>3. PICK m \in T : \A k \in T : <<k, m>> \notin LessThan
  BY <1>2, WFMin
<1>4. ASSUME NEW k \in T
      PROVE  m <= k
  <2>1. k \in Nat /\ m \in Nat
    OBVIOUS
  <2>2. ~(k < m)
    BY <1>3, <2>1 DEF LessThan
  <2>3. QED
    BY <2>1, <2>2
<1>5. QED
  BY <1>4

LEMMA LargestExists ==
    ASSUME NEW n \in Nat, NEW T \in SUBSET (0..n), T # {}
    PROVE  \E m \in T : \A k \in T : k <= m
<1> DEFINE D == {n - k : k \in T}
<1>1. \A k \in T : k \in Nat /\ n - k \in Nat /\ n - k \in D
  OBVIOUS
<1>2. D \subseteq Nat /\ D # {}
  BY <1>1
<1>3. PICK d \in D : \A e \in D : d <= e
  BY <1>2, LeastExists
<1>4. PICK m \in T : d = n - m
  OBVIOUS
<1>5. ASSUME NEW k \in T
      PROVE  k <= m
  <2>1. d <= n - k
    BY <1>1, <1>3
  <2>2. k \in Nat /\ m \in Nat
    BY <1>1
  <2>3. QED
    BY <1>4, <2>1, <2>2
<1>6. QED
  BY <1>5

AnyOf(s) == CHOOSE x \in s : TRUE

(* h sums f over the sets in D. *)
Sums(f, D, h) ==
    h = [s \in D |-> IF s = {} THEN 0 ELSE f[AnyOf(s)] + h[s \ {AnyOf(s)}]]

LEMMA TotalUnfolds ==
    ASSUME NEW f
    PROVE  Total(f) = (CHOOSE h : Sums(f, SUBSET DOMAIN f, h))[DOMAIN f]
  BY DEF Total, MapThenSumSet, MapThenFoldSet, Sums, AnyOf

UpTo(n, S) == {s \in SUBSET S : Cardinality(s) <= n}

LEMMA SumsExtend ==
    ASSUME NEW f, NEW S, IsFiniteSet(S), NEW n \in Nat, NEW h, Sums(f, UpTo(n, S), h)
    PROVE  \E g : Sums(f, UpTo(n + 1, S), g)
<1> DEFINE g == [s \in UpTo(n + 1, S) |->
                   IF s = {} THEN 0 ELSE f[AnyOf(s)] + h[s \ {AnyOf(s)}]]
<1>1. ASSUME NEW s \in UpTo(n + 1, S), s # {}
      PROVE  s \ {AnyOf(s)} \in UpTo(n, S)
  <2>1. IsFiniteSet(s) /\ AnyOf(s) \in s
    BY <1>1, FS_Subset DEF UpTo, AnyOf
  <2>2. /\ Cardinality(s \ {AnyOf(s)}) = Cardinality(s) - 1
        /\ Cardinality(s) \in Nat
    BY <2>1, FS_RemoveElement, FS_CardinalityType
  <2>3. QED
    BY <2>2 DEF UpTo
<1>2. UpTo(n, S) \subseteq UpTo(n + 1, S)
  <2>1. \A s \in SUBSET S : Cardinality(s) \in Nat
    BY FS_Subset, FS_CardinalityType
  <2>2. QED
    BY <2>1 DEF UpTo
<1>3. ASSUME NEW s \in UpTo(n, S)
      PROVE  g[s] = h[s]
  BY <1>2 DEF Sums
<1>4. g = [s \in UpTo(n + 1, S) |-> IF s = {} THEN 0 ELSE f[AnyOf(s)] + g[s \ {AnyOf(s)}]]
  <2>1. ASSUME NEW s \in UpTo(n + 1, S)
        PROVE  (IF s = {} THEN 0 ELSE f[AnyOf(s)] + h[s \ {AnyOf(s)}])
                 = (IF s = {} THEN 0 ELSE f[AnyOf(s)] + g[s \ {AnyOf(s)}])
    BY <1>1, <1>3
  <2>2. QED
    BY <2>1
<1>5. QED
  BY <1>4 DEF Sums

LEMMA SumsExist ==
    ASSUME NEW f, NEW S, IsFiniteSet(S)
    PROVE  \E h : Sums(f, SUBSET S, h)
<1> DEFINE Bad == {n \in Nat : ~\E h : Sums(f, UpTo(n, S), h)}
<1>1. \E h : Sums(f, UpTo(0, S), h)
  <2>1. \A s \in UpTo(0, S) : s = {}
    <3>1. ASSUME NEW s \in UpTo(0, S)
          PROVE  s = {}
      <4>1. IsFiniteSet(s) /\ Cardinality(s) \in Nat /\ Cardinality(s) <= 0
        BY FS_Subset, FS_CardinalityType DEF UpTo
      <4>2. Cardinality(s) = 0
        BY <4>1
      <4>3. QED
        BY <4>1, <4>2, FS_EmptySet
    <3>2. QED
      BY <3>1
  <2> DEFINE h == [s \in UpTo(0, S) |-> 0]
  <2>2. h = [s \in UpTo(0, S) |-> IF s = {} THEN 0 ELSE f[AnyOf(s)] + h[s \ {AnyOf(s)}]]
    BY <2>1
  <2>3. QED
    BY <2>2 DEF Sums
<1>2. Bad = {}
  <2> SUFFICES ASSUME Bad # {} PROVE FALSE
    OBVIOUS
  <2>1. PICK m \in Bad : \A k \in Bad : m <= k
    BY LeastExists
  <2>2. m # 0 /\ m - 1 \in Nat
    BY <1>1, <2>1
  <2>3. m - 1 \notin Bad
    BY <2>1, <2>2
  <2>4. PICK h : Sums(f, UpTo(m - 1, S), h)
    BY <2>2, <2>3
  <2>5. \E g : Sums(f, UpTo(m - 1 + 1, S), g)
    BY <2>2, <2>4, SumsExtend
  <2>6. m - 1 + 1 = m
    BY <2>1
  <2>7. QED
    BY <2>1, <2>5, <2>6
<1>3. UpTo(Cardinality(S), S) = SUBSET S
  BY FS_Subset DEF UpTo
<1>4. Cardinality(S) \in Nat
  BY FS_CardinalityType
<1>5. Cardinality(S) \notin Bad
  BY <1>2
<1>6. \E h : Sums(f, UpTo(Cardinality(S), S), h)
  BY <1>4, <1>5
<1>7. QED
  BY <1>3, <1>6

(* A sum stays in a set that holds 0 and is closed under adding an amount. *)
LEMMA TotalIn ==
    ASSUME NEW f, IsFiniteSet(DOMAIN f), NEW V, 0 \in V,
           \A x \in DOMAIN f, v \in V : f[x] + v \in V
    PROVE  Total(f) \in V
<1> DEFINE D == DOMAIN f
           h == CHOOSE g : Sums(f, SUBSET D, g)
           Bad == {s \in SUBSET D : h[s] \notin V}
           Sizes == {Cardinality(s) : s \in Bad}
<1>1. Sums(f, SUBSET D, h)
  BY SumsExist
<1>2. \A s \in SUBSET D : h[s] = IF s = {} THEN 0 ELSE f[AnyOf(s)] + h[s \ {AnyOf(s)}]
  BY <1>1 DEF Sums
<1>3. Total(f) = h[D]
  BY TotalUnfolds
<1> HIDE DEF h
<1>4. \A s \in SUBSET D : IsFiniteSet(s) /\ Cardinality(s) \in Nat
  BY FS_Subset, FS_CardinalityType
<1>5. Bad = {}
  <2> SUFFICES ASSUME Bad # {} PROVE FALSE
    OBVIOUS
  <2>1. Sizes \in SUBSET Nat /\ Sizes # {}
    BY <1>4
  <2> HIDE DEF Sizes
  <2>2. PICK m \in Sizes : \A k \in Sizes : m <= k
    BY <2>1, LeastExists
  <2> USE DEF Sizes
  <2>3. PICK s \in Bad : Cardinality(s) = m
    BY <2>2
  <2>4. s # {}
    BY <1>2, <2>3
  <2> DEFINE t == s \ {AnyOf(s)}
  <2>5. AnyOf(s) \in s /\ t \in SUBSET D
    BY <2>4 DEF AnyOf
  <2>6. Cardinality(t) = Cardinality(s) - 1 /\ Cardinality(s) \in Nat /\ Cardinality(t) \in Nat
    <3>1. IsFiniteSet(s) /\ IsFiniteSet(t)
      BY <1>4, <2>5
    <3>2. QED
      BY <2>5, <3>1, FS_RemoveElement, FS_CardinalityType
  <2>7. t \notin Bad
    <3>1. ASSUME t \in Bad PROVE FALSE
      <4>1. Cardinality(t) \in Sizes
        BY <3>1
      <4>2. Cardinality(s) <= Cardinality(t)
        BY <2>2, <2>3, <4>1
      <4>3. QED
        BY <2>6, <4>2
    <3>2. QED
      BY <3>1
  <2>8. h[t] \in V
    BY <2>5, <2>7
  <2>9. h[s] = f[AnyOf(s)] + h[t]
    BY <1>2, <2>3, <2>4
  <2>10. AnyOf(s) \in D
    BY <2>5
  <2>11. h[s] \in V
    BY <2>8, <2>9, <2>10
  <2>12. QED
    BY <2>3, <2>11
<1>6. QED
  BY <1>3, <1>5

LEMMA TotalIsNat ==
    ASSUME NEW f, IsFiniteSet(DOMAIN f), \A x \in DOMAIN f : f[x] \in Nat
    PROVE  Total(f) \in Nat
<1>1. \A x \in DOMAIN f, v \in Nat : f[x] + v \in Nat
  OBVIOUS
<1>2. QED
  BY <1>1, TotalIn

LEMMA TotalIsZero ==
    ASSUME NEW f, IsFiniteSet(DOMAIN f), \A x \in DOMAIN f : f[x] = 0
    PROVE  Total(f) = 0
<1> DEFINE V == {0}
<1>1. 0 \in V /\ \A x \in DOMAIN f, v \in V : f[x] + v \in V
  OBVIOUS
<1> HIDE DEF V
<1>2. Total(f) \in V
  BY <1>1, TotalIn
<1>3. QED
  BY <1>2 DEF V

-----------------------------------------------------------------------------
(* The types: the amounts are numbers, and every contribution with a row has   *)
(* a snapshot in some revision, from which a refresh carries it along.          *)

Typed ==
    /\ TypeOK
    /\ IsFiniteSet(DOMAIN revision)
    /\ \A v \in DOMAIN revision : revision[v].at <= Cardinality(DOMAIN revision)
    /\ \A p \in DOMAIN credit : \E v \in DOMAIN revision : p \in DOMAIN revision[v].snapshot

LEMMA CreditsAreFinite ==
    ASSUME TypeOK, NEW i
    PROVE  IsFiniteSet(ContributionsOf(i)) /\ ContributionsOf(i) \subseteq DOMAIN credit
<1>1. IsFiniteSet(Contribution)
  BY FiniteAssumption, FS_Product DEF Contribution
<1>2. ContributionsOf(i) \subseteq Contribution /\ ContributionsOf(i) \subseteq DOMAIN credit
  BY DEF TypeOK, ContributionsOf
<1>3. QED
  BY <1>1, <1>2, FS_Subset

LEMMA CurrentIsNat ==
    ASSUME TypeOK, Created, list # NoList, NEW p
    PROVE  Current(p) \in Nat
<1> DEFINE s == revision[list.current].snapshot
<1>1. \A q \in DOMAIN s : s[q] \in Snapshot
  BY DEF TypeOK, IsRevision, Created
<1>2. Current(p) = IF p \in DOMAIN s /\ s[p].active THEN s[p].quantity ELSE 0
  BY DEF Current, Active
<1> HIDE DEF s
<1>3. QED
  BY <1>1, <1>2 DEF Snapshot

LEMMA ContributedIsNat ==
    ASSUME TypeOK, NEW i, NEW cs, \A p \in ContributionsOf(i) : cs[p] \in Nat
    PROVE  Contributed(i, cs) \in Nat
<1> DEFINE f == [p \in ContributionsOf(i) |-> cs[p]]
<1>1. IsFiniteSet(DOMAIN f) /\ \A p \in DOMAIN f : f[p] \in Nat
  BY CreditsAreFinite
<1>2. Contributed(i, cs) = Total(f)
  BY DEF Contributed
<1> HIDE DEF f
<1>3. QED
  BY <1>1, <1>2, TotalIsNat

LEMMA TargetIsNat ==
    ASSUME TypeOK, Created, list # NoList, NEW i \in DOMAIN row
    PROVE  Automatic(i) \in Nat /\ Target(i) \in Nat
<1> DEFINE f == [p \in ContributionsOf(i) |-> Current(p)]
<1>1. IsFiniteSet(DOMAIN f) /\ \A p \in DOMAIN f : f[p] \in Nat
  BY CreditsAreFinite, CurrentIsNat
<1>2. Automatic(i) = AtLeastZero(Total(f) - row[i].supply)
  BY DEF Automatic
<1> HIDE DEF f
<1>3. Total(f) \in Nat
  BY <1>1, TotalIsNat
<1>4. row[i].supply \in Nat /\ row[i].target \in Nat \cup {None}
  BY DEF TypeOK, IngredientRow
<1>5. Automatic(i) \in Nat
  BY <1>2, <1>3, <1>4 DEF AtLeastZero
<1>6. QED
  BY <1>4, <1>5 DEF Target

(* What the requests of each kind carry. *)
LEMMA RequestValues ==
    ASSUME NEW req \in Requests
    PROVE  /\ req.kind \in {"create", "refresh"} => req.sources \subseteq Recipe
           /\ req.kind \in {"create", "rename"} => req.name \in Name
           /\ req.kind = "refresh" => req.parent \in Command
           /\ req.kind = "supply" => req.value \in Nat
           /\ req.kind = "target" => req.value \in Nat \cup {None}
           /\ req.kind = "section" => req.value \in Section \cup {None}
           /\ req.kind = "note" => req.value \in Name \cup {None}
           /\ req.kind = "item_lifecycle" => req.retire \in BOOLEAN
           /\ req.kind \in {"add_item", "update_item"} =>
                 req.target \in Nat /\ req.section \in Section
<1> DEFINE R(k, V) == [kind : {k}, time : WallTimes, row : Ingredient, value : V]
           T(k) == [kind : {k}, time : WallTimes, item : Item, target : Amounts,
                    section : Section]
<1>1. Amounts \subseteq Nat /\ FirstNames \subseteq Name /\ Sources \subseteq SUBSET Recipe
  BY AmountsAssumption, NameAssumption, SourcesAssumption
<1>2. CASE req \in CreateRequests \/ req \in RenameRequests \/ req \in RefreshRequests
  BY <1>1, <1>2 DEF CreateRequests, RenameRequests, RefreshRequests
<1>3. CASE req \in AddItemRequests \/ req \in UpdateItemRequests
  <2>1. req \in T("add_item") \/ req \in T("update_item")
    BY <1>3 DEF AddItemRequests, UpdateItemRequests
  <2>2. QED
    BY <1>1, <2>1
<1>4. CASE req \in CheckItemRequests \/ req \in ItemLifecycleRequests
  BY <1>4 DEF CheckItemRequests, ItemLifecycleRequests
<1>5. CASE req \in RowRequests
  <2>1. \/ req \in R("supply", Amounts) \/ req \in R("target", Amounts \cup {None})
        \/ req \in R("section", Section \cup {None}) \/ req \in R("note", Name \cup {None})
        \/ req \in [kind : {"check_row"}, time : WallTimes, row : Ingredient,
                    fulfilled : BOOLEAN]
        \/ req \in [kind : {"check"}, time : WallTimes, pair : Contribution,
                    fulfilled : BOOLEAN]
    BY <1>5, Zenon DEF RowRequests
  <2>2. CASE req \in R("supply", Amounts) \/ req \in R("target", Amounts \cup {None})
    BY <1>1, <2>2
  <2>3. CASE req \in R("section", Section \cup {None}) \/ req \in R("note", Name \cup {None})
    BY <2>3
  <2>4. CASE \/ req \in [kind : {"check_row"}, time : WallTimes, row : Ingredient,
                         fulfilled : BOOLEAN]
             \/ req \in [kind : {"check"}, time : WallTimes, pair : Contribution,
                         fulfilled : BOOLEAN]
    BY <2>4
  <2>5. QED
    BY <2>1, <2>2, <2>3, <2>4
<1>6. QED
  BY <1>2, <1>3, <1>4, <1>5, Zenon DEF Requests

LogTyped ==
    /\ retained \in [Command -> Outcome \cup {"none"}]
    /\ \A f \in DOMAIN clock : clock[f] \in Stamp

LEMMA LogTypes ==
    ASSUME TypeOK, Shaped, NEW c \in Command, NEW req \in Requests, Fresh(c)
    PROVE  /\ Reject(c) => LogTyped'
           /\ \A outcome \in {"accepted", "partially_superseded"} : \A fields, records :
                 Conclude(c, req, outcome, fields, records) => LogTyped'
<1>1. Reject(c) => LogTyped'
  BY RejectKeeps DEF LogTyped, TypeOK
<1>2. ASSUME NEW outcome \in {"accepted", "partially_superseded"}, NEW fields, NEW records,
             Conclude(c, req, outcome, fields, records)
      PROVE  LogTyped'
  <2>1. Logs(c, req, fields) /\ retained' \in [Command -> Outcome \cup {"none"}]
    BY <1>2, ConcludeLogs
  <2>2. StampOf(c, req) \in Stamp
    BY RequestTypes, StampTypes
  <2>3. \A f \in DOMAIN clock : clock[f] \in Stamp
    BY DEF TypeOK
  <2>4. ASSUME NEW f \in DOMAIN clock'
        PROVE  clock'[f] \in Stamp
    BY <2>1, <2>2, <2>3 DEF Logs
  <2>5. QED
    BY <2>1, <2>4 DEF LogTyped
<1>3. QED
  BY <1>1, <1>2

(* A step that generates nothing. *)
LEMMA TypedKept ==
    ASSUME Typed, LogTyped', UNCHANGED revision, menu' \in Menus,
           lifecycle' \in {"active", "archived"}, list' \in ListRow,
           DOMAIN row' \subseteq Ingredient, \A i \in DOMAIN row' : row'[i] \in IngredientRow,
           DOMAIN credit' = DOMAIN credit, \A p \in DOMAIN credit' : credit'[p] \in Nat,
           DOMAIN item' \subseteq Item, \A x \in DOMAIN item' : item'[x] \in ItemRow
    PROVE  Typed'
<1>1. TypeOK'
  BY DEF Typed, TypeOK, LogTyped
<1>2. QED
  BY <1>1 DEF Typed

(* So that a command need only show what it changes. *)
LEMMA TypesAre ==
    ASSUME Typed, UNCHANGED <<menu, lifecycle>>
    PROVE  /\ menu' \in Menus /\ lifecycle' \in {"active", "archived"}
           /\ list \in ListRow
           /\ DOMAIN row \subseteq Ingredient /\ \A i \in DOMAIN row : row[i] \in IngredientRow
           /\ DOMAIN credit \subseteq Contribution /\ \A p \in DOMAIN credit : credit[p] \in Nat
           /\ DOMAIN item \subseteq Item /\ \A x \in DOMAIN item : item[x] \in ItemRow
  BY DEF Typed, TypeOK

LEMMA RefusalTyped ==
    ASSUME IInv, Typed, NEW c \in Command, NEW req \in Requests, Fresh(c), Reject(c),
           UNCHANGED <<menu, lifecycle, listVars>>
    PROVE  Typed'
<1>1. LogTyped'
  BY LogTypes DEF IInv, Typed
<1>2. UNCHANGED <<list, revision, row, credit, item>>
  BY DEF listVars
<1>3. QED
  BY <1>1, <1>2, TypesAre, TypedKept

LEMMA RenameTyped ==
    ASSUME IInv, Typed, NEW c \in Command, NEW req \in Requests, Fresh(c), Rename(c, req),
           UNCHANGED <<menu, lifecycle>>
    PROVE  Typed'
<1>1. CASE Reject(c) /\ UNCHANGED list
  BY <1>1, RefusalTyped DEF Rename, listVars
<1>2. CASE ~(Reject(c) /\ UNCHANGED list)
  <2>1. /\ req.kind = "rename" /\ UNCHANGED <<revision, row, credit, item>>
        /\ list' = list \/ list' = [list EXCEPT !.name = req.name]
        /\ \E outcome \in {"accepted", "partially_superseded"} : \E fields, records :
              Conclude(c, req, outcome, fields, records)
    BY <1>2 DEF Rename
  <2>2. LogTyped'
    BY <2>1, LogTypes DEF IInv, Typed
  <2>3. list' \in ListRow
    BY <2>1, RequestValues, TypesAre DEF ListRow
  <2>4. QED
    BY <2>1, <2>2, <2>3, TypesAre, TypedKept
<1>3. QED
  BY <1>1, <1>2

LEMMA RowWithTypes ==
    ASSUME TypeOK, Created, list # NoList, NEW req \in Requests, req.kind \in DOMAIN RowField,
           req.row \in DOMAIN row
    PROVE  RowWith(req) \in IngredientRow
<1> DEFINE r == row[req.row]
<1>1. r \in IngredientRow /\ list.current \in Command \cup {None}
  BY DEF TypeOK, ListRow
<1>2. Automatic(req.row) \in Nat
  BY TargetIsNat
<1>3. DOMAIN RowField = {"supply", "target", "section", "note"}
  BY DEF RowField
<1> HIDE DEF r
<1>4. CASE req.kind = "supply"
  <2>1. RowWith(req) = [r EXCEPT !.supply = req.value] /\ req.value \in Nat
    BY <1>4, RequestValues DEF RowWith, r
  <2>2. QED
    BY <1>1, <2>1 DEF IngredientRow
<1>5. CASE req.kind = "section"
  <2>1. RowWith(req) = [r EXCEPT !.section = req.value] /\ req.value \in Section \cup {None}
    BY <1>5, RequestValues DEF RowWith, r
  <2>2. QED
    BY <1>1, <2>1 DEF IngredientRow
<1>6. CASE req.kind = "note"
  <2>1. RowWith(req) = [r EXCEPT !.note = req.value] /\ req.value \in Name \cup {None}
    BY <1>6, RequestValues DEF RowWith, r
  <2>2. QED
    BY <1>1, <2>1 DEF IngredientRow
<1>7. CASE req.kind = "target"
  <2>1. \E a \in Nat \cup {None}, b \in Command \cup {None} :
           RowWith(req) = [r EXCEPT !.target = req.value, !.automatic = a, !.basis = b]
    BY <1>1, <1>2, <1>7 DEF RowWith, r
  <2>2. req.value \in Nat \cup {None}
    BY <1>7, RequestValues
  <2>3. QED
    BY <1>1, <2>1, <2>2 DEF IngredientRow
<1>8. QED
  BY <1>3, <1>4, <1>5, <1>6, <1>7

LEMMA SetRowFieldTyped ==
    ASSUME IInv, Typed, NEW c \in Command, NEW req \in Requests, Fresh(c), SetRowField(c, req),
           UNCHANGED <<menu, lifecycle>>
    PROVE  Typed'
<1>1. CASE Reject(c) /\ UNCHANGED row
  BY <1>1, RefusalTyped DEF SetRowField, listVars
<1>2. CASE ~(Reject(c) /\ UNCHANGED row)
  <2>1. /\ req.kind \in DOMAIN RowField /\ UNCHANGED <<list, revision, credit, item>>
        /\ req.row \in DOMAIN row /\ list # NoList
        /\ row' = row \/ row' = [row EXCEPT ![req.row] = RowWith(req)]
        /\ \E outcome \in {"accepted", "partially_superseded"} : \E fields, records :
              Conclude(c, req, outcome, fields, records)
    BY <1>2 DEF SetRowField, RowFieldRefused, OperationRefused, Usable
  <2>2. LogTyped'
    BY <2>1, LogTypes DEF IInv, Typed
  <2>3. RowWith(req) \in IngredientRow
    BY <2>1, RowWithTypes DEF IInv, Typed
  <2>4. DOMAIN row' = DOMAIN row /\ \A i \in DOMAIN row' : row'[i] \in IngredientRow
    BY <2>1, <2>3, TypesAre
  <2>5. QED
    BY <2>1, <2>2, <2>4, TypesAre, TypedKept
<1>3. QED
  BY <1>1, <1>2

LEMMA CheckTyped ==
    ASSUME IInv, Typed, NEW c \in Command, NEW req \in Requests, Fresh(c), Check(c, req),
           UNCHANGED <<menu, lifecycle>>
    PROVE  Typed'
<1>1. CASE Reject(c) /\ UNCHANGED credit
  BY <1>1, RefusalTyped DEF Check, listVars
<1>2. CASE ~(Reject(c) /\ UNCHANGED credit)
  <2>1. /\ UNCHANGED <<list, revision, row, item>> /\ list # NoList
        /\ \/ credit' = credit
           \/ credit' = [credit EXCEPT ![req.pair] = IF req.fulfilled THEN Current(req.pair) ELSE 0]
        /\ \E outcome \in {"accepted", "partially_superseded"} : \E fields, records :
              Conclude(c, req, outcome, fields, records)
    BY <1>2 DEF Check, OperationRefused, Usable
  <2>2. LogTyped'
    BY <2>1, LogTypes DEF IInv, Typed
  <2>3. (IF req.fulfilled THEN Current(req.pair) ELSE 0) \in Nat
    BY <2>1, CurrentIsNat DEF IInv, Typed
  <2>4. DOMAIN credit' = DOMAIN credit /\ \A p \in DOMAIN credit' : credit'[p] \in Nat
    BY <2>1, <2>3, TypesAre
  <2>5. QED
    BY <2>1, <2>2, <2>4, TypesAre, TypedKept
<1>3. QED
  BY <1>1, <1>2

(* What checking or clearing a row does, apart from the log. *)
LEMMA RowChecked ==
    ASSUME IInv, Typed, NEW c \in Command, NEW req \in Requests, CheckRow(c, req),
           ~CheckRowRefused(c, req)
    PROVE  /\ req.row \in DOMAIN row /\ list # NoList
           /\ DOMAIN credit' = DOMAIN credit /\ \A p \in DOMAIN credit' : credit'[p] \in Nat
           /\ ~req.fulfilled => \A p \in ContributionsOf(req.row) : credit'[p] = 0
           /\ Target(req.row) \in Nat /\ Contributed(req.row, credit') \in Nat
           /\ ExtraFor(req, credit') \in Nat
<1> DEFINE i == req.row
<1>1. i \in DOMAIN row /\ list # NoList
  BY DEF CheckRowRefused, OperationRefused, Usable
<1>2. ASSUME NEW p
      PROVE  Current(p) \in Nat
  BY <1>1, CurrentIsNat DEF IInv, Typed
<1>3. credit' = [p \in DOMAIN credit |-> IF p \notin Touched(req) THEN credit[p]
                                         ELSE IF req.fulfilled THEN Current(p) ELSE 0]
  BY Zenon DEF CheckRow, CheckRowRefused, Reject
<1>4. DOMAIN credit' = DOMAIN credit /\ \A p \in DOMAIN credit' : credit'[p] \in Nat
  BY <1>2, <1>3 DEF Typed, TypeOK
<1>5. ~req.fulfilled => \A p \in ContributionsOf(req.row) : credit'[p] = 0
  BY <1>3 DEF Touched, ContributionsOf
<1>6. Target(i) \in Nat
  BY <1>1, TargetIsNat DEF IInv, Typed
<1>7. Contributed(i, credit') \in Nat
  <2>1. \A p \in ContributionsOf(i) : credit'[p] \in Nat
    BY <1>4 DEF ContributionsOf
  <2>2. QED
    BY <2>1, ContributedIsNat DEF Typed
<1>8. ExtraFor(req, credit') \in Nat
  BY <1>6, <1>7 DEF ExtraFor, AtLeastZero
<1>9. QED
  BY <1>1, <1>4, <1>5, <1>6, <1>7, <1>8

LEMMA CheckRowTyped ==
    ASSUME IInv, Typed, NEW c \in Command, NEW req \in Requests, Fresh(c), CheckRow(c, req),
           UNCHANGED <<menu, lifecycle>>
    PROVE  Typed'
<1>1. CASE CheckRowRefused(c, req)
  BY <1>1, RefusalTyped DEF CheckRow, listVars
<1>2. CASE ~CheckRowRefused(c, req)
  <2>1. /\ UNCHANGED <<list, revision, item>>
        /\ row' = [row EXCEPT ![req.row].extra = ExtraFor(req, credit')]
        /\ \E outcome \in {"accepted", "partially_superseded"} : \E fields, records :
              Conclude(c, req, outcome, fields, records)
    BY <1>2 DEF CheckRow
  <2>2. LogTyped'
    BY <2>1, LogTypes DEF IInv, Typed
  <2>3. /\ DOMAIN credit' = DOMAIN credit /\ \A p \in DOMAIN credit' : credit'[p] \in Nat
        /\ ExtraFor(req, credit') \in Nat
    BY <1>2, RowChecked
  <2> DEFINE e == ExtraFor(req, credit')
  <2>4. row' = [row EXCEPT ![req.row].extra = e] /\ e \in Nat
    BY <2>1, <2>3
  <2> HIDE DEF e
  <2>5. DOMAIN row' = DOMAIN row /\ \A i \in DOMAIN row' : row'[i] \in IngredientRow
    BY <2>4, TypesAre DEF IngredientRow
  <2>6. QED
    BY <2>1, <2>2, <2>3, <2>5, TypesAre, TypedKept
<1>3. QED
  BY <1>1, <1>2

LEMMA ItemTyped ==
    ASSUME IInv, Typed, NEW c \in Command, NEW req \in Requests, Fresh(c),
           UNCHANGED <<menu, lifecycle, list, revision, row, credit>>,
           \/ Reject(c) /\ UNCHANGED item
           \/ /\ \E outcome \in {"accepted", "partially_superseded"} : \E fields, records :
                    Conclude(c, req, outcome, fields, records)
              /\ DOMAIN item' \subseteq Item
              /\ \A x \in DOMAIN item' : item'[x] \in ItemRow
    PROVE  Typed'
<1>1. LogTyped'
  BY LogTypes DEF IInv, Typed
<1>2. DOMAIN item' \subseteq Item /\ \A x \in DOMAIN item' : item'[x] \in ItemRow
  BY TypesAre
<1>3. QED
  BY <1>1, <1>2, TypesAre, TypedKept

LEMMA AddItemTyped ==
    ASSUME IInv, Typed, NEW c \in Command, NEW req \in Requests, Fresh(c), AddItem(c, req),
           UNCHANGED <<menu, lifecycle>>
    PROVE  Typed'
<1> DEFINE new == [target |-> req.target, section |-> req.section, credit |-> 0,
                   retired |-> FALSE]
<1>1. /\ UNCHANGED <<list, revision, row, credit>> /\ req.kind = "add_item"
      /\ \/ Reject(c) /\ UNCHANGED item
         \/ /\ \E outcome \in {"accepted", "partially_superseded"} : \E fields, records :
                  Conclude(c, req, outcome, fields, records)
            /\ item' = Overlaid(item, Only(req.item, new))
  BY DEF AddItem
<1>2. req.item \in Item /\ new \in ItemRow
  BY <1>1, RequestTypes, RequestValues DEF ItemRow
<1> HIDE DEF new
<1>3. ASSUME item' = Overlaid(item, Only(req.item, new))
      PROVE  DOMAIN item' \subseteq Item /\ \A x \in DOMAIN item' : item'[x] \in ItemRow
  <2> DEFINE g == Only(req.item, new)
  <2>1. DOMAIN g = {req.item} /\ g[req.item] = new /\ item' = Overlaid(item, g)
    BY <1>3, OnlyIs
  <2> HIDE DEF g
  <2>2. /\ DOMAIN item' = DOMAIN item \cup {req.item}
        /\ item'[req.item] = new
        /\ \A x \in DOMAIN item : x # req.item => item'[x] = item[x]
    BY <2>1 DEF Overlaid
  <2>3. QED
    BY <1>2, <2>2, TypesAre
<1>4. QED
  BY <1>1, <1>3, ItemTyped

LEMMA CheckItemTyped ==
    ASSUME IInv, Typed, NEW c \in Command, NEW req \in Requests, Fresh(c), CheckItem(c, req),
           UNCHANGED <<menu, lifecycle>>
    PROVE  Typed'
<1> DEFINE x == req.item
           new == IF req.fulfilled THEN item[x].target ELSE 0
<1>1. /\ UNCHANGED <<list, revision, row, credit>>
      /\ \/ Reject(c) /\ UNCHANGED item
         \/ /\ \E outcome \in {"accepted", "partially_superseded"} : \E fields, records :
                  Conclude(c, req, outcome, fields, records)
            /\ x \in DOMAIN item
            /\ item' = item \/ item' = [item EXCEPT ![x].credit = new]
  BY DEF CheckItem, Listed
<1>2. x \in DOMAIN item => new \in Nat
  BY TypesAre DEF ItemRow
<1> HIDE DEF x, new
<1>3. ASSUME x \in DOMAIN item, item' = item \/ item' = [item EXCEPT ![x].credit = new]
      PROVE  DOMAIN item' \subseteq Item /\ \A y \in DOMAIN item' : item'[y] \in ItemRow
  BY <1>2, <1>3, TypesAre DEF ItemRow
<1>4. QED
  BY <1>1, <1>3, ItemTyped

LEMMA SetItemLifecycleTyped ==
    ASSUME IInv, Typed, NEW c \in Command, NEW req \in Requests, Fresh(c),
           SetItemLifecycle(c, req), UNCHANGED <<menu, lifecycle>>
    PROVE  Typed'
<1> DEFINE x == req.item
<1>1. /\ UNCHANGED <<list, revision, row, credit>> /\ req.kind = "item_lifecycle"
      /\ \/ Reject(c) /\ UNCHANGED item
         \/ /\ \E outcome \in {"accepted", "partially_superseded"} : \E fields, records :
                  Conclude(c, req, outcome, fields, records)
            /\ x \in DOMAIN item
            /\ item' = item \/ item' = [item EXCEPT ![x].retired = req.retire]
  BY DEF SetItemLifecycle
<1>2. req.retire \in BOOLEAN
  BY <1>1, RequestValues
<1> HIDE DEF x
<1>3. ASSUME x \in DOMAIN item, item' = item \/ item' = [item EXCEPT ![x].retired = req.retire]
      PROVE  DOMAIN item' \subseteq Item /\ \A y \in DOMAIN item' : item'[y] \in ItemRow
  BY <1>2, <1>3, TypesAre DEF ItemRow
<1>4. QED
  BY <1>1, <1>3, ItemTyped

LEMMA UpdateItemTyped ==
    ASSUME IInv, Typed, NEW c \in Command, NEW req \in Requests, Fresh(c), UpdateItem(c, req),
           UNCHANGED <<menu, lifecycle>>
    PROVE  Typed'
<1> DEFINE x == req.item
           new == [item[x] EXCEPT
                     !.target = IF "target_amount" \in WonFields(c, req) THEN req.target ELSE @,
                     !.section = IF "store_section_id" \in WonFields(c, req)
                                 THEN req.section ELSE @]
<1>1. /\ UNCHANGED <<list, revision, row, credit>> /\ req.kind = "update_item"
      /\ \/ Reject(c) /\ UNCHANGED item
         \/ /\ \E outcome \in {"accepted", "partially_superseded"} : \E fields, records :
                  Conclude(c, req, outcome, fields, records)
            /\ x \in DOMAIN item
            /\ item' = [item EXCEPT ![x] = new]
  BY DEF UpdateItem, UpdateItemRefused, Listed
<1>2. req.target \in Nat /\ req.section \in Section
  BY <1>1, RequestValues
<1>3. x \in DOMAIN item => new \in ItemRow
  BY <1>2, TypesAre DEF ItemRow
<1> HIDE DEF x, new
<1>4. ASSUME x \in DOMAIN item, item' = [item EXCEPT ![x] = new]
      PROVE  DOMAIN item' \subseteq Item /\ \A y \in DOMAIN item' : item'[y] \in ItemRow
  BY <1>3, <1>4, TypesAre
<1>5. QED
  BY <1>1, <1>4, ItemTyped

(* What is generated is a number of contributions, each of some amount. *)
LEMMA GeneratedTypes ==
    ASSUME TypeOK, NEW sources \in SUBSET Recipe
    PROVE  /\ Generated(sources) \subseteq Contribution
           /\ \A p \in Generated(sources) :
                 [active |-> TRUE, quantity |-> Need(p)] \in Snapshot
<1>1. ASSUME NEW p \in Contribution
      PROVE  Need(p) \in Nat
  <2>1. p[1] \in Recipe /\ p[2] \in Ingredient
    BY DEF Contribution
  <2>2. menu[p[1]] \in Plan
    BY <2>1, MenusAssumption DEF TypeOK
  <2>3. menu[p[1]].scale \in Nat /\ menu[p[1]].override[p[2]] \in Nat \cup {-1}
    BY <2>1, <2>2 DEF Plan
  <2>4. Base[p[1]][p[2]] \in Nat
    BY <2>1, BaseAssumption
  <2>5. Base[p[1]][p[2]] * menu[p[1]].scale \in Nat
    BY <2>3, <2>4
  <2> DEFINE o == menu[p[1]].override[p[2]]
             n == Base[p[1]][p[2]] * menu[p[1]].scale
  <2>6. Need(p) = IF o >= 0 THEN o ELSE n
    BY DEF Need
  <2>7. o \in Nat \cup {-1} /\ n \in Nat
    BY <2>3, <2>5
  <2> HIDE DEF o, n
  <2>8. QED
    BY <2>6, <2>7
<1>2. Generated(sources) \subseteq Contribution
  BY DEF Generated, Contribution
<1>3. QED
  BY <1>1, <1>2 DEF Snapshot

(* What a creation and a refresh do to the rows and the contributions. *)
LEMMA GenerationTypes ==
    ASSUME Typed, NEW ps \in SUBSET Contribution, row' = RowsFor(ps), credit' = CreditsFor(ps)
    PROVE  /\ DOMAIN row' \subseteq Ingredient /\ \A i \in DOMAIN row' : row'[i] \in IngredientRow
           /\ DOMAIN credit' = ps \cup DOMAIN credit
           /\ DOMAIN credit' \subseteq Contribution
           /\ \A p \in DOMAIN credit' : credit'[p] \in Nat
<1>1. NewRow \in IngredientRow
  BY DEF NewRow, IngredientRow
<1>2. /\ DOMAIN row \subseteq Ingredient /\ \A i \in DOMAIN row : row[i] \in IngredientRow
      /\ DOMAIN credit \subseteq Contribution /\ \A p \in DOMAIN credit : credit[p] \in Nat
  BY DEF Typed, TypeOK
<1>3. {p[2] : p \in ps} \subseteq Ingredient
  BY DEF Contribution
<1>4. DOMAIN row' \subseteq Ingredient /\ \A i \in DOMAIN row' : row'[i] \in IngredientRow
  BY <1>1, <1>2, <1>3, RowsForIs
<1>5. /\ DOMAIN credit' = ps \cup DOMAIN credit
      /\ \A p \in DOMAIN credit' : credit'[p] = IF p \in DOMAIN credit THEN credit[p] ELSE 0
  BY CreditsForIs
<1>6. QED
  BY <1>2, <1>4, <1>5

LEMMA CreateTyped ==
    ASSUME IInv, Typed, NEW c \in Command, NEW req \in Requests, Fresh(c), Create(c, req),
           UNCHANGED <<menu, lifecycle>>
    PROVE  Typed'
<1> DEFINE ps == Generated(req.sources)
           snapshot == [p \in ps |-> [active |-> TRUE, quantity |-> Need(p)]]
           first == [parent |-> None, sources |-> req.sources, at |-> 0, snapshot |-> snapshot]
<1>1. CASE Reject(c) /\ UNCHANGED listVars
  BY <1>1, RefusalTyped
<1>2. CASE ~(Reject(c) /\ UNCHANGED listVars)
  <2>1. /\ req.kind = "create" /\ list = NoList /\ item' = item
        /\ list' = [name |-> req.name, current |-> c]
        /\ revision' = Only(c, first) /\ row' = RowsFor(ps) /\ credit' = CreditsFor(ps)
        /\ \E outcome \in {"accepted", "partially_superseded"} : \E fields, records :
              Conclude(c, req, outcome, fields, records)
    BY <1>2 DEF Create, CreateRefused
  <2>2. LogTyped'
    BY <2>1, LogTypes DEF IInv, Typed
  <2>3. req.sources \in SUBSET Recipe /\ list' \in ListRow
    BY <2>1, RequestValues DEF ListRow
  <2>4. ps \subseteq Contribution /\ \A p \in ps : snapshot[p] \in Snapshot
    BY <2>3, GeneratedTypes DEF Typed
  <2>5. /\ first.parent = None /\ first.sources = req.sources /\ first.at = 0
        /\ DOMAIN first.snapshot = ps /\ \A p \in ps : first.snapshot[p] \in Snapshot
    BY <2>4
  <2>6. IsRevision(first)
    BY <2>3, <2>4, <2>5 DEF IsRevision
  <2> HIDE DEF ps, first
  <2>7. DOMAIN revision' = {c} /\ revision'[c] = first
    BY <2>1, OnlyIs
  <2>8. /\ DOMAIN row' \subseteq Ingredient /\ \A i \in DOMAIN row' : row'[i] \in IngredientRow
        /\ DOMAIN credit' = ps \cup DOMAIN credit /\ DOMAIN credit' \subseteq Contribution
        /\ \A p \in DOMAIN credit' : credit'[p] \in Nat
    BY <2>1, <2>4, GenerationTypes
  <2>9. TypeOK'
    BY <2>1, <2>2, <2>3, <2>6, <2>7, <2>8, TypesAre DEF TypeOK, LogTyped
  <2>10. DOMAIN credit = {}
    BY <2>1 DEF IInv, Created
  <2>11. IsFiniteSet(DOMAIN revision') /\ Cardinality(DOMAIN revision') \in Nat
    BY <2>7, FS_Singleton, FS_CardinalityType
  <2>12. QED
    BY <2>5, <2>7, <2>8, <2>9, <2>10, <2>11 DEF Typed
<1>3. QED
  BY <1>1, <1>2

(* A contribution of the list has a last snapshot: the revisions are numbered. *)
LEMMA LastSnapshotTypes ==
    ASSUME Typed, NEW p \in DOMAIN credit, NEW parent \in DOMAIN revision
    PROVE  LastSnapshot(p, parent) \in Snapshot
<1> DEFINE with == {v \in DOMAIN revision : p \in DOMAIN revision[v].snapshot}
           Last(v) == \A w \in with : revision[w].at <= revision[v].at
           last == CHOOSE v \in with : Last(v)
           n == Cardinality(DOMAIN revision)
           ats == {revision[v].at : v \in with}
<1>1. n \in Nat
  BY FS_CardinalityType DEF Typed
<1>2. \A v \in DOMAIN revision : IsRevision(revision[v]) /\ revision[v].at <= n
  BY DEF Typed, TypeOK
<1>3. with # {}
  BY DEF Typed
<1>4. ats \in SUBSET (0..n) /\ ats # {}
  BY <1>1, <1>2, <1>3 DEF IsRevision
<1>5. \E v \in with : Last(v)
  <2> HIDE DEF ats
  <2>1. PICK m \in ats : \A k \in ats : k <= m
    BY <1>1, <1>4, LargestExists
  <2> USE DEF ats
  <2>2. PICK v \in with : revision[v].at = m
    BY <2>1
  <2>3. QED
    BY <2>1, <2>2
<1>6. last \in with
  <2> HIDE DEF Last
  <2>1. QED
    BY <1>5
<1>7. LastSnapshot(p, parent) = revision[IF parent \in with THEN parent ELSE last].snapshot[p]
  BY DEF LastSnapshot
<1> HIDE DEF last
<1>8. QED
  BY <1>2, <1>6, <1>7 DEF IsRevision

LEMMA RefreshTyped ==
    ASSUME IInv, Typed, NEW c \in Command, NEW req \in Requests, Fresh(c), Refresh(c, req),
           UNCHANGED <<menu, lifecycle>>
    PROVE  Typed'
<1> DEFINE ps == Generated(req.sources)
           next == [parent |-> req.parent, sources |-> req.sources,
                    at |-> Cardinality(DOMAIN revision), snapshot |-> Refreshed(req)]
<1>1. CASE Reject(c) /\ UNCHANGED listVars
  BY <1>1, RefusalTyped
<1>2. CASE ~(Reject(c) /\ UNCHANGED listVars)
  <2>1. /\ req.kind = "refresh" /\ req.parent \in DOMAIN revision /\ item' = item
        /\ list' = list \/ list' = [list EXCEPT !.current = c]
        /\ revision' = Overlaid(revision, Only(c, next))
        /\ row' = RowsFor(ps) /\ credit' = CreditsFor(ps)
        /\ \E outcome \in {"accepted", "partially_superseded"} : \E fields, records :
              Conclude(c, req, outcome, fields, records)
    BY <1>2 DEF Refresh, RefreshRefused
  <2>2. LogTyped'
    BY <2>1, LogTypes DEF IInv, Typed
  <2>3. req.sources \in SUBSET Recipe /\ list' \in ListRow
    BY <2>1, RequestValues, TypesAre DEF ListRow
  <2>4. /\ ps \subseteq Contribution
        /\ \A p \in ps : [active |-> TRUE, quantity |-> Need(p)] \in Snapshot
    BY <2>3, GeneratedTypes DEF Typed
  <2>5. DOMAIN Refreshed(req) = ps \cup DOMAIN credit
    BY DEF Refreshed
  <2>6. ASSUME NEW p \in ps \cup DOMAIN credit
        PROVE  Refreshed(req)[p] \in Snapshot
    <3> DEFINE s == LastSnapshot(p, req.parent)
    <3>1. Refreshed(req)[p] = IF p \in ps THEN [active |-> TRUE, quantity |-> Need(p)]
                              ELSE [s EXCEPT !.active = FALSE]
      BY DEF Refreshed
    <3>2. p \notin ps => s \in Snapshot
      BY <2>1, LastSnapshotTypes
    <3> HIDE DEF s, ps
    <3>3. p \notin ps => [s EXCEPT !.active = FALSE] \in Snapshot
      BY <3>2 DEF Snapshot
    <3>4. QED
      BY <2>4, <3>1, <3>3
  <2>7. /\ next.parent = req.parent /\ next.sources = req.sources
        /\ next.at = Cardinality(DOMAIN revision) /\ next.snapshot = Refreshed(req)
    OBVIOUS
  <2> HIDE DEF ps, next
  <2>8. /\ IsFiniteSet(DOMAIN revision) /\ Cardinality(DOMAIN revision) \in Nat
        /\ DOMAIN revision \subseteq Command
        /\ \A v \in DOMAIN revision : /\ IsRevision(revision[v])
                                      /\ revision[v].at <= Cardinality(DOMAIN revision)
    BY FS_CardinalityType DEF Typed, TypeOK
  <2>9. /\ DOMAIN row' \subseteq Ingredient /\ \A i \in DOMAIN row' : row'[i] \in IngredientRow
        /\ DOMAIN credit' = ps \cup DOMAIN credit /\ DOMAIN credit' \subseteq Contribution
        /\ \A p \in DOMAIN credit' : credit'[p] \in Nat
    BY <2>1, <2>4, GenerationTypes
  <2>10. IsRevision(next)
    BY <2>1, <2>3, <2>5, <2>6, <2>7, <2>8, <2>9 DEF IsRevision
  <2>11. c \notin DOMAIN revision
    BY DEF IInv, Shaped, Fresh, Applied
  <2>12. /\ DOMAIN revision' = DOMAIN revision \cup {c}
         /\ revision'[c] = next
         /\ \A v \in DOMAIN revision : revision'[v] = revision[v]
    <3> DEFINE g == Only(c, next)
    <3>1. DOMAIN g = {c} /\ g[c] = next /\ revision' = Overlaid(revision, g)
      BY <2>1, OnlyIs
    <3> HIDE DEF g
    <3>2. QED
      BY <2>11, <3>1 DEF Overlaid
  <2>13. /\ IsFiniteSet(DOMAIN revision')
         /\ Cardinality(DOMAIN revision') = Cardinality(DOMAIN revision) + 1
    BY <2>8, <2>11, <2>12, FS_AddElement
  <2>14. \A v \in DOMAIN revision' : IsRevision(revision'[v])
    BY <2>8, <2>10, <2>12
  <2>15. TypeOK'
    BY <2>1, <2>2, <2>3, <2>8, <2>9, <2>12, <2>14, TypesAre DEF TypeOK, LogTyped
  <2>16. ASSUME NEW v \in DOMAIN revision'
         PROVE  revision'[v].at <= Cardinality(DOMAIN revision')
    <3>1. revision'[v].at <= Cardinality(DOMAIN revision) /\ revision'[v].at \in Nat
      BY <2>7, <2>8, <2>12, <2>14 DEF IsRevision
    <3>2. QED
      BY <2>8, <2>13, <3>1
  <2>17. \A p \in DOMAIN credit' : p \in DOMAIN revision'[c].snapshot
    BY <2>5, <2>7, <2>9, <2>12
  <2>18. QED
    BY <2>12, <2>13, <2>15, <2>16, <2>17 DEF Typed
<1>3. QED
  BY <1>1, <1>2

LEMMA TypedStep ==
    ASSUME IInv, Typed, [Next]_vars
    PROVE  Typed'
<1>1. ASSUME NEW c \in Command, NEW req \in Requests, Fresh(c), Perform(c, req),
             UNCHANGED <<menu, lifecycle>>
      PROVE  Typed'
  BY <1>1, CreateTyped, RenameTyped, RefreshTyped, SetRowFieldTyped, CheckTyped, CheckRowTyped,
     AddItemTyped, CheckItemTyped, SetItemLifecycleTyped, UpdateItemTyped DEF Perform
<1>2. ASSUME NEW c \in Command, Malformed(c), UNCHANGED <<menu, lifecycle, listVars>>
      PROVE  Typed'
  <2>1. LogTyped'
    BY <1>2, RejectKeeps DEF Malformed, IInv, LogTyped, Typed, TypeOK
  <2>2. UNCHANGED <<list, revision, row, credit, item>>
    BY <1>2 DEF listVars
  <2>3. QED
    BY <1>2, <2>1, <2>2, TypesAre, TypedKept
<1>3. ASSUME UNCHANGED <<logVars, listVars>>, menu' \in Menus,
             lifecycle' \in {"active", "archived"}
      PROVE  Typed'
  BY <1>3 DEF Typed, TypeOK, logVars, listVars
<1>4. menu \in Menus /\ lifecycle \in {"active", "archived"}
  BY DEF Typed, TypeOK
<1>5. QED
  BY <1>1, <1>2, <1>3, <1>4 DEF Next, Retry, Replan, Archive, vars

LEMMA InitialTypes == Init => Typed
<1> SUFFICES ASSUME Init PROVE Typed
  OBVIOUS
<1>1. /\ retained \in [Command -> Outcome \cup {"none"}] /\ list = NoList
      /\ menu \in Menus /\ lifecycle = "active"
      /\ DOMAIN clock = {} /\ DOMAIN revision = {} /\ DOMAIN row = {} /\ DOMAIN credit = {}
      /\ DOMAIN item = {}
  BY DEF Init, LogInit
<1>2. TypeOK
  BY <1>1 DEF TypeOK, NoList, ListRow
<1>3. QED
  BY <1>1, <1>2, FS_EmptySet DEF Typed

LEMMA AlwaysTyped == Spec => [](IInv /\ Typed)
<1>1. IInv /\ Typed /\ [Next]_vars => IInv' /\ Typed'
  BY InductiveStep, TypedStep
<1>2. QED
  BY <1>1, InitialState, InitialTypes, PTL DEF Spec

(* Types: every amount is a natural number, however many contributions a row     *)
(* adds up, and every snapshot that a refresh carries along is one.            *)
THEOREM ListTypes == Spec => []TypeOK
<1>1. Typed => TypeOK
  BY DEF Typed
<1>2. QED
  BY <1>1, AlwaysTyped, PTL

-----------------------------------------------------------------------------
(* What a checkbox of a row leaves to buy. *)

(* A command that a step accepts is the one the step performs. *)
LEMMA AcceptedIsPerformed ==
    ASSUME IInv, NEW c \in Command, NEW req \in Requests, Fresh(c), Perform(c, req),
           NEW d \in Command, retained[d] = "none", retained'[d] = "accepted"
    PROVE  d = c /\ request'[d] = req /\ ~Reject(c)
<1>1. \/ Reject(c)
      \/ \E outcome, fields, records : Conclude(c, req, outcome, fields, records)
  BY DEF Perform, Create, Rename, Refresh, SetRowField, Check, CheckRow, AddItem, CheckItem,
     SetItemLifecycle, UpdateItem
<1>2. retained \in [Command -> Outcome \cup {"none"}] /\ DOMAIN request = Command
  BY DEF IInv, Shaped
<1>3. CASE Reject(c)
  <2>1. retained' = [retained EXCEPT ![c] = "rejected"]
    BY <1>3 DEF Reject
  <2>2. QED
    BY <1>2, <2>1
<1>4. ASSUME NEW outcome, NEW fields, NEW records, Conclude(c, req, outcome, fields, records)
      PROVE  d = c /\ request'[d] = req
  <2>1. /\ retained' = [retained EXCEPT ![c] = outcome]
        /\ request' = [request EXCEPT ![c] = req]
    BY <1>4 DEF Conclude
  <2>2. QED
    BY <1>2, <2>1
<1>5. QED
  BY <1>1, <1>3, <1>4

LEMMA RowSettles ==
    ASSUME IInv, Typed, NEW c \in Command, NEW req \in Requests, CheckRow(c, req),
           ~CheckRowRefused(c, req)
    PROVE  IF req.fulfilled THEN Remaining(req.row)' = 0 ELSE Credit(req.row)' = 0
<1> DEFINE i == req.row
           T == Target(i)
           K == Contributed(i, credit')
           E == ExtraFor(req, credit')
<1>1. /\ i \in DOMAIN row /\ DOMAIN credit' = DOMAIN credit
      /\ ~req.fulfilled => \A p \in ContributionsOf(i) : credit'[p] = 0
      /\ T \in Nat /\ K \in Nat /\ E \in Nat
  BY RowChecked
<1>2. /\ UNCHANGED <<list, revision>>
      /\ row' = [row EXCEPT ![i].extra = E]
  BY DEF CheckRow, CheckRowRefused, Reject
<1>3. row[i] \in IngredientRow
  BY <1>1 DEF Typed, TypeOK
<1>4. row'[i].extra = E /\ row'[i].target = row[i].target /\ row'[i].supply = row[i].supply
  <2> HIDE DEF E
  <2>1. QED
    BY <1>1, <1>2, <1>3 DEF IngredientRow
<1>5. ContributionsOf(i)' = ContributionsOf(i)
  BY <1>1 DEF ContributionsOf
<1>6. \A p : Current(p)' = Current(p)
  BY <1>2 DEF Current, Active
<1>7. Automatic(i)' = Automatic(i)
  <2> DEFINE f == [p \in ContributionsOf(i) |-> Current(p)]
  <2>1. f' = f
    BY <1>5, <1>6
  <2>2. /\ Automatic(i) = AtLeastZero(Total(f) - row[i].supply)
        /\ Automatic(i)' = AtLeastZero(Total(f') - row'[i].supply)
    BY DEF Automatic, AtLeastZero, Total, MapThenSumSet, MapThenFoldSet
  <2>3. QED
    BY <1>4, <2>1, <2>2
<1>8. Target(i)' = T
  BY <1>4, <1>7 DEF Target
<1>9. Credit(i)' = E + K
  <2>1. Credit(i)' = row'[i].extra + Contributed(i, credit)'
    BY DEF Credit
  <2>2. Contributed(i, credit)' = K
    BY <1>5 DEF Contributed, Total, MapThenSumSet, MapThenFoldSet
  <2>3. QED
    BY <1>4, <2>1, <2>2
<1>10. CASE req.fulfilled
  <2>1. E = AtLeastZero(T - K)
    BY <1>10 DEF ExtraFor
  <2>2. Remaining(i)' = AtLeastZero(T - (E + K))
    BY <1>8, <1>9 DEF Remaining, AtLeastZero
  <2> HIDE DEF T, K, E
  <2>3. QED
    BY <1>1, <1>10, <2>1, <2>2 DEF AtLeastZero
<1>11. CASE ~req.fulfilled
  <2>1. E = 0
    BY <1>11 DEF ExtraFor
  <2>2. K = 0
    <3> DEFINE f == [p \in ContributionsOf(i) |-> credit'[p]]
    <3>1. IsFiniteSet(DOMAIN f) /\ \A p \in DOMAIN f : f[p] = 0
      BY <1>1, <1>11, CreditsAreFinite DEF Typed
    <3>2. K = Total(f)
      BY DEF Contributed
    <3> HIDE DEF f
    <3>3. QED
      BY <3>1, <3>2, TotalIsZero
  <2>3. QED
    BY <1>9, <1>11, <2>1, <2>2
<1>12. QED
  BY <1>10, <1>11

(* Whoever checks a row has nothing left of it to buy: whatever its contributions, *)
(* supply and manual target, the credit that is written meets the target; and     *)
(* whoever clears it leaves no credit, of retired contributions neither.          *)
THEOREM CheckedRowsSettle == Spec => CheckedRowIsSettled
<1> DEFINE Settled ==
             \A c \in Command, i \in DOMAIN row :
                /\ retained[c] = "none" /\ retained'[c] = "accepted"
                /\ request'[c].kind = "check_row" /\ request'[c].row = i
                => IF request'[c].fulfilled THEN Remaining(i)' = 0 ELSE Credit(i)' = 0
<1>1. ASSUME IInv, Typed, Next
      PROVE  Settled
  <2> SUFFICES ASSUME NEW d \in Command, NEW i \in DOMAIN row,
                      retained[d] = "none", retained'[d] = "accepted",
                      request'[d].kind = "check_row", request'[d].row = i
               PROVE  IF request'[d].fulfilled THEN Remaining(i)' = 0 ELSE Credit(i)' = 0
    OBVIOUS
  <2>1. retained' # retained /\ retained \in [Command -> Outcome \cup {"none"}]
    BY <1>1 DEF IInv, Shaped
  <2>2. ~\E c \in Command : Malformed(c)
    BY <2>1 DEF Malformed, Reject
  <2>3. PICK c \in Command, req \in Requests : Fresh(c) /\ Perform(c, req)
    BY <1>1, <2>1, <2>2 DEF Next, Retry, Replan, Archive, logVars
  <2>4. request'[d] = req /\ ~Reject(c)
    BY <1>1, <2>3, AcceptedIsPerformed
  <2>5. CheckRow(c, req)
    BY <2>3, <2>4 DEF Perform, Create, Rename, Refresh, SetRowField, Check, AddItem, CheckItem,
       SetItemLifecycle, UpdateItem, RowField
  <2>6. ~CheckRowRefused(c, req)
    BY <2>4, <2>5 DEF CheckRow
  <2>7. QED
    BY <1>1, <2>4, <2>5, <2>6, RowSettles
<1>2. IInv /\ Typed /\ [Next]_vars => [Settled]_vars
  BY <1>1
<1>3. QED
  BY <1>2, AlwaysTyped, PTL DEF Spec, CheckedRowIsSettled
=============================================================================
