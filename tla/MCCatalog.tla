----------------------------- MODULE MCCatalog -----------------------------
(* TLC instances of Catalog: oil and salt by the gram, and a recipe of both;   *)
(* another organization with one ingredient of two versions and one recipe.   *)
EXTENDS Catalog

CONSTANTS g, kg, piece, dozen, crate, vegan, nuts, oil, salt, soup, stew, l1, l2

MCUnit == {g, kg, piece, dozen}
MCDimension == (g :> "mass") @@ (kg :> "mass") @@ (piece :> "count") @@ (dozen :> "count") @@
                  (crate :> "count")
MCFactor == (g :> 1) @@ (kg :> 2) @@ (piece :> 0) @@ (dozen :> 0) @@ (crate :> 0)
MCSeedKey == (vegan :> "vegan") @@ (nuts :> None)
MCConfigured == {DT(vegan), DT(nuts)}
V(n) == <<0, n>>
MCVersion == {V(1), V(2)}
MCTagged == {{}, {vegan}}
Amount(v, quantity, display) == [version |-> v, quantity |-> quantity, display |-> display]
Lines(versions, quantities, displays) ==
    {(l1 :> Amount(v, q, None)) @@ (l2 :> Amount(V(4), 1, d)) :
        v \in versions, q \in quantities, d \in displays}
MCExpected == {oil :> V(1), oil :> V(3)}

Active(name) == [name |-> name, detail |-> "x", retired |-> FALSE]
Units == [k \in {U(u) : u \in MCUnit} |-> Active("a")]
Tags == (DT(vegan) :> Active("a")) @@ (DT(nuts) :> Active("b"))
Made(i, base, name, unit, tags) ==
    [of |-> i, base |-> base, name |-> name, unit |-> unit, tags |-> tags]
Root(v) == [current |-> v, price |-> None, retired |-> FALSE]
Oil == (I(oil) :> Root(V(0))) @@ (IV(V(0)) :> Made(oil, None, "a", g, {vegan}))
NewerOil == (I(oil) :> Root(V(3))) @@ (IV(V(0)) :> Made(oil, None, "a", g, {}))
              @@ (IV(V(3)) :> Made(oil, V(0), "a", kg, {vegan}))
Eggs == (I(oil) :> Root(V(0))) @@ (IV(V(0)) :> Made(oil, None, "a", piece, {}))
Salt == (I(salt) :> Root(V(4))) @@ (IV(V(4)) :> Made(salt, None, "b", g, {vegan}))
Soup == (RE(soup) :> [current |-> V(0), retired |-> FALSE])
          @@ (RV(V(0)) :> [of |-> soup, base |-> None, scale |-> g,
                           lines |-> (l1 :> Amount(V(0), 2, g)) @@ (l2 :> Amount(V(4), 1, None))])
On(steps, commands, sold, lines, rows) ==
    [scene |-> [kinds |-> steps, commands |-> commands, sold |-> sold, lines |-> lines],
     row |-> rows]

MCScenarios ==
    {On({"configure", "reconfigure", "config_lifecycle"}, 1 .. 3, {}, {},
        DT(vegan) :> Active("a")),
     On({"create_ingredient", "publish_price", "ingredient_lifecycle"}, 1 .. 2, {g, kg}, {},
        Units @@ Tags @@ Oil),
     On({"publish_ingredient", "config_lifecycle"}, 1 .. 3, {g}, {},
        Units @@ Tags @@ NewerOil),
     On({"publish_price", "ingredient_lifecycle"}, 1 .. 3, {g, kg}, {},
        Units @@ Tags @@ NewerOil),
     On({"publish_ingredient", "publish_price"}, 1 .. 2, {g, kg}, {}, Units @@ Tags @@ Oil),
     On({"publish_ingredient"}, 1 .. 2, {piece, dozen}, {}, Units @@ Tags @@ Eggs),
     On({"create_recipe", "publish_recipe", "recipe_lifecycle"}, 1 .. 3, {g},
        Lines({V(0)}, {1}, {None, g, kg}) \cup Lines({V(4)}, {1}, {None}),
        Units @@ Tags @@ Oil @@ Salt @@ Soup),
     On({"update_recipe", "publish_ingredient", "ingredient_lifecycle"}, 1 .. 2, {g, kg},
        Lines({V(0), V(1), V(3)}, {1, 2, 4}, {None, g}),
        Units @@ Tags @@ NewerOil @@ Salt @@ Soup),
     On({"copy_ingredient", "config_lifecycle"}, 1 .. 3, {}, {}, Units @@ Tags),
     On({"copy_ingredient", "publish_price"}, 1 .. 2, {g, piece}, {}, Units @@ Tags @@ Eggs),
     On({"copy_recipe", "publish_ingredient", "ingredient_lifecycle"}, 1 .. 2, {g, kg}, {},
        Units @@ Tags @@ Oil @@ Salt)}
Republished == {On({"publish_ingredient"}, 1 .. 3, {g, kg}, {}, Units @@ Tags @@ Oil)}

(* The other organization sells by the crate, then publishes a newer version.  *)
Crated(base, tags) == [base |-> base, name |-> "b", unit |-> crate, tags |-> tags]
Theirs(versions, current, version) ==
    [ingredient |-> [retired |-> FALSE, current |-> current, versions |-> versions],
     tags |-> (1 :> [name |-> "vegan", detail |-> "x", seed |-> "vegan"])
                @@ (2 :> [name |-> "c", detail |-> "x", seed |-> None])
                @@ (3 :> [name |-> "d", detail |-> "x", seed |-> None]),
     recipe |-> [retired |-> FALSE, current |-> version, scale |-> crate,
                 lines |-> l1 :> Amount(1, 2, None)]]
MCOthers ==
    <<Theirs((1 :> Crated(None, {1})) @@ (2 :> Crated(1, {1, 2})), 2, 1),
      Theirs((1 :> Crated(None, {1})) @@ (2 :> Crated(1, {1, 2})) @@ (3 :> Crated(1, {2, 3})),
             3, 2)>>
MCMappings ==
    [units |-> {crate :> piece, crate :> g},
     tags |-> {2 :> None, (2 :> None) @@ (3 :> nuts), (2 :> nuts) @@ (3 :> nuts)},
     versions |-> {1 :> V(0), 1 :> V(1), 1 :> V(4)}]
=============================================================================
