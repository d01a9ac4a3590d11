------------------------------ MODULE MCMenu ------------------------------
(* TLC instances of Menu: a soup of oil and salt, which becomes a soup of      *)
(* newer oil, and of salt alone by the kilogram; pepper can be added.         *)
EXTENDS Menu

CONSTANTS l1, l2, oil, salt, pepper, noon, evening

Use(i, n, amount, fixed) == [ingredient |-> <<i, n>>, amount |-> amount, fixed |-> fixed]
Made(unit, capacity, round, lines) ==
    [recipe |-> "soup", unit |-> unit, base |-> 100, capacity |-> capacity, round |-> round,
     lines |-> lines]
MCVersions ==
    (1 :> Made("person", None, FALSE, (l1 :> Use(oil, 1, 1, FALSE)) @@ (l2 :> Use(salt, 1, 1, TRUE))))
      @@ (2 :> Made("person", None, FALSE,
                    (l1 :> Use(oil, 2, 1, FALSE)) @@ (l2 :> Use(salt, 1, 0, TRUE))))
      @@ (3 :> Made("kg", 2, TRUE, (l2 :> Use(salt, 1, 1, FALSE))))
      @@ (4 :> [Made("kg", None, FALSE, l1 :> Use(pepper, 1, 1, FALSE)) EXCEPT !.recipe = "tea"])

On(kinds, commands, published, rows) ==
    [scene |-> [kinds |-> kinds, commands |-> commands],
     catalog |-> [published |-> published, offered |-> {Max(published \ {4})} \cup (published \cap {4}),
                  known |-> {oil, salt, pepper} \X {1}, sold |-> {oil, salt, pepper} \X {1},
                  estimate |-> [i \in {oil, salt, pepper} |-> 1]],
     row |-> rows]
Served(version, consumption, scale) ==
    S(1) :> [version |-> version, place |-> noon, consumption |-> consumption, scale |-> scale,
             mode |-> "suggested", retired |-> FALSE]
Prices == (P(oil) :> <<1>>) @@ (P(salt) :> <<1>>)
Soup == Served(1, 100, 200) @@ Prices
Replaced(l, i, n) ==
    O(<<1, l, 1>>) :> [of |-> 1, how |-> "replace", line |-> l, ingredient |-> <<i, 1>>,
                       quantity |-> n, retired |-> FALSE]
Added(n) ==
    O(<<1, pepper, 1>>) :> [of |-> 1, how |-> "add", line |-> None, ingredient |-> <<pepper, 1>>,
                            quantity |-> n, retired |-> FALSE]

MCScenarios ==
    {On({"schedule", "retire"}, 1 .. 2, {1, 4}, << >>),
     On({"schedule", "refresh", "estimate"}, 1 .. 2, {1, 4}, << >>),
     On({"replace", "clear", "archive"}, 1 .. 3, {1}, Soup),
     On({"add", "clear", "publish_ingredient"}, 1 .. 2, {1}, Soup),
     On({"replace", "add", "clear", "refresh", "estimate"}, 1 .. 2, {3},
        Served(3, 0, 0) @@ Added(1)),
     On({"replace", "update", "clear"}, 1 .. 3, {1, 3}, Soup),
     On({"update", "refresh", "publish_recipe", "lifecycle"}, 1 .. 3, {1, 4},
        Soup @@ Replaced(l2, salt, 2) @@ Added(1) @@ (P(pepper) :> <<1>>)),
     On({"context", "update", "refresh", "archive"}, 1 .. 3, {1, 3}, Served(1, 0, 0))}
Kept == {On({"update"}, 1 .. 2, {1, 2, 3}, Soup @@ Replaced(l1, oil, 2))}
=============================================================================
