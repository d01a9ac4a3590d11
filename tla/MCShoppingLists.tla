-------------------------- MODULE MCShoppingLists ---------------------------
(* TLC instances of ShoppingLists: two recipes that need one ingredient, a   *)
(* plan that drops one of them and changes what the other needs.             *)
EXTENDS ShoppingLists

CONSTANTS r1, r2, flour, jam, s1, s2

MCRecipe == {r1, r2}
MCIngredient == {flour}
MCBase == [r \in MCRecipe |-> [i \in MCIngredient |-> IF r = r1 THEN 1 ELSE 2]]
Served == [retired |-> FALSE, scale |-> 1, override |-> [i \in MCIngredient |-> -1]]
MCMenus == {[r \in MCRecipe |-> Served],
            [r \in MCRecipe |->
               IF r = r1 THEN [Served EXCEPT !.override[flour] = 2]
               ELSE [Served EXCEPT !.retired = TRUE]]}
MCSources == {{r1}, {r1, r2}}
MCScenarios == {{"create", "refresh", "check", "check_row", "replan"},
                {"create", "supply", "target", "check_row"},
                {"create", "section", "note", "rename", "archive"},
                {"create", "add_item", "check_item", "item_lifecycle", "update_item"}}
=============================================================================
