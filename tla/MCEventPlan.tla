---------------------------- MODULE MCEventPlan -----------------------------
(* TLC instances of EventPlan: an event of two dates, two days and one role   *)
(* with two recipes on the first day and one on the second.                  *)
EXTENDS EventPlan

CONSTANTS x1, vegan, nuts

MCDay == {<<0, 1>>}
MCRecipe == {1, 2, 3}
MCRole == {1, 2}
MCKeys == {<<1>>}
MCPresets == 1 :> [name |-> None, key |-> <<0>>, retired |-> FALSE]
Served(day, key) == [day |-> day, role |-> 1, key |-> key, note |-> None, retired |-> FALSE]
Planned == [start |-> 1, end |-> 2, name |-> "a", lifecycle |-> "active"]
DayOf(date) == [date |-> date, note |-> None, visible |-> TRUE, retired |-> FALSE]
OneDay == <<"day", <<1, 0>>>> :> DayOf(1)
Days == OneDay @@ (<<"day", <<2, 0>>>> :> DayOf(2))
Roles == <<"role", 1>> :> [name |-> "a", key |-> <<0>>, retired |-> FALSE]
OneRecipe == <<"recipe", 1>> :> Served(<<1, 0>>, <<0>>)
Recipes == OneRecipe @@ (<<"recipe", 2>> :> Served(<<1, 0>>, <<1>>))
             @@ (<<"recipe", 3>> :> Served(<<2, 0>>, <<0>>))
Guest == <<"exception", x1>> :> [name |-> "a", retired |-> FALSE]
           @@ (<<"tag", x1, vegan>> :> [retired |-> FALSE])
Empty == << >>

MCScenarios ==
    {[kinds |-> {"create", "update", "create_day", "day_lifecycle"},
      event |-> NoEvent, row |-> Empty],
     [kinds |-> {"place", "move"}, event |-> Planned,
      row |-> Days @@ Roles @@ Recipes],
     [kinds |-> {"day_note", "day_visibility", "recipe_note", "archive"}, event |-> Planned,
      row |-> OneDay @@ Roles @@ OneRecipe],
     [kinds |-> {"create_role", "role_name", "role_position", "role_lifecycle", "schedule"},
      event |-> Planned, row |-> Days @@ Roles],
     [kinds |-> {"role_lifecycle", "day_lifecycle", "recipe_lifecycle", "archive",
                 "duplicate"},
      event |-> Planned, row |-> OneDay @@ Roles @@ OneRecipe],
     [kinds |-> {"add_exception", "exception_lifecycle", "retire_tag"},
      event |-> Planned, row |-> OneDay],
     [kinds |-> {"update_exception", "exception_lifecycle", "retire_tag"},
      event |-> Planned, row |-> OneDay @@ Guest]}
Created == {[kinds |-> {"create", "update"}, event |-> NoEvent, row |-> Empty]}
=============================================================================
