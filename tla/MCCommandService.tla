------------------------- MODULE MCCommandService --------------------------
(* The TLC instance of CommandService: one event with a scheduled recipe and *)
(* three commands of any kind, with two wall-clock times, so that writes     *)
(* tie, are late, or lie too far in the server's future.                     *)
EXTENDS CommandService

CONSTANTS e1, r1

MCEvent == {e1}
MCRecipe == {r1}
MCEventOf == [r \in MCRecipe |-> e1]
(* The event was created by command 2, by a member whose clock said 1. *)
MCCreation == [e \in MCEvent |-> <<1, 2>>]
=============================================================================
