--------------------------- MODULE MCSyncReplica ---------------------------
(* TLC instances of SyncReplica: two events, or one event with a recipe; two *)
(* tabs, or one tab and one component that refreshes the replica on its own. *)
EXTENDS SyncReplica

CONSTANTS e1, e2, r1, tab1, tab2, panel

MCOneEvent == {e1}
MCTwoEvents == {e1, e2}
MCRecipe == {r1}
MCEventOf == [r \in Recipe |-> e1]
(* Events that are older than the clocks. *)
MCCreation == [e \in Event |-> NoClock]
MCTab == {tab1}
MCTwoTabs == {tab1, tab2}
MCTabAndPanel == {tab1, panel}

=============================================================================
