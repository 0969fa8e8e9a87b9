------------------------------ MODULE MCPanels ------------------------------
(* TLC instance of Panels: the .cfg files give the constants.                *)
EXTENDS Panels, TLC

Symmetric == Permutations(Clicks) \cup Permutations(Posts) \cup Permutations(Channels)
=============================================================================
