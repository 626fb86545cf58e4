------------------------------ MODULE MCPanes -------------------------------
(***************************************************************************)
(* Panes for TLC.                                                          *)
(***************************************************************************)
EXTENDS Panes, TLC

Symmetry == Permutations(WindowId) \cup Permutations(PaneId)

=============================================================================
