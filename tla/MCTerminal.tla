----------------------------- MODULE MCTerminal -----------------------------
(***************************************************************************)
(* Both surfaces, two turns, one workspace.                                *)
(***************************************************************************)
EXTENDS Terminal
=============================================================================
