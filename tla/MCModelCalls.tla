---------------------------- MODULE MCModelCalls ----------------------------
(***************************************************************************)
(* Instance of ModelCalls for TLC: the two kinds of endpoint, and requests *)
(* that do not stream or offer no tools (the closing turn).                *)
(***************************************************************************)
EXTENDS ModelCalls

Kind(isDeepSeek, stream, tools) ==
  [isDeepSeek |-> isDeepSeek, stream |-> stream, tools |-> tools]
MCKinds ==
  {Kind(TRUE, TRUE, TRUE), Kind(FALSE, TRUE, TRUE), Kind(TRUE, FALSE, TRUE), Kind(TRUE, TRUE, FALSE)}
=============================================================================
