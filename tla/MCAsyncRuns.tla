----------------------------- MODULE MCAsyncRuns -----------------------------
(***************************************************************************)
(* The registry with two runs.                                             *)
(***************************************************************************)
EXTENDS AsyncRuns, TLC

CONSTANTS j1, j2
Symmetric == Permutations(Jobs)
=============================================================================
