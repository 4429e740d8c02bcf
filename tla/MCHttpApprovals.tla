--------------------------- MODULE MCHttpApprovals ---------------------------
(***************************************************************************)
(* The approval queue with two runs of one session.                        *)
(***************************************************************************)
EXTENDS HttpApprovals

CONSTANTS r1, r2
=============================================================================
