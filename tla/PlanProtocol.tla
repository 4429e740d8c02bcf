---------------------------- MODULE PlanProtocol ----------------------------
(***************************************************************************)
(* What plan-first tasks promise to the people who start them: a plan is   *)
(* decided on at most once, and carried out at most once and only if it    *)
(* was approved.                                                           *)
(***************************************************************************)
CONSTANT Plans

VARIABLES
  decision,  \* what was decided on each plan
  stage      \* how far its task has come

Init ==
  /\ decision = [p \in Plans |-> "none"]
  /\ stage = [p \in Plans |-> "planning"]

Approve(p) ==
  /\ stage[p] = "planning" /\ decision[p] = "none"
  /\ decision' = [decision EXCEPT ![p] = "approved"]
  /\ stage' = [stage EXCEPT ![p] = "executing"]

Deny(p) ==
  /\ stage[p] = "planning" /\ decision[p] = "none"
  /\ decision' = [decision EXCEPT ![p] = "denied"]
  /\ UNCHANGED stage

\* A task can be over at any time: it fails, is aborted or loses its process.
\* Several can lose it at once.
End(ps) ==
  /\ stage' = [p \in Plans |-> IF p \in ps THEN "over" ELSE stage[p]]
  /\ UNCHANGED decision

Next == (\E p \in Plans : Approve(p) \/ Deny(p)) \/ (\E ps \in SUBSET Plans : End(ps))

Spec == Init /\ [][Next]_<<decision, stage>>
=============================================================================
