------------------------ MODULE ApprovalCoordinator ------------------------
(***************************************************************************)
(* The approvals of the interactive surfaces                               *)
(* (src/apps/cli/src/interactive/approval-coordinator.ts): a request saves *)
(* its record, is announced, and only then enters the map of pending       *)
(* approvals; an answer picks a request, from the map at once or else from *)
(* the records on disk, saves the record and settles what the map holds.   *)
(* Each await is a step of its own.  Terminal says who asks and answers.   *)
(***************************************************************************)
EXTENDS Naturals, FiniteSets, SequencesExt

CONSTANTS
  Keys,        \* what alwaysAllowKey makes of the tool calls
  Roots,       \* workspaces
  NoSession,
  MaxTurns,    \* bound: how many turns the user starts
  MaxRequests, \* bound: how many approvals are asked for
  MaxAnswers   \* bound: how many answers are under way at a time

ASSUME CoordinatorAssumption == {MaxTurns, MaxRequests, MaxAnswers} \subseteq Nat

VARIABLES
  root,     \* workspaceRoot: where records are saved and looked up
  reqs,     \* the requests, in the order they are made
  always,   \* alwaysAllowed
  answers   \* the answers being carried out

Sessions == 1..MaxTurns     \* the session that the turn of this number begins
Requests == 1..MaxRequests
NoRequest == 0
Verdicts == {"once", "always", "deny"}

\* A request outlives its turn: nothing takes it out of the map but an answer.
Request ==
  [turn : 1..MaxTurns, key : Keys, session : Sessions, root : Roots,
   stage : {"saving", "announcing", "announced", "waiting", "granted", "denied"},
   record : {"none", "pending", "approved", "denied"}]
\* meant: the requests that its author can have had in mind, for the properties.
Answer ==
  [slot : 1..MaxAnswers, id : Requests \cup {NoRequest}, session : Sessions \cup {NoSession},
   verdict : Verdicts, step : {"look", "save"}, meant : SUBSET Requests]

CoordinatorTypeOK ==
  /\ root \in Roots
  /\ reqs \in Seq(Request) /\ Len(reqs) <= MaxRequests
  /\ always \subseteq Keys
  /\ answers \subseteq Answer

CoordinatorInit == root \in Roots /\ reqs = <<>> /\ always = {} /\ answers = {}

\* hasPendingApprovals, and the map itself.
Pending == {r \in DOMAIN reqs : reqs[r].stage = "waiting"}
Announced == {r \in DOMAIN reqs : reqs[r].stage \notin {"saving", "announcing"}}

\* getPendingApprovals of one session, or of all of the workspace.
OnDisk(session) ==
  {r \in DOMAIN reqs : /\ reqs[r].record = "pending" /\ reqs[r].root = root
                       /\ session \in {NoSession, reqs[r].session}}

-----------------------------------------------------------------------------
(* request                                                                 *)

NewRequest(turn, session, key) ==
  reqs' = Append(reqs, [turn |-> turn, key |-> key, session |-> session, root |-> root,
                        stage |-> "saving", record |-> "none"])

SaveRequest(r) ==
  /\ reqs[r].stage = "saving"
  /\ reqs' = [reqs EXCEPT ![r].stage = "announcing", ![r].record = "pending"]

\* onPending publishes approval.requested.
Announce(r) ==
  /\ reqs[r].stage = "announcing"
  /\ reqs' = [reqs EXCEPT ![r].stage = "announced"]

Wait(r) ==
  /\ reqs[r].stage = "announced"
  /\ reqs' = [reqs EXCEPT ![r].stage = "waiting"]

-----------------------------------------------------------------------------
(* approve, approveAlways, deny                                            *)

\* pickPendingApproval: the one named or the only one, if the map has it.
Direct(id) ==
  IF id # NoRequest THEN Pending \cap {id}
  ELSE IF Cardinality(Pending) = 1 THEN Pending ELSE {}

\* Otherwise the record named, or the only pending record.
Looked(id, session) ==
  IF id # NoRequest THEN OnDisk(session) \cap {id}
  ELSE IF Cardinality(OnDisk(session)) = 1 THEN OnDisk(session) ELSE {}

Remembered(verdict, picked) ==
  always' = always \cup (IF verdict = "always" THEN {reqs[r].key : r \in picked} ELSE {})

Picked(answer, r) ==
  [answer EXCEPT !.id = r, !.step = "save", !.session = NoSession, !.meant = @ \cap {r},
                 !.verdict = IF @ = "always" THEN "once" ELSE @]

BeginAnswer(id, session, verdict, meant) ==
  LET picked == Direct(id)
      slot == CHOOSE n \in 1..MaxAnswers : \A a \in answers : a.slot # n
      answer == [slot |-> slot, id |-> id, session |-> session, verdict |-> verdict,
                 step |-> "look", meant |-> IF id = NoRequest THEN meant ELSE meant \cap {id}]
  IN /\ Cardinality(answers) < MaxAnswers
     /\ answers' = answers \cup (IF picked = {} THEN {answer}
                                 ELSE {Picked(answer, r) : r \in picked})
     /\ Remembered(verdict, picked)

\* The records have been read: one of them is answered, or none matches.
LookUp(a) ==
  LET picked == Looked(a.id, a.session) IN
    /\ a.step = "look"
    /\ answers' = (answers \ {a}) \cup {Picked(a, r) : r \in picked}
    /\ Remembered(a.verdict, picked)
    /\ UNCHANGED <<root, reqs>>

\* resolveApproval: the record goes to the workspace of the moment, and the call is let
\* through or refused if it waits in the map.
Settle(a) ==
  /\ a.step = "save"
  /\ answers' = answers \ {a}
  /\ reqs' = [reqs EXCEPT
       ![a.id].record = IF reqs[a.id].root # root THEN @
                        ELSE IF a.verdict = "deny" THEN "denied" ELSE "approved",
       ![a.id].stage = IF @ # "waiting" THEN @
                       ELSE IF a.verdict = "deny" THEN "denied" ELSE "granted"]
  /\ UNCHANGED <<root, always>>

SetWorkspaceRoot(r) == root' = r
=============================================================================
