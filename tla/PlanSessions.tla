---------------------------- MODULE PlanSessions ----------------------------
(***************************************************************************)
(* Plan-first tasks (packages/core/src/agent/plan-session-orchestrator.ts, *)
(* session-orchestration.ts): a run writes a plan into a plan session, the *)
(* plan waits for its approval (http-plan-approval-queue.ts), a second run *)
(* executes it, and the manifests of both sessions are linked.  Commands   *)
(* "session execute" of other processes execute plans they find on disk.   *)
(* The runs themselves are AgentLoop; here a run only begins and ends.     *)
(***************************************************************************)
EXTENDS Naturals, NodeFile

CONSTANTS
  Plans,      \* plan-first tasks, and the plan sessions they create
  Commands,   \* "session execute" commands
  MaxCrashes  \* bound: times a process may die

Actors == Plans \cup Commands

ASSUME PlansAssumption ==
  /\ Plans \cap Commands = {}
  /\ "none" \notin Actors
  /\ MaxCrashes \in Nat

VARIABLES
  at,        \* where a task or command is
  target,    \* the plan session a command is to execute
  aborted,   \* the abort signal of a task
  pending,   \* keys of HttpPlanApprovalQueue.pendingBySession
  answer,    \* what decided on the execution of a plan
  saved,     \* plan sessions with a plan.md
  file,      \* session.json of each plan session
  update,    \* the updateManifest() of a plan session an actor is in
  executed,  \* actors who began to execute each plan
  backlink,  \* planSessionId in the manifest of the session an actor executed
  crashes

vars == <<at, target, aborted, pending, answer, saved, file, update, executed,
          backlink, crashes>>

Places == {"idle", "planning", "planned", "proposing", "waiting", "refused",
           "checked", "executing", "executed", "linked", "ended"}
Answers == {"none", "approved", "denied", "auto", "unattended", "aborted"}
Consents == {"approved", "auto"}

Manifests == [status: {"none", "running", "success", "failed", "permission_denied"},
              execute: Actors \cup {"none"}]
NoManifest == [status |-> "none", execute |-> "none"]
NewManifest == [status |-> "running", execute |-> "none"]

Updates == [stage: {"idle", "opening", "writing"}, manifest: Manifests]
NoUpdate == [stage |-> "idle", manifest |-> NoManifest]

\* The plan session an actor works with: its own or the one of the command.
PlanOf(a) == IF a \in Plans THEN a ELSE target[a]

TypeOK ==
  /\ at \in [Actors -> Places]
  /\ target \in [Commands -> Plans \cup {"none"}]
  /\ aborted \in [Plans -> BOOLEAN]
  /\ pending \subseteq Plans
  /\ answer \in [Plans -> Answers]
  /\ saved \subseteq Plans
  /\ file \in [Plans -> [state: FileStates, content: Manifests]]
  /\ update \in [Actors -> Updates]
  /\ executed \in [Plans -> SUBSET Actors]
  /\ backlink \in [Actors -> Plans \cup {"none"}]
  /\ crashes \in 0..MaxCrashes

Init ==
  /\ at = [a \in Actors |-> "idle"]
  /\ target = [c \in Commands |-> "none"]
  /\ aborted = [p \in Plans |-> FALSE]
  /\ pending = {} /\ saved = {}
  /\ answer = [p \in Plans |-> "none"]
  /\ file = [p \in Plans |-> AbsentFile(NoManifest)]
  /\ update = [a \in Actors |-> NoUpdate]
  /\ executed = [p \in Plans |-> {}]
  /\ backlink = [a \in Actors |-> "none"]
  /\ crashes = 0

-----------------------------------------------------------------------------
(* Planning.                                                               *)

Start(p) ==
  /\ at[p] = "idle"
  /\ at' = [at EXCEPT ![p] = "planning"]
  /\ file' = [file EXCEPT ![p] = WholeFile(NewManifest)]
  /\ UNCHANGED <<target, aborted, pending, answer, saved, update, executed, backlink, crashes>>

\* completeRun saves the plan, then the status.
SavePlan(p) ==
  /\ at[p] = "planning"
  /\ at' = [at EXCEPT ![p] = "planned"]
  /\ saved' = saved \cup {p}
  /\ UNCHANGED <<target, aborted, pending, answer, file, update, executed, backlink, crashes>>

\* The planning run ends.  One that delivered no plan may be successful, too.
EndPlanning(p, status) ==
  /\ at[p] \in {"planning", "planned"}
  /\ at' = [at EXCEPT ![p] = IF status = "success" THEN "proposing" ELSE "ended"]
  /\ file' = [file EXCEPT ![p] = WholeFile([NewManifest EXCEPT !.status = status])]
  /\ UNCHANGED <<target, aborted, pending, answer, saved, update, executed, backlink, crashes>>

-----------------------------------------------------------------------------
(* Approval.                                                               *)

\* The actor begins to execute plan p in a session of its own.
Execute(a, p) ==
  /\ at' = [at EXCEPT ![a] = "executing"]
  /\ executed' = [executed EXCEPT ![p] = @ \cup {a}]

\* The decision on plan p: its run executes it or goes on to record the denial.
Decide(p, how) ==
  /\ answer' = [answer EXCEPT ![p] = how]
  /\ IF how \in Consents
     THEN Execute(p, p)
     ELSE at' = [at EXCEPT ![p] = "refused"] /\ UNCHANGED executed

\* approvePlan of the server: the plan waits in the queue, unless the signal
\* was raised before.
Propose(p) ==
  /\ at[p] = "proposing"
  /\ IF aborted[p]
     THEN Decide(p, "aborted") /\ UNCHANGED pending
     ELSE /\ pending' = pending \cup {p}
          /\ at' = [at EXCEPT ![p] = "waiting"]
          /\ UNCHANGED <<answer, executed>>
  /\ UNCHANGED <<target, aborted, saved, file, update, backlink, crashes>>

\* No handler: autoApprovePlan decides.
DecideWithoutAsking(p, how) ==
  /\ at[p] = "proposing"
  /\ Decide(p, how)
  /\ UNCHANGED <<target, aborted, pending, saved, file, update, backlink, crashes>>

\* Mutant: whatever the client answers, the plan is executed.
AnswerIgnored(p, how) ==
  /\ p \in pending
  /\ pending' = pending \ {p}
  /\ answer' = [answer EXCEPT ![p] = how]
  /\ Execute(p, p)
  /\ UNCHANGED <<target, aborted, saved, file, update, backlink, crashes>>

\* POST /api/sessions/:id/plan-approval; 404 for a plan that is not pending.
Answer(p, how) ==
  /\ p \in pending
  /\ pending' = pending \ {p}
  /\ Decide(p, how)
  /\ UNCHANGED <<target, aborted, saved, file, update, backlink, crashes>>

\* Mutant: the run is let go, and the entry stays in the queue.
AbortLeavesEntry(p) ==
  /\ at[p] \notin {"idle", "ended"} /\ ~aborted[p]
  /\ aborted' = [aborted EXCEPT ![p] = TRUE]
  /\ IF p \in pending
     THEN Decide(p, "aborted")
     ELSE UNCHANGED <<at, answer, executed>>
  /\ UNCHANGED <<target, pending, saved, file, update, backlink, crashes>>

\* Mutant: the entry is dropped, and nobody wakes the run.
AbortDropsEntry(p) ==
  /\ at[p] \notin {"idle", "ended"} /\ ~aborted[p]
  /\ aborted' = [aborted EXCEPT ![p] = TRUE]
  /\ pending' = pending \ {p}
  /\ UNCHANGED <<at, target, answer, saved, file, update, executed, backlink, crashes>>

\* The signal of a task: a plan in the queue is denied.  What the runs make of
\* it is their affair.
Abort(p) ==
  /\ at[p] \notin {"idle", "ended"} /\ ~aborted[p]
  /\ aborted' = [aborted EXCEPT ![p] = TRUE]
  /\ IF p \in pending
     THEN pending' = pending \ {p} /\ Decide(p, "aborted")
     ELSE UNCHANGED <<at, pending, answer, executed>>
  /\ UNCHANGED <<target, saved, file, update, backlink, crashes>>

-----------------------------------------------------------------------------
(* Execution.                                                              *)

\* executeFromApprovedPlan reads the manifest of a plan session and goes on
\* when the session is not running and not executed yet.  A command that does
\* not go on changes nothing.
Check(c, p) ==
  /\ at[c] = "idle"
  /\ file[p].state = "whole"
  /\ file[p].content.status # "running"
  /\ file[p].content.execute = "none"
  /\ at' = [at EXCEPT ![c] = "checked"]
  /\ target' = [target EXCEPT ![c] = p]
  /\ UNCHANGED <<aborted, pending, answer, saved, file, update, executed, backlink, crashes>>

\* Mutant: the command claims the plan with its link before it reads it.
ReadPlanClaimed(c) ==
  /\ at[c] = "checked"
  /\ file' = [file EXCEPT ![target[c]].content.execute = c]
  /\ IF target[c] \in saved
     THEN Execute(c, target[c])
     ELSE at' = [at EXCEPT ![c] = "ended"] /\ UNCHANGED executed
  /\ UNCHANGED <<target, aborted, pending, answer, saved, update, backlink, crashes>>

\* It then reads the plan.
ReadPlan(c) ==
  /\ at[c] = "checked"
  /\ IF target[c] \in saved
     THEN Execute(c, target[c])
     ELSE at' = [at EXCEPT ![c] = "ended"] /\ UNCHANGED executed
  /\ UNCHANGED <<target, aborted, pending, answer, saved, file, update, backlink, crashes>>

\* The executing run returns, whatever its status, or throws.
EndExecution(a, place) ==
  /\ at[a] = "executing"
  /\ at' = [at EXCEPT ![a] = place]
  /\ UNCHANGED <<target, aborted, pending, answer, saved, file, update, executed,
                 backlink, crashes>>

-----------------------------------------------------------------------------
(* Manifests: a denial, and the link of an execution, are recorded in the  *)
(* manifest of the plan session with updateManifest(): read and write      *)
(* without a lock.                                                         *)

Updated(a, manifest) ==
  IF at[a] = "refused"
  THEN [manifest EXCEPT !.status = "permission_denied"]
  ELSE [manifest EXCEPT !.execute = a]

MustUpdate(a) == at[a] \in {"refused", "executed"}

\* A manifest that does not parse makes updateManifest throw.
ReadManifest(a) ==
  /\ MustUpdate(a) /\ update[a].stage = "idle"
  /\ IF file[PlanOf(a)].state = "whole"
     THEN /\ update' = [update EXCEPT ![a] =
                          [stage |-> "opening",
                           manifest |-> Updated(a, file[PlanOf(a)].content)]]
          /\ UNCHANGED at
     ELSE at' = [at EXCEPT ![a] = "ended"] /\ UNCHANGED update
  /\ UNCHANGED <<target, aborted, pending, answer, saved, file, executed, backlink, crashes>>

OpenManifest(a) ==
  /\ update[a].stage = "opening"
  /\ update' = [update EXCEPT ![a].stage = "writing"]
  /\ file' = [file EXCEPT ![PlanOf(a)] = OpenedFile(NoManifest)]
  /\ UNCHANGED <<at, target, aborted, pending, answer, saved, executed, backlink, crashes>>

WriteManifest(a) ==
  /\ update[a].stage = "writing"
  /\ \E f \in WrittenOver(file[PlanOf(a)], update[a].manifest, NoManifest) :
       file' = [file EXCEPT ![PlanOf(a)] = f]
  /\ update' = [update EXCEPT ![a] = NoUpdate]
  /\ at' = [at EXCEPT ![a] = IF @ = "refused" THEN "ended" ELSE "linked"]
  /\ UNCHANGED <<target, aborted, pending, answer, saved, executed, backlink, crashes>>

\* The manifest of the executed session, which nobody else writes any more.
WriteBacklink(a) ==
  /\ at[a] = "linked"
  /\ at' = [at EXCEPT ![a] = "ended"]
  /\ backlink' = [backlink EXCEPT ![a] = PlanOf(a)]
  /\ UNCHANGED <<target, aborted, pending, answer, saved, file, update, executed, crashes>>

\* Reading or writing fails: the task or command ends with an error.
UpdateFails(a) ==
  /\ at[a] \in {"refused", "executed", "linked"}
  /\ at' = [at EXCEPT ![a] = "ended"]
  /\ update' = [update EXCEPT ![a] = NoUpdate]
  /\ UNCHANGED <<target, aborted, pending, answer, saved, file, executed, backlink, crashes>>

-----------------------------------------------------------------------------

\* A process dies: a command, or the server with all tasks that began.
Crash(as) ==
  /\ crashes < MaxCrashes
  /\ crashes' = crashes + 1
  /\ at' = [a \in Actors |-> IF a \in as /\ at[a] # "idle" THEN "ended" ELSE at[a]]
  /\ update' = [a \in Actors |-> IF a \in as THEN NoUpdate ELSE update[a]]
  /\ pending' = pending \ as
  /\ UNCHANGED <<target, aborted, answer, saved, file, executed, backlink>>

PlanStep(p) ==
  \/ SavePlan(p) \/ (\E status \in {"success", "failed"} : EndPlanning(p, status))
  \/ Propose(p) \/ (\E how \in {"auto", "unattended"} : DecideWithoutAsking(p, how))
AnswerStep(p) == \E how \in {"approved", "denied"} : Answer(p, how)
ExecuteStep(a) ==
  \/ \E place \in {"executed", "ended"} : EndExecution(a, place)
  \/ ReadManifest(a) \/ OpenManifest(a) \/ WriteManifest(a) \/ WriteBacklink(a)

Next ==
  \/ \E p \in Plans : Start(p) \/ PlanStep(p) \/ AnswerStep(p) \/ Abort(p)
  \/ \E c \in Commands : ReadPlan(c) \/ (\E p \in Plans : Check(c, p))
  \/ \E a \in Actors : ExecuteStep(a) \/ UpdateFails(a)
  \/ Crash(Plans) \/ (\E c \in Commands : Crash({c}))

Spec == Init /\ [][Next]_vars

\* The event loop runs what is ready, runs end, and clients answer what waits.
FairSpec ==
  /\ Spec
  /\ \A p \in Plans : WF_vars(PlanStep(p)) /\ WF_vars(AnswerStep(p)) /\ WF_vars(ExecuteStep(p))

-----------------------------------------------------------------------------
(* Properties.                                                             *)

DecisionOn(p) ==
  IF answer[p] = "none" THEN "none"
  ELSE IF answer[p] \in Consents THEN "approved" ELSE "denied"
StageOf(p) ==
  IF at[p] = "executing" THEN "executing"
  ELSE IF at[p] \in {"executed", "linked", "ended"} THEN "over" ELSE "planning"

Protocol == INSTANCE PlanProtocol WITH
  decision <- [p \in Plans |-> DecisionOn(p)],
  stage <- [p \in Plans |-> StageOf(p)]

\* Answers, aborts and crashes in any order: the task decides on its plan at
\* most once, and executes it at most once and only when it was approved
\* (runPlanFirstSession, HttpPlanApprovalQueue).
KeepsProtocol == Protocol!Spec

\* A plan has been executed by its own task exactly if that was agreed to: a
\* client who was told 200 for "approve" or "deny" gets what he asked for.
AnswerIsCarriedOut ==
  \A p \in Plans : answer[p] \in Consents <=> p \in executed[p]

\* Links are true, although manifests are read, changed and written without a
\* lock: the session a plan session names was executed from that plan and has
\* ended, and so for the link back (linkPlanAndExecuteSessions).
LinksAreTrue ==
  /\ \A p \in Plans :
       LET a == file[p].content.execute IN
       a # "none" => a \in executed[p] /\ at[a] # "executing"
  /\ \A a \in Actors : backlink[a] # "none" => a \in executed[backlink[a]]

\* A plan-first task returns when clients answer, even if it is aborted while
\* its plan waits (finishPending).
EveryTaskReturns == \A p \in Plans : at[p] # "idle" ~> at[p] = "ended"
=============================================================================
