---------------------------- MODULE HttpApprovals ----------------------------
(***************************************************************************)
(* The approval queue of the API server: runs of one session ask, HTTP     *)
(* clients answer, runs are aborted, and approvals.json keeps a record of  *)
(* every approval (packages/server-runtime/src/http-approval-queue.ts,     *)
(* SessionStore.saveApproval, resolvePermission and the approval routes).  *)
(*                                                                         *)
(* A run asks one approval after the other; two runs share a session when  *)
(* a client resumes a session that is still running, which nothing         *)
(* prevents.  The approvals of other sessions share only the map of        *)
(* pending approvals, whose keys are unique.                               *)
(***************************************************************************)
EXTENDS Naturals, FiniteSets, NodeFile

CONSTANTS
  Runs,        \* runs of the session under way in this server
  MaxCalls,    \* bound: approvals one run may ask for
  MaxAsked,    \* bound: approvals the runs may ask for together
  MaxCrashes   \* bound: times the server process may die

ASSUME ApprovalsAssumption ==
  MaxCalls \in Nat /\ MaxAsked \in Nat /\ MaxCrashes \in Nat

VARIABLES
  run,      \* what the run does: work, wait in resolvePermission, nothing
  calls,    \* approvals the run has asked for
  aborted,  \* its abort signal
  call,     \* the await at which approve() of an approval is suspended
  pending,  \* keys of HttpApprovalQueue.pending
  outcome,  \* what the wait of an approval gave the run
  reply,    \* what the client who answered an approval was told
  save,     \* the saveApproval() of an approval that is under way
  file,     \* approvals.json
  crashes

queueVars == <<run, calls, aborted, call, pending, outcome, reply, save, file, crashes>>

Ids == Runs \X (1..MaxCalls)
Current(r) == <<r, calls[r]>>
Owner(id) == id[1]
MayAsk(r) ==
  /\ calls[r] < MaxCalls
  /\ Cardinality({id \in Ids : call[id] # "none"}) < MaxAsked

Decisions == {"approved", "denied"}
Statuses == {"none", "pending"} \cup Decisions
Records == [Ids -> Statuses]      \* ApprovalRecord.status of each record of a list
NoRecords == [id \in Ids |-> "none"]

CallStates == {"none", "saving", "announcing", "waiting", "returned"}
Outcomes == {"none", "aborted", "failed", "lost"} \cup Decisions
Replies == {"none", "refused"} \cup Decisions

Saves == [stage: {"idle", "reading", "opening", "writing"}, status: Statuses, list: Records]
NoSave == [stage |-> "idle", status |-> "none", list |-> NoRecords]
StartSave(status) == [stage |-> "reading", status |-> status, list |-> NoRecords]

QueueTypeOK ==
  /\ run \in [Runs -> {"working", "asking", "ended"}]
  /\ calls \in [Runs -> 0..MaxCalls]
  /\ aborted \in [Runs -> BOOLEAN]
  /\ call \in [Ids -> CallStates]
  /\ pending \subseteq Ids
  /\ outcome \in [Ids -> Outcomes]
  /\ reply \in [Ids -> Replies]
  /\ save \in [Ids -> Saves]
  /\ file \in [state: FileStates, content: Records]
  /\ crashes \in 0..MaxCrashes

QueueInit ==
  /\ run = [r \in Runs |-> "working"]
  /\ calls = [r \in Runs |-> 0]
  /\ aborted = [r \in Runs |-> FALSE]
  /\ call = [id \in Ids |-> "none"]
  /\ pending = {}
  /\ outcome = [id \in Ids |-> "none"]
  /\ reply = [id \in Ids |-> "none"]
  /\ save = [id \in Ids |-> NoSave]
  /\ file = AbsentFile(NoRecords)
  /\ crashes = 0

-----------------------------------------------------------------------------
(* The run.                                                                *)

\* The wait of resolvePermission for approval id is over: the run works on
\* when it was approved and ends on anything else.  A wait that was over before
\* stays as it was.
WaitEnds(id, how) ==
  IF outcome[id] = "none"
  THEN /\ outcome' = [outcome EXCEPT ![id] = how]
       /\ run' = [run EXCEPT ![Owner(id)] =
                    IF how = "approved" THEN "working" ELSE "ended"]
  ELSE UNCHANGED <<outcome, run>>

\* Mutant: resolvePermission does not look at the signal.
AskUnheard(r) ==
  LET id == <<r, calls[r] + 1>> IN
  /\ run[r] = "working"
  /\ MayAsk(r)
  /\ calls' = [calls EXCEPT ![r] = @ + 1]
  /\ call' = [call EXCEPT ![id] = "saving"]
  /\ save' = [save EXCEPT ![id] = StartSave("pending")]
  /\ run' = [run EXCEPT ![r] = "asking"]
  /\ UNCHANGED <<aborted, pending, outcome, reply, file, crashes>>

\* resolvePermission calls approve(), which starts to save the approval, and
\* only then waitWithAbortSignal looks at the signal.
ResolvePermission(r) ==
  LET id == <<r, calls[r] + 1>> IN
  /\ run[r] = "working"
  /\ MayAsk(r)
  /\ calls' = [calls EXCEPT ![r] = @ + 1]
  /\ call' = [call EXCEPT ![id] = "saving"]
  /\ save' = [save EXCEPT ![id] = StartSave("pending")]
  /\ IF aborted[r]
     THEN WaitEnds(id, "aborted")
     ELSE run' = [run EXCEPT ![r] = "asking"] /\ UNCHANGED outcome
  /\ UNCHANGED <<aborted, pending, reply, file, crashes>>

EndRun(r) ==
  /\ run[r] = "working"
  /\ run' = [run EXCEPT ![r] = "ended"]
  /\ UNCHANGED <<calls, aborted, call, pending, outcome, reply, save, file, crashes>>

\* A client resumes the session with a new run, which has a signal of its own.
ResumeRun(r) ==
  /\ run[r] = "ended"
  /\ MayAsk(r)
  /\ run' = [run EXCEPT ![r] = "working"]
  /\ aborted' = [aborted EXCEPT ![r] = FALSE]
  /\ UNCHANGED <<calls, call, pending, outcome, reply, save, file, crashes>>

-----------------------------------------------------------------------------
(* approve(): the prompter of the queue.                                   *)

\* Mutant: the entry is put into the map whatever the signal says.
RegisterRegardless(id) ==
  /\ call[id] = "announcing"
  /\ call' = [call EXCEPT ![id] = "waiting"]
  /\ pending' = pending \cup {id}
  /\ UNCHANGED <<run, calls, aborted, outcome, reply, save, file, crashes>>

\* onPending is done.  A call whose signal was aborted meanwhile returns
\* without a place in the queue; the run has gone on without it.
Register(id) ==
  /\ call[id] = "announcing"
  /\ IF outcome[id] = "aborted"
     THEN call' = [call EXCEPT ![id] = "returned"] /\ UNCHANGED pending
     ELSE call' = [call EXCEPT ![id] = "waiting"] /\ pending' = pending \cup {id}
  /\ UNCHANGED <<run, calls, aborted, outcome, reply, save, file, crashes>>

\* A listener of the events onPending publishes throws.
AnnouncingFails(id) ==
  /\ call[id] = "announcing"
  /\ call' = [call EXCEPT ![id] = "returned"]
  /\ WaitEnds(id, "failed")
  /\ UNCHANGED <<calls, aborted, pending, reply, save, file, crashes>>

\* Mutant: the queue does not listen to the signal.
AbortUnqueued(r) ==
  /\ ~aborted[r]
  /\ run[r] # "ended"
  /\ aborted' = [aborted EXCEPT ![r] = TRUE]
  /\ IF run[r] = "asking"
     THEN WaitEnds(Current(r), "aborted")
     ELSE UNCHANGED <<run, outcome>>
  /\ UNCHANGED <<calls, call, pending, reply, save, file, crashes>>

\* Mutant: the entry leaves the map and nobody wakes the run.
AbortUnresolved(r) ==
  /\ ~aborted[r]
  /\ run[r] # "ended"
  /\ aborted' = [aborted EXCEPT ![r] = TRUE]
  /\ pending' = pending \ {Current(r)}
  /\ UNCHANGED <<run, calls, call, outcome, reply, save, file, crashes>>

\* The signal of the run: the wait of resolvePermission hears it first, then
\* the listener of the queue takes the approval out of the map.  Neither
\* touches the record on disk.
Abort(r) ==
  /\ ~aborted[r]
  /\ run[r] # "ended"
  /\ aborted' = [aborted EXCEPT ![r] = TRUE]
  /\ IF run[r] = "asking"
     THEN /\ WaitEnds(Current(r), "aborted")
          /\ pending' = pending \ {Current(r)}
          /\ call' = [call EXCEPT ![Current(r)] =
                        IF @ = "waiting" THEN "returned" ELSE @]
     ELSE UNCHANGED <<run, outcome, pending, call>>
  /\ UNCHANGED <<calls, reply, save, file, crashes>>

\* Mutant: an approval that is not in the map any more can be answered again.
AnswerAgain(id, decision, ofSession) ==
  /\ call[id] \in {"waiting", "returned"}
  /\ pending' = pending \ {id}
  /\ call' = [call EXCEPT ![id] = "returned"]
  /\ WaitEnds(id, decision)
  /\ save' = [save EXCEPT ![id] = StartSave(decision)]
  /\ reply' = [reply EXCEPT ![id] = IF ofSession THEN decision ELSE "refused"]
  /\ UNCHANGED <<calls, aborted, file, crashes>>

\* POST /api/sessions/:id/approvals/:id for an approval in the map; any other
\* is answered with 404 and changes nothing.  The decision is taken before the
\* route compares the session of the approval with the one in the URL
\* ("ofSession"), and its save is not awaited.
ResolveApproval(id, decision, ofSession) ==
  /\ id \in pending
  /\ pending' = pending \ {id}
  /\ call' = [call EXCEPT ![id] = "returned"]
  /\ WaitEnds(id, decision)
  /\ save' = [save EXCEPT ![id] = StartSave(decision)]
  /\ reply' = [reply EXCEPT ![id] = IF ofSession THEN decision ELSE "refused"]
  /\ UNCHANGED <<calls, aborted, file, crashes>>

-----------------------------------------------------------------------------
(* SessionStore.saveApproval(): read, change, write, without a lock.       *)

ReadApprovals(id) ==
  /\ save[id].stage = "reading"
  /\ save' = [save EXCEPT ![id].stage = "opening",
                          ![id].list = [file.content EXCEPT ![id] = save[id].status]]
  /\ UNCHANGED <<run, calls, aborted, call, pending, outcome, reply, file, crashes>>

OpenApprovals(id) ==
  /\ save[id].stage = "opening"
  /\ save' = [save EXCEPT ![id].stage = "writing"]
  /\ file' = OpenedFile(NoRecords)
  /\ UNCHANGED <<run, calls, aborted, call, pending, outcome, reply, crashes>>

\* The first save of an approval is awaited: onPending comes next.
WriteApprovals(id) ==
  /\ save[id].stage = "writing"
  /\ file' \in WrittenOver(file, save[id].list, NoRecords)
  /\ save' = [save EXCEPT ![id] = NoSave]
  /\ call' = [call EXCEPT ![id] = IF @ = "saving" THEN "announcing" ELSE @]
  /\ UNCHANGED <<run, calls, aborted, pending, outcome, reply, crashes>>

\* A save that is awaited fails and approve() with it.  A failing save of a
\* decision is an unhandled rejection, which ends the process: see Crash.
SaveFails(id) ==
  /\ save[id].stage # "idle"
  /\ call[id] = "saving"
  /\ save' = [save EXCEPT ![id] = NoSave]
  /\ call' = [call EXCEPT ![id] = "returned"]
  /\ WaitEnds(id, "failed")
  /\ UNCHANGED <<calls, aborted, pending, reply, file, crashes>>

\* The process dies: runs, map and saves are gone, the file stays as it is.
Crash ==
  /\ crashes < MaxCrashes
  /\ crashes' = crashes + 1
  /\ run' = [r \in Runs |-> "ended"]
  /\ call' = [id \in Ids |-> IF call[id] = "none" THEN "none" ELSE "returned"]
  /\ pending' = {}
  /\ outcome' = [id \in Ids |->
                   IF call[id] \in {"none", "returned"} \/ outcome[id] # "none"
                   THEN outcome[id] ELSE "lost"]
  /\ save' = [id \in Ids |-> NoSave]
  /\ UNCHANGED <<calls, aborted, reply, file>>

SaveStep(id) == ReadApprovals(id) \/ OpenApprovals(id) \/ WriteApprovals(id)
CallStep(id) == SaveStep(id) \/ Register(id)
HandleApprovalRoute(id) == \E d \in Decisions, s \in BOOLEAN : ResolveApproval(id, d, s)

QueueNext ==
  \/ \E r \in Runs : ResolvePermission(r) \/ EndRun(r) \/ ResumeRun(r) \/ Abort(r)
  \/ \E id \in Ids : CallStep(id) \/ HandleApprovalRoute(id) \/ AnnouncingFails(id) \/ SaveFails(id)
  \/ Crash

QueueSpec == QueueInit /\ [][QueueNext]_queueVars

\* The event loop runs what is ready, and a client answers what waits.
FairSpec ==
  /\ QueueSpec
  /\ \A id \in Ids : WF_queueVars(CallStep(id)) /\ WF_queueVars(HandleApprovalRoute(id))
-----------------------------------------------------------------------------
(* Properties.                                                             *)

\* Whenever a run waits in resolvePermission its call is on its way to the map
\* or in it, and whatever is in the map is what a run waits for: no answer is
\* accepted for a call nobody waits for, and no run waits for a call that can
\* not be answered (createPrompter, cancelApproval, finishPending).
AskingRunIsServed ==
  /\ \A r \in Runs : run[r] = "asking" =>
       call[Current(r)] \in {"saving", "announcing", "waiting"}
  /\ \A id \in Ids : id \in pending <=> call[id] = "waiting"
  /\ \A id \in pending : run[Owner(id)] = "asking" /\ id = Current(Owner(id))

\* A decision a client was told to be accepted is the one the run got,
\* whatever aborts, failures and crashes came between (resolveApproval).
AcceptedAnswerCounts ==
  \A id \in Ids : reply[id] \in Decisions => outcome[id] = reply[id]

\* A decision in approvals.json is the one the run got, although the records
\* are written late, in any order and one over the other (saveApproval).
RecordsAreTrue ==
  \A id \in Ids : file.content[id] \in Decisions => outcome[id] = file.content[id]

\* After its signal was aborted no approval reaches a run, not even one that
\* was asked for at the time or is asked for afterwards (waitWithAbortSignal).
NoGrantAfterAbort ==
  [][\A id \in Ids : aborted[Owner(id)] /\ outcome'[id] = "approved" =>
       outcome[id] = "approved"]_queueVars

\* A run that asks is let go, when clients answer what is in the map: every
\* approval gets there and an answer wakes the run (createPrompter).
EveryAskReturns == \A r \in Runs : run[r] = "asking" ~> run[r] # "asking"
=============================================================================
