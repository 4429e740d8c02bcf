-------------------------- MODULE AgentLoop_proof --------------------------
(***************************************************************************)
(* Proofs about AgentLoop: the inductive invariant IInv relates the point  *)
(* a run is suspended at to the phase, step and budget of the kernel, and  *)
(* the type invariant and five safety properties follow from it, for every *)
(* step budget, set of modes, batch size and number of runs, crashes and   *)
(* faults.  The second part proves two more, about whole sessions.         *)
(***************************************************************************)
EXTENDS AgentLoop, TLAPS

\* Points inside the loop over one batch of tool calls.
BatchPoints == {"tool", "prehook", "exec", "verify", "post", "compacting"}

\* Points at which at least one call of the batch is unfinished.
CallPoints == BatchPoints \cup {"await", "verifying", "verified", "save"}

\* The budget of the kernel is the one the loop computes, in memory and on
\* disk, and the step respects it unless a resumption has just cut it.
BudgetAgrees ==
  /\ kernel.maxSteps = EffectiveMaxSteps(st)
  /\ disk.kernel.maxSteps = EffectiveMaxSteps(disk.st)
  /\ kernel.step > kernel.maxSteps => loop.step = 0 /\ used.runs > 1

KernelWellFormed ==
  /\ PendingMatchesPhase(kernel)
  /\ kernel.phase # "routing_model_response"
  /\ disk.kernel.phase # "routing_model_response"

\* A run that has not started a step yet, and the first one in particular.
BeforeFirstStep ==
  /\ at \in {"idle", "init"} => loop.step = 0
  /\ at # "idle" => used.runs >= 1
  /\ at = "idle" \/ (at \in {"init", "loop"} /\ loop.step = 0 /\ used.runs <= 1)
     => kernel = FreshKernel /\ st = FreshState

\* The kernel is in the step the loop is in.
StepAgrees ==
  /\ at \in WorkPoints \ {"init", "loop"} => loop.step > 0
  /\ at \in WorkPoints /\ loop.step > 0 => kernel.step = loop.step
  /\ at \in {"loop", "review_retry"} => loop.step < EffectiveMaxSteps(st)
  /\ at \in CallPoints => loop.left >= 1

\* A failed verification has granted steps and put the kernel in recovery.
InRecovery ==
  /\ kernel.phase = "recovering"
  /\ st.lastVer = "failed"
  /\ loop.step < EffectiveMaxSteps(st)

\* The phase of the kernel at every point of a working run.
PhaseAgrees ==
  /\ at \in {"init", "loop"} => kernel.phase \notin TerminalPhases
  /\ at = "loop" /\ loop.step > 0 =>
       kernel.phase \in {"assembling_prompt", "recovering"}
  /\ at = "assemble" =>
       /\ kernel.phase = "assembling_prompt"
       /\ kernel.closingTurn => loop.step > 1 \/ used.runs > 1
  /\ at = "model" => kernel.phase = "calling_model" /\ ~kernel.closingTurn
  /\ at \in {"complete", "review_retry", "summary"} =>
       kernel.phase = "finalizing"
  /\ at \in BatchPoints \cup {"batch_done"} =>
       kernel.phase \in {"handling_tools", "executing_tool"} \/ InRecovery
  /\ at = "await" => kernel.phase = "awaiting_approval"
  /\ at = "verifying" =>
       kernel.phase = "verifying" /\ kernel.pendingToolCalls >= 1
  /\ at = "verified" => kernel.phase = "executing_tool"
  /\ at = "save" => InRecovery

RejectionKnown ==
  /\ OnlyKnownRejections
  /\ rejected # NoRejection => at \in CompletionPoints

\* What completeRun has written so far.
OutcomeRecorded ==
  /\ result.ended => at \in {"hooks_end", "bus_finish"}
  /\ at \in {"kernel_end", "hooks_end"} \/ result.ended =>
       manifest = [status |-> result.status, budget |-> EffectiveMaxSteps(st)]
  /\ at = "hooks_end" \/ result.ended =>
       /\ disk.saved /\ disk.kernel = kernel
       /\ kernel.phase = TerminalPhaseOf(result.status)

IInv ==
  /\ TypeOK
  /\ BudgetAgrees
  /\ KernelWellFormed
  /\ BeforeFirstStep
  /\ StepAgrees
  /\ PhaseAgrees
  /\ KernelIsDurable
  /\ RejectionKnown
  /\ OutcomeRecorded

-----------------------------------------------------------------------------
(* Lemmas about the operators.                                             *)

\* A recovery attempt grants at least two steps.
LEMMA ExtraStepsGrant == ExtraSteps \in Nat /\ ExtraSteps >= 2
<1>1. BaseMaxSteps \div 4 \in Int
  BY LoopAssumption
<1> QED
  BY <1>1 DEF ExtraSteps, AtMost, AtLeast

\* The effective budget of a run is a positive number.
LEMMA EffectiveType ==
  ASSUME NEW s \in RunStates
  PROVE  EffectiveMaxSteps(s) \in Nat /\ EffectiveMaxSteps(s) >= 1
BY LoopAssumption DEF EffectiveMaxSteps, RunStates

\* resolveEffectiveStatus returns a result status.
LEMMA EffectiveStatusType ==
  ASSUME NEW s \in RunStates, NEW status \in ResultStatuses
  PROVE  EffectiveStatus(status, s) \in ResultStatuses
BY DEF EffectiveStatus, ResultStatuses, Upgradable

\* Sanitizing a kernel state makes it well-formed and leaves its budget.
LEMMA SanitizeRepairs ==
  ASSUME NEW k \in KernelState
  PROVE  /\ Sanitize(k) \in KernelState
         /\ Sanitize(k).maxSteps = k.maxSteps
         /\ Sanitize(k).phase \notin TerminalPhases
         /\ PendingMatchesPhase(Sanitize(k))
         /\ k.phase # "routing_model_response" =>
              Sanitize(k).phase # "routing_model_response"
<1>1. CASE k.phase \in TerminalPhases
  <2>1. Sanitize(k) = [k EXCEPT !.phase = "recovering",
                                !.pendingToolCalls = 0]
    BY <1>1 DEF Sanitize
  <2>2. [k EXCEPT !.phase = "recovering", !.pendingToolCalls = 0]
          \in KernelState
    BY DEF KernelState, Phases
  <2> QED
    BY <2>1, <2>2
       DEF KernelState, TerminalPhases, ToolPhases, PendingMatchesPhase
<1>2. CASE /\ k.phase \notin TerminalPhases
           /\ k.phase \in ToolPhases /\ k.pendingToolCalls < 1
  <2>1. Sanitize(k) = [k EXCEPT !.phase = "assembling_prompt",
                                !.pendingToolCalls = 0]
    BY <1>2 DEF Sanitize
  <2>2. [k EXCEPT !.phase = "assembling_prompt", !.pendingToolCalls = 0]
          \in KernelState
    BY DEF KernelState, Phases
  <2> QED
    BY <2>1, <2>2
       DEF KernelState, TerminalPhases, ToolPhases, PendingMatchesPhase
<1>3. CASE /\ k.phase \notin TerminalPhases
           /\ k.pendingToolCalls > 0 /\ k.phase \notin ToolPhases
  <2>1. Sanitize(k) = [k EXCEPT !.pendingToolCalls = 0]
    BY <1>3 DEF Sanitize
  <2> QED
    BY <1>3, <2>1 DEF KernelState, PendingMatchesPhase
<1>4. CASE /\ k.phase \notin TerminalPhases
           /\ k.pendingToolCalls < 1 => k.phase \notin ToolPhases
           /\ k.pendingToolCalls > 0 => k.phase \in ToolPhases
  <2>1. Sanitize(k) = k
    BY <1>4 DEF Sanitize
  <2> QED
    BY <1>4, <2>1 DEF KernelState, PendingMatchesPhase
<1> QED
  BY <1>1, <1>2, <1>3, <1>4 DEF KernelState

\* A finalized result is well-typed and not yet recorded.
LEMMA FinishResult ==
  ASSUME NEW s \in RunStates, NEW status \in ResultStatuses,
         NEW isolated \in BOOLEAN, Finish(status, s, isolated)
  PROVE  /\ at' = "publish_end"
         /\ ~result'.ended
         /\ result' \in Results
BY EffectiveStatusType DEF Finish, WorkVerified, ReviewFailed, Results

\* When a run stops working, whatever it was doing, the invariant holds
\* again if kernel, run state and rejection are consistent.
LEMMA CompletionStarts ==
  ASSUME IInv, at # "idle",
         NEW status \in ResultStatuses, NEW isolated \in BOOLEAN,
         st' \in RunStates, Finish(status, st', isolated),
         kernel' \in KernelState, PendingMatchesPhase(kernel'),
         kernel'.phase # "routing_model_response",
         kernel'.maxSteps = EffectiveMaxSteps(st'),
         kernel'.step > kernel'.maxSteps => loop.step = 0 /\ used.runs > 1,
         \/ disk' = disk \/ disk' = NoFile
         \/ disk' = [saved |-> TRUE, kernel |-> kernel', st |-> st'],
         manifest' \in Manifests,
         dirty' \in DirtyStates,
         used' \in Counters,
         used'.runs = used.runs,
         rejected' \in Rejections,
         OnlyKnownRejections',
         UNCHANGED <<verFile, loop, aborted>>
  PROVE  IInv'
<1> USE DEF IInv
<1>1. /\ at' = "publish_end"
      /\ ~result'.ended
      /\ result' \in Results
  BY FinishResult
<1>2. /\ disk' \in Files
      /\ disk'.kernel.maxSteps = EffectiveMaxSteps(disk'.st)
      /\ disk'.kernel.phase # "routing_model_response"
  <2>1. CASE disk' = disk
    BY <2>1 DEF TypeOK, BudgetAgrees, KernelWellFormed
  <2>2. CASE disk' = NoFile
    BY <2>2, LoopAssumption
       DEF NoFile, FreshKernel, FreshState, CreateRunKernelState, KernelState,
           Phases, RunStates, Verifications, EffectiveMaxSteps, Files
  <2>3. CASE disk' = [saved |-> TRUE, kernel |-> kernel', st |-> st']
    BY <2>3 DEF Files
  <2> QED
    BY <2>1, <2>2, <2>3 DEF Files
<1>3. TypeOK'
  BY <1>1, <1>2 DEF TypeOK, Points, CompletionPoints
<1>4. BudgetAgrees' /\ KernelWellFormed'
  BY <1>2 DEF BudgetAgrees, KernelWellFormed
<1>5. BeforeFirstStep' /\ StepAgrees' /\ PhaseAgrees' /\ KernelIsDurable'
  BY <1>1 DEF BeforeFirstStep, StepAgrees, PhaseAgrees, KernelIsDurable,
     WorkPoints, CaughtByHandler, CallPoints, BatchPoints
<1>6. RejectionKnown' /\ OutcomeRecorded'
  BY <1>1 DEF RejectionKnown, OutcomeRecorded, CompletionPoints
<1> QED
  BY <1>3, <1>4, <1>5, <1>6

\* While a run works the kernel has not thrown yet.
LEMMA WorkingUnrejected ==
  ASSUME IInv, at \in WorkPoints
  PROVE  rejected = NoRejection /\ used.runs >= 1 /\ at # "idle"
BY DEF IInv, RejectionKnown, BeforeFirstStep, WorkPoints, CaughtByHandler,
   CompletionPoints

\* A working run that ends without a kernel event.
LEMMA StopsQuietly ==
  ASSUME IInv, at \in WorkPoints,
         NEW status \in ResultStatuses, NEW isolated \in BOOLEAN,
         Finish(status, st, isolated),
         manifest' \in Manifests,
         UNCHANGED <<kernel, st, disk, verFile, loop, aborted, rejected,
                     dirty>>,
         used' \in Counters,
         used'.runs = used.runs
  PROVE  IInv'
<1>1. rejected = NoRejection /\ used.runs >= 1 /\ at # "idle"
  BY WorkingUnrejected
<1>2. Finish(status, st', isolated)
  BY DEF Finish
<1>3. /\ st \in RunStates /\ kernel \in KernelState
      /\ dirty \in DirtyStates
      /\ rejected \in Rejections
  BY DEF IInv, TypeOK
<1>4. OnlyKnownRejections'
  BY <1>1 DEF OnlyKnownRejections
<1>5. /\ PendingMatchesPhase(kernel)
      /\ kernel.phase # "routing_model_response"
      /\ kernel.maxSteps = EffectiveMaxSteps(st)
      /\ kernel.step > kernel.maxSteps => loop.step = 0 /\ used.runs > 1
  BY DEF IInv, BudgetAgrees, KernelWellFormed
<1> QED
  BY CompletionStarts, <1>1, <1>2, <1>3, <1>4, <1>5

\* The status of a run that ends in an exception.
LEMMA FailFinishes ==
  ASSUME NEW s, Fail(s)
  PROVE  \E status \in ResultStatuses, isolated \in BOOLEAN :
           Finish(status, s, isolated)
<1>1. (IF aborted THEN "cancelled" ELSE "failed") \in ResultStatuses
  BY DEF ResultStatuses
<1>2. (~(aborted /\ at \in CaughtByHandler)) \in BOOLEAN
  OBVIOUS
<1> QED
  BY <1>1, <1>2 DEF Fail

\* What a failed write leaves.
LEMMA FailedWriteEffect ==
  ASSUME used \in Counters, FailedWrite
  PROVE  /\ used' \in Counters
         /\ used'.runs = used.runs
         /\ disk' = disk \/ disk' = NoFile
<1>1. CASE UNCHANGED disk /\ used' = [used EXCEPT !.faults = @ + 1]
  BY <1>1 DEF Counters
<1>2. CASE disk' = NoFile
           /\ used' = [used EXCEPT !.faults = @ + 1, !.torn = @ + 1]
  <2>1. used.faults + 1 \in Nat /\ used.torn + 1 \in Nat
    BY DEF Counters
  <2>2. used' = [used EXCEPT !.faults = used.faults + 1,
                             !.torn = used.torn + 1]
    BY <1>2, Zenon
  <2> QED
    BY <1>2, <2>1, <2>2 DEF Counters
<1> QED
  BY <1>1, <1>2 DEF FailedWrite

\* The checkpoint of an accepted event fails.
LEMMA CheckpointFails ==
  ASSUME IInv, at \in WorkPoints,
         st' \in RunStates, Fail(st'),
         kernel' \in KernelState, PendingMatchesPhase(kernel'),
         kernel'.phase # "routing_model_response",
         kernel'.maxSteps = EffectiveMaxSteps(st'),
         kernel'.step <= kernel'.maxSteps,
         FailedWrite, manifest' = ManifestBeforeEvent,
         dirty' \in DirtyStates,
         UNCHANGED <<loop, rejected, verFile, aborted>>
  PROVE  IInv'
<1>1. rejected = NoRejection /\ used.runs >= 1 /\ at # "idle"
  BY WorkingUnrejected
<1>2. PICK status \in ResultStatuses, isolated \in BOOLEAN :
        Finish(status, st', isolated)
  BY FailFinishes
<1>3. /\ manifest' \in Manifests
      /\ rejected' \in Rejections
  BY DEF IInv, TypeOK, ManifestBeforeEvent, SessionStatuses, Manifests
<1>4. /\ used' \in Counters
      /\ used'.runs = used.runs
      /\ disk' = disk \/ disk' = NoFile
  BY FailedWriteEffect DEF IInv, TypeOK
<1>5. OnlyKnownRejections'
  BY <1>1 DEF OnlyKnownRejections
<1>6. ~(kernel'.step > kernel'.maxSteps)
  BY DEF KernelState
<1> QED
  BY CompletionStarts, <1>1, <1>2, <1>3, <1>4, <1>5, <1>6

\* The kernel throws on an event, in one of the known ways.
LEMMA EventThrows ==
  ASSUME IInv, at \in WorkPoints,
         st' \in RunStates, Fail(st'),
         EffectiveMaxSteps(st') = EffectiveMaxSteps(st),
         manifest' = ManifestBeforeEvent,
         rejected' \in Rejections,
         OnlyKnownRejections',
         UNCHANGED <<kernel, disk, loop, used, verFile, aborted, dirty>>
  PROVE  IInv'
<1>1. rejected = NoRejection /\ used.runs >= 1 /\ at # "idle"
  BY WorkingUnrejected
<1>2. PICK status \in ResultStatuses, isolated \in BOOLEAN :
        Finish(status, st', isolated)
  BY FailFinishes
<1>3. /\ manifest' \in Manifests
      /\ dirty' \in DirtyStates
      /\ used' \in Counters
      /\ kernel' \in KernelState
  BY DEF IInv, TypeOK, ManifestBeforeEvent, SessionStatuses, Manifests
<1>4. /\ PendingMatchesPhase(kernel')
      /\ kernel'.phase # "routing_model_response"
      /\ kernel'.maxSteps = EffectiveMaxSteps(st')
      /\ kernel'.step > kernel'.maxSteps => loop.step = 0 /\ used.runs > 1
  BY DEF IInv, BudgetAgrees, KernelWellFormed
<1> QED
  BY CompletionStarts, <1>1, <1>2, <1>3, <1>4

\* A working run that goes on working.
LEMMA WorkGoesOn ==
  ASSUME IInv, at \in WorkPoints, at' \in WorkPoints,
         kernel' \in KernelState, PendingMatchesPhase(kernel'),
         kernel'.phase # "routing_model_response",
         kernel'.maxSteps = EffectiveMaxSteps(st'),
         kernel'.step > kernel'.maxSteps => loop'.step = 0 /\ used.runs > 1,
         st' \in RunStates, loop' \in Loops, manifest' \in Manifests,
         dirty' \in DirtyStates, verFile' \in Verifications,
         \/ disk' = disk
         \/ disk' = [saved |-> TRUE, kernel |-> kernel', st |-> st'],
         UNCHANGED <<result, rejected, aborted, used>>,
         StepAgrees', PhaseAgrees', KernelIsDurable',
         at' \in {"init", "loop"} /\ loop'.step = 0 /\ used.runs <= 1 =>
           kernel' = FreshKernel /\ st' = FreshState,
         at' = "init" => loop'.step = 0
  PROVE  IInv'
<1> USE DEF IInv
<1>1. rejected = NoRejection /\ used.runs >= 1 /\ at # "idle"
  BY WorkingUnrejected
<1>2. /\ disk' \in Files
      /\ disk'.kernel.maxSteps = EffectiveMaxSteps(disk'.st)
      /\ disk'.kernel.phase # "routing_model_response"
  <2>1. CASE disk' = disk
    BY <2>1 DEF TypeOK, BudgetAgrees, KernelWellFormed
  <2>2. CASE disk' = [saved |-> TRUE, kernel |-> kernel', st |-> st']
    BY <2>2 DEF Files
  <2> QED
    BY <2>1, <2>2
<1>3. at' # "idle" /\ at' \notin CompletionPoints /\ at \notin CompletionPoints
  BY DEF WorkPoints, CaughtByHandler, CompletionPoints
<1>4. TypeOK'
  BY <1>2 DEF TypeOK, Points
<1>5. BudgetAgrees' /\ KernelWellFormed'
  BY <1>2 DEF BudgetAgrees, KernelWellFormed
<1>6. BeforeFirstStep'
  BY <1>1, <1>3 DEF BeforeFirstStep
<1>7. RejectionKnown'
  BY <1>1 DEF RejectionKnown, OnlyKnownRejections
<1>8. OutcomeRecorded'
  BY <1>3 DEF OutcomeRecorded, CompletionPoints
<1> QED
  BY <1>4, <1>5, <1>6, <1>7, <1>8

\* A step of a working run that leaves kernel and files alone.
LEMMA WorkGoesOnQuietly ==
  ASSUME IInv, at \in WorkPoints \ {"init", "loop"},
         at' \in WorkPoints \ {"init", "loop", "assemble", "model"}, Quiet,
         st' \in RunStates, EffectiveMaxSteps(st') = EffectiveMaxSteps(st),
         loop' \in Loops, loop'.step = loop.step,
         manifest' \in Manifests, dirty' \in DirtyStates,
         UNCHANGED result, StepAgrees', PhaseAgrees',
         at # "review_retry"
  PROVE  IInv'
<1>1. /\ kernel \in KernelState /\ verFile \in Verifications
      /\ PendingMatchesPhase(kernel)
      /\ kernel.phase # "routing_model_response"
      /\ kernel.maxSteps = EffectiveMaxSteps(st)
      /\ kernel.step > kernel.maxSteps => loop.step = 0 /\ used.runs > 1
      /\ disk.saved /\ disk.kernel = kernel
  BY DEF IInv, TypeOK, BudgetAgrees, KernelWellFormed, KernelIsDurable
<1>2. KernelIsDurable'
  BY <1>1 DEF KernelIsDurable, Quiet
<1> QED
  BY <1>1, <1>2, WorkGoesOn DEF Quiet

-----------------------------------------------------------------------------
(* The actions preserve the invariant: start of a run, head of the loop.   *)
(* An action that raises a kernel event has three outcomes: the event is   *)
(* applied, its checkpoint fails, or the kernel throws on it.              *)

LEMMA InitHolds == Init => IInv
<1> SUFFICES ASSUME Init PROVE IInv
  OBVIOUS
<1>1. FreshKernel \in KernelState /\ FreshState \in RunStates
  BY LoopAssumption
     DEF FreshKernel, FreshState, CreateRunKernelState, KernelState, Phases,
         RunStates, Verifications
<1>2. TypeOK
  <2>1. kernel \in KernelState /\ st \in RunStates /\ disk \in Files
    <3>1. NoFile \in Files
      BY <1>1 DEF NoFile, Files
    <3> QED
      BY <1>1, <3>1 DEF Init
  <2>2. loop \in Loops
    <3>1. PICK mode \in Modes : loop = FreshLoop(mode)
      BY DEF Init
    <3> QED
      BY <3>1 DEF FreshLoop, Loops
  <2>3. manifest \in Manifests /\ verFile \in Verifications
    BY DEF Init, Manifests, Verifications
  <2>4. at \in Points /\ aborted \in BOOLEAN /\ dirty \in DirtyStates
    BY DEF Init, Points, DirtyStates
  <2>5. result \in Results /\ rejected \in Rejections
    BY DEF Init, NoResult, Results, NoRejection, Rejections, RejectableEvents
  <2>6. used \in Counters
    BY DEF Init, Counters
  <2> QED
    BY <2>1, <2>2, <2>3, <2>4, <2>5, <2>6 DEF TypeOK
<1>3. BudgetAgrees /\ KernelWellFormed
  BY LoopAssumption
     DEF Init, BudgetAgrees, KernelWellFormed, NoFile, FreshKernel, FreshState,
         CreateRunKernelState, EffectiveMaxSteps, PendingMatchesPhase,
         ToolPhases
<1>4. BeforeFirstStep /\ StepAgrees /\ PhaseAgrees /\ KernelIsDurable
  BY DEF Init, BeforeFirstStep, StepAgrees, PhaseAgrees, KernelIsDurable,
     WorkPoints, CaughtByHandler, CallPoints, BatchPoints, FreshLoop
<1>5. RejectionKnown /\ OutcomeRecorded
  BY DEF Init, RejectionKnown, OnlyKnownRejections, OutcomeRecorded, NoResult
<1> QED
  BY <1>2, <1>3, <1>4, <1>5 DEF IInv

\* What restoreRunStateForSession puts in memory is well-formed.
LEMMA RestoreWellFormed ==
  ASSUME IInv, Restore
  PROVE  /\ kernel' \in KernelState /\ st' \in RunStates
         /\ PendingMatchesPhase(kernel')
         /\ kernel'.phase # "routing_model_response"
         /\ kernel'.phase \notin TerminalPhases
         /\ kernel'.maxSteps = EffectiveMaxSteps(st')
<1> DEFINE k == IF disk.saved THEN Sanitize(disk.kernel) ELSE FreshKernel
           s == IF disk.saved THEN disk.st
                ELSE [FreshState EXCEPT !.lastVer = verFile]
<1>1. /\ disk.kernel \in KernelState /\ disk.st \in RunStates
      /\ disk.kernel.maxSteps = EffectiveMaxSteps(disk.st)
      /\ disk.kernel.phase # "routing_model_response"
      /\ verFile \in Verifications
      /\ manifest.budget \in Nat
  BY DEF IInv, TypeOK, Files, Manifests, BudgetAgrees, KernelWellFormed
<1>2. /\ k \in KernelState /\ s \in RunStates
      /\ PendingMatchesPhase(k)
      /\ k.phase # "routing_model_response"
      /\ k.phase \notin TerminalPhases
      /\ k.maxSteps = EffectiveMaxSteps(s)
  <2>1. CASE disk.saved
    BY <1>1, <2>1, SanitizeRepairs
  <2>2. CASE ~disk.saved
    <3>1. k = FreshKernel /\ s = [FreshState EXCEPT !.lastVer = verFile]
      BY <2>2
    <3> HIDE DEF k, s
    <3>2. s \in RunStates /\ s.extra = 0
      BY <1>1, <3>1 DEF FreshState, RunStates, Verifications
    <3>3. k \in KernelState /\ k.maxSteps = BaseMaxSteps
          /\ k.phase = "initializing" /\ k.pendingToolCalls = 0
      BY <3>1, LoopAssumption
         DEF FreshKernel, CreateRunKernelState, KernelState, Phases
    <3> QED
      BY <3>2, <3>3, LoopAssumption
         DEF PendingMatchesPhase, ToolPhases, TerminalPhases, EffectiveMaxSteps
  <2> QED
    BY <2>1, <2>2
<1>3. kernel' = RestoredKernel(k) /\ st' = RestoredState(s)
  BY DEF Restore
<1> HIDE DEF k, s
<1>4. CASE ManifestExtra > 0
  <2>1. /\ kernel' = [k EXCEPT !.maxSteps = manifest.budget]
        /\ st' = [s EXCEPT !.extra = ManifestExtra]
    BY <1>3, <1>4 DEF RestoredKernel, RestoredState
  <2>2. ManifestExtra \in Nat /\ BaseMaxSteps + ManifestExtra = manifest.budget
    BY <1>1, <1>4, LoopAssumption DEF ManifestExtra
  <2>3. kernel' \in KernelState /\ st' \in RunStates
    BY <1>1, <1>2, <2>1, <2>2 DEF KernelState, RunStates
  <2>4. kernel'.phase = k.phase /\ kernel'.pendingToolCalls = k.pendingToolCalls
        /\ kernel'.maxSteps = manifest.budget /\ st'.extra = ManifestExtra
    BY <1>2, <2>1 DEF KernelState, RunStates
  <2> QED
    BY <1>2, <2>2, <2>3, <2>4 DEF PendingMatchesPhase, EffectiveMaxSteps
<1>5. CASE ~(ManifestExtra > 0)
  BY <1>2, <1>3, <1>5 DEF RestoredKernel, RestoredState
<1> QED
  BY <1>4, <1>5

LEMMA StartRunKeeps ==
  ASSUME IInv, NEW mode \in Modes, StartRun(mode)
  PROVE  IInv'
<1> USE DEF IInv
<1>1. /\ at = "idle" /\ at' = "init" /\ loop' = FreshLoop(mode)
      /\ used' = [used EXCEPT !.runs = @ + 1]
      /\ used.runs \in Nat
      /\ UNCHANGED <<disk, verFile, aborted, rejected, dirty, result>>
  BY DEF StartRun, GoTo, TypeOK, Counters
<1>2. /\ loop' \in Loops /\ loop'.step = 0
      /\ used' \in Counters /\ used'.runs = used.runs + 1
  BY <1>1 DEF TypeOK, FreshLoop, Loops, Counters
<1>3. /\ kernel' \in KernelState /\ st' \in RunStates
      /\ PendingMatchesPhase(kernel')
      /\ kernel'.phase # "routing_model_response"
      /\ kernel'.phase \notin TerminalPhases
      /\ kernel'.maxSteps = EffectiveMaxSteps(st')
      /\ manifest' \in Manifests
      /\ kernel'.step > kernel'.maxSteps => used.runs > 0
      /\ used.runs = 0 => kernel' = FreshKernel /\ st' = FreshState
  <2>1. CASE used.runs = 0
    <3>1. /\ kernel = FreshKernel /\ st = FreshState
          /\ kernel' = kernel /\ st' = st
          /\ manifest' = [status |-> "running", budget |-> 0]
      BY <1>1, <2>1 DEF StartRun, BeforeFirstStep
    <3>2. manifest' \in Manifests
      BY <3>1 DEF Manifests, SessionStatuses
    <3>3. /\ kernel.phase = "initializing" /\ kernel.step = 0
          /\ kernel.maxSteps = BaseMaxSteps
      BY <3>1 DEF FreshKernel, CreateRunKernelState
    <3> QED
      BY <3>1, <3>2, <3>3, LoopAssumption
         DEF TypeOK, BudgetAgrees, KernelWellFormed, TerminalPhases
  <2>2. CASE used.runs # 0
    <3>1. Restore /\ manifest' = manifest
      BY <2>2 DEF StartRun
    <3> QED
      BY <1>1, <2>2, <3>1, RestoreWellFormed DEF TypeOK
  <2> QED
    BY <2>1, <2>2
<1>4. TypeOK'
  BY <1>1, <1>2, <1>3 DEF TypeOK, Points, WorkPoints
<1>5. BudgetAgrees' /\ KernelWellFormed'
  BY <1>1, <1>2, <1>3 DEF BudgetAgrees, KernelWellFormed
<1>6. BeforeFirstStep'
  BY <1>1, <1>2, <1>3 DEF BeforeFirstStep
<1>7. StepAgrees' /\ PhaseAgrees' /\ KernelIsDurable'
  BY <1>1, <1>2, <1>3
     DEF StepAgrees, PhaseAgrees, KernelIsDurable, CallPoints, BatchPoints
<1>8. RejectionKnown' /\ OutcomeRecorded'
  BY <1>1 DEF RejectionKnown, OutcomeRecorded, OnlyKnownRejections,
     CompletionPoints
<1> QED
  BY <1>4, <1>5, <1>6, <1>7, <1>8

LEMMA InitializeSessionKeeps ==
  ASSUME IInv, InitializeSession
  PROVE  IInv'
<1>1. /\ at = "init" /\ at' = "loop"
      /\ UNCHANGED <<kernel, disk, verFile, aborted, rejected, used, st, loop,
                     dirty, result>>
      /\ manifest' = [manifest EXCEPT !.status = "running"]
  BY DEF InitializeSession, GoTo, Quiet, SetStatus
<1>2. /\ loop.step = 0
      /\ kernel.phase \notin TerminalPhases
      /\ st \in RunStates
  BY <1>1 DEF IInv, BeforeFirstStep, PhaseAgrees, TypeOK
<1>3. manifest' \in Manifests
  BY <1>1 DEF IInv, TypeOK, Manifests, SessionStatuses
<1>4. StepAgrees' /\ PhaseAgrees' /\ KernelIsDurable'
  BY <1>1, <1>2, EffectiveType
     DEF StepAgrees, PhaseAgrees, KernelIsDurable, CallPoints, BatchPoints
<1>5. loop'.step = 0 /\ used.runs <= 1 => kernel' = FreshKernel /\ st' = FreshState
  BY <1>1, <1>2 DEF IInv, BeforeFirstStep
<1>6. at \in WorkPoints /\ at' \in WorkPoints
  BY <1>1 DEF WorkPoints
<1> QED
  BY <1>1, <1>3, <1>4, <1>5, <1>6, WorkGoesOn
     DEF IInv, TypeOK, BudgetAgrees, KernelWellFormed

LEMMA LoopHeadKeeps ==
  ASSUME IInv, LoopHead
  PROVE  IInv'
<1> DEFINE next == StepStarted(kernel, loop.step + 1, EffectiveMaxSteps(st),
                               st.closing)
<1>1. /\ at = "loop" /\ at \in WorkPoints
      /\ rejected = NoRejection /\ used.runs >= 1
      /\ st \in RunStates /\ kernel \in KernelState /\ loop \in Loops
      /\ dirty \in DirtyStates /\ verFile \in Verifications
      /\ manifest \in Manifests
      /\ loop.step < EffectiveMaxSteps(st)
      /\ PendingMatchesPhase(kernel)
      /\ kernel.phase \notin TerminalPhases
      /\ kernel.phase # "routing_model_response"
  BY WorkingUnrejected
     DEF LoopHead, WorkPoints, IInv, TypeOK, StepAgrees, KernelWellFormed,
         PhaseAgrees
<1>2. /\ EffectiveMaxSteps(st) \in Nat /\ EffectiveMaxSteps(st) >= 1
      /\ loop.step \in Nat /\ st.closing \in BOOLEAN
  BY <1>1, EffectiveType DEF Loops, RunStates
<1>3. /\ next \in KernelState
      /\ next.phase = "assembling_prompt" /\ next.step = loop.step + 1
      /\ next.maxSteps = EffectiveMaxSteps(st)
      /\ next.closingTurn = st.closing
      /\ next.pendingToolCalls = kernel.pendingToolCalls
  <2>1. loop.step + 1 \in Nat
    BY <1>2
  <2>2. next.phase = "assembling_prompt" /\ next.step = loop.step + 1
        /\ next.maxSteps = EffectiveMaxSteps(st)
        /\ next.pendingToolCalls = kernel.pendingToolCalls
        /\ next.closingTurn = st.closing
    BY <1>1 DEF StepStarted, KernelState
  <2>3. next \in KernelState
    BY <1>1, <1>2, <2>1 DEF StepStarted, KernelState, Phases
  <2> QED
    BY <2>2, <2>3
<1> HIDE DEF next
<1>4. CASE /\ Accepts(kernel, "step_started", next, "assemble_prompt")
           /\ kernel' = next /\ st' = st
           /\ disk' = [saved |-> TRUE, kernel |-> next, st |-> st]
           /\ at' = "assemble"
           /\ loop' = [loop EXCEPT !.step = @ + 1]
           /\ UNCHANGED <<manifest, verFile, aborted, result, rejected, used,
                          dirty>>
  <2>1. loop' \in Loops /\ loop'.step = loop.step + 1
    BY <1>1, <1>4 DEF Loops
  <2>2. PendingMatchesPhase(next)
    BY <1>4 DEF Accepts, RunKernelInvariants
  <2>3. next.closingTurn => loop.step + 1 > 1 \/ used.runs > 1
    <3>1. CASE loop.step = 0 /\ used.runs <= 1
      <4>1. st = FreshState
        BY <1>1, <3>1 DEF IInv, BeforeFirstStep
      <4>2. ~st.closing
        BY <4>1 DEF FreshState
      <4> QED
        BY <1>3, <4>2
    <3>2. CASE ~(loop.step = 0 /\ used.runs <= 1)
      BY <1>2, <3>2 DEF IInv, TypeOK, Counters
    <3> QED
      BY <3>1, <3>2
  <2>4. StepAgrees' /\ PhaseAgrees' /\ KernelIsDurable'
    BY <1>2, <1>3, <1>4, <2>1, <2>3
       DEF StepAgrees, PhaseAgrees, KernelIsDurable, CallPoints, BatchPoints
  <2>5. /\ at' \in WorkPoints /\ next.step <= next.maxSteps
        /\ next.step \in Nat /\ next.maxSteps \in Nat
    BY <1>1, <1>2, <1>3, <1>4 DEF WorkPoints
  <2> QED
    BY <1>1, <1>3, <1>4, <2>1, <2>2, <2>4, <2>5, WorkGoesOn
<1>5. CASE /\ Accepts(kernel, "step_started", next, "assemble_prompt")
           /\ kernel' = next /\ st' = st /\ FailedWrite /\ Fail(st)
           /\ manifest' = ManifestBeforeEvent
           /\ UNCHANGED <<loop, rejected, verFile, aborted, dirty>>
  <2>1. PendingMatchesPhase(next)
    BY <1>5 DEF Accepts, RunKernelInvariants
  <2>2. Fail(st')
    BY <1>5
  <2> QED
    BY <1>1, <1>2, <1>3, <1>5, <2>1, <2>2, CheckpointFails
<1>6. CASE /\ ~Accepts(kernel, "step_started", next, "assemble_prompt")
           /\ rejected' = [event |-> "step_started", phase |-> kernel.phase]
           /\ Fail(st) /\ st' = st /\ manifest' = ManifestBeforeEvent
           /\ UNCHANGED <<kernel, disk, loop, used, verFile, aborted, dirty>>
  <2>1. kernel.phase \notin EventAllowedPhases("step_started")
    <3> SUFFICES ASSUME kernel.phase \in EventAllowedPhases("step_started")
                 PROVE  Accepts(kernel, "step_started", next, "assemble_prompt")
      BY <1>6
    <3>1. kernel.pendingToolCalls = 0
      BY <1>1 DEF EventAllowedPhases, PendingMatchesPhase, ToolPhases,
         KernelState
    <3>2. PendingMatchesPhase(next)
      BY <1>3, <3>1 DEF PendingMatchesPhase, ToolPhases
    <3> QED
      BY <1>1, <1>2, <1>3, <3>2
         DEF Accepts, RunKernelInvariants, StepWithinBudget, TerminalPhases
  <2>2. kernel.phase \in StuckPhases
    BY <1>1, <2>1 DEF EventAllowedPhases, StuckPhases, ToolPhases,
       KernelState, Phases, TerminalPhases
  <2>3. loop.step = 0 /\ used.runs > 1
    <3>1. ~(loop.step > 0)
      BY <1>1, <2>1 DEF IInv, PhaseAgrees, EventAllowedPhases
    <3>2. ~(used.runs <= 1)
      <4> SUFFICES ASSUME used.runs <= 1 PROVE FALSE
        OBVIOUS
      <4>1. kernel = FreshKernel
        BY <1>1, <1>2, <3>1 DEF IInv, BeforeFirstStep
      <4> QED
        BY <4>1, <2>1 DEF FreshKernel, CreateRunKernelState, EventAllowedPhases
    <3> QED
      BY <1>2, <3>1, <3>2 DEF IInv, TypeOK, Counters
  <2>4. rejected' \in Rejections
    BY <1>1, <1>6 DEF Rejections, RejectableEvents, KernelState
  <2>5. OnlyKnownRejections'
    BY <1>6, <2>2, <2>3 DEF OnlyKnownRejections
  <2>6. Fail(st')
    BY <1>6
  <2> QED
    BY <1>1, <1>6, <2>4, <2>5, <2>6, EventThrows
<1> QED
  <2>1. Raise("step_started", next, "assemble_prompt", st,
              /\ GoTo("assemble")
              /\ loop' = [loop EXCEPT !.step = @ + 1]
              /\ UNCHANGED manifest)
        /\ UNCHANGED dirty
    BY <1>1 DEF LoopHead, next
  <2> QED
    BY <2>1, <1>4, <1>5, <1>6 DEF Raise, GoTo

LEMMA AssemblePromptKeeps ==
  ASSUME IInv, AssemblePrompt
  PROVE  IInv'
<1> DEFINE enter == ShouldEnterClosingTurn(loop.mode, loop.step, st)
           s == [st EXCEPT !.closing = @ \/ enter]
           next == PromptAssembled(kernel)
<1>1. /\ at = "assemble" /\ at \in WorkPoints
      /\ rejected = NoRejection /\ used.runs >= 1
      /\ st \in RunStates /\ kernel \in KernelState /\ loop \in Loops
      /\ dirty \in DirtyStates /\ verFile \in Verifications
      /\ manifest \in Manifests
      /\ PendingMatchesPhase(kernel)
      /\ kernel.phase = "assembling_prompt"
      /\ kernel.closingTurn => loop.step > 1 \/ used.runs > 1
      /\ kernel.maxSteps = EffectiveMaxSteps(st)
      /\ loop.step > 0
      /\ kernel.step <= kernel.maxSteps
  BY WorkingUnrejected
     DEF AssemblePrompt, WorkPoints, IInv, TypeOK, StepAgrees, BudgetAgrees,
         KernelWellFormed, PhaseAgrees, KernelState, Loops
<1>2. enter \in BOOLEAN
  BY DEF ShouldEnterClosingTurn
<1>3. s \in RunStates /\ s.extra = st.extra
  BY <1>1, <1>2 DEF RunStates
<1>4. /\ next \in KernelState
      /\ next.phase = "calling_model" /\ next.step = kernel.step
      /\ next.maxSteps = kernel.maxSteps
      /\ next.closingTurn = kernel.closingTurn
      /\ next.pendingToolCalls = kernel.pendingToolCalls
  BY <1>1 DEF PromptAssembled, KernelState, Phases
<1>5. /\ EffectiveMaxSteps(s) = EffectiveMaxSteps(st)
      /\ EffectiveMaxSteps(st) \in Nat /\ EffectiveMaxSteps(st) >= 1
      /\ kernel.step \in Nat
  BY <1>1, <1>3, EffectiveType DEF EffectiveMaxSteps, KernelState
<1>6. PendingMatchesPhase(next)
  BY <1>1, <1>4 DEF PendingMatchesPhase, ToolPhases
<1>7. Raise("prompt_assembled", next, "call_model", s,
            /\ GoTo("model")
            /\ loop' = [loop EXCEPT !.force = enter]
            /\ UNCHANGED manifest)
      /\ UNCHANGED dirty
  BY DEF AssemblePrompt
<1> HIDE DEF enter, s, next
<1>8. CASE /\ Accepts(kernel, "prompt_assembled", next, "call_model")
           /\ kernel' = next /\ st' = s
           /\ disk' = [saved |-> TRUE, kernel |-> next, st |-> s]
           /\ at' = "model"
           /\ loop' = [loop EXCEPT !.force = enter]
           /\ UNCHANGED <<manifest, verFile, aborted, result, rejected, used,
                          dirty>>
  <2>1. loop' \in Loops /\ loop'.step = loop.step
    BY <1>1, <1>2, <1>8 DEF Loops
  <2>2. ~next.closingTurn
    BY <1>8 DEF Accepts, RunKernelInvariants
  <2>3. StepAgrees' /\ PhaseAgrees' /\ KernelIsDurable'
    BY <1>1, <1>4, <1>8, <2>1, <2>2
       DEF StepAgrees, PhaseAgrees, KernelIsDurable, CallPoints, BatchPoints,
           IInv
  <2>4. at' \in WorkPoints /\ ~(next.step > next.maxSteps)
    BY <1>1, <1>4, <1>5, <1>8 DEF WorkPoints
  <2> QED
    BY <1>1, <1>3, <1>4, <1>5, <1>6, <1>8, <2>1, <2>3, <2>4, WorkGoesOn
<1>9. CASE /\ kernel' = next /\ st' = s /\ FailedWrite /\ Fail(s)
           /\ manifest' = ManifestBeforeEvent
           /\ UNCHANGED <<loop, rejected, verFile, aborted, dirty>>
  <2>1. Fail(st')
    BY <1>9
  <2> QED
    BY <1>1, <1>3, <1>4, <1>5, <1>6, <1>9, <2>1, CheckpointFails
<1>10. CASE /\ ~Accepts(kernel, "prompt_assembled", next, "call_model")
            /\ rejected' = [event |-> "prompt_assembled", phase |-> kernel.phase]
            /\ Fail(s) /\ st' = s /\ manifest' = ManifestBeforeEvent
            /\ UNCHANGED <<kernel, disk, loop, used, verFile, aborted, dirty>>
  <2>1. kernel.closingTurn
    <3> SUFFICES ASSUME ~kernel.closingTurn
                 PROVE  Accepts(kernel, "prompt_assembled", next, "call_model")
      BY <1>10
    <3>1. kernel.phase \in EventAllowedPhases("prompt_assembled")
          /\ kernel.phase \notin TerminalPhases
      BY <1>1 DEF EventAllowedPhases, TerminalPhases
    <3> QED
      BY <1>1, <1>4, <1>5, <1>6, <3>1
         DEF Accepts, RunKernelInvariants, StepWithinBudget, TerminalPhases
  <2>2. rejected' \in Rejections
    BY <1>1, <1>10 DEF Rejections, RejectableEvents, Phases
  <2>3. OnlyKnownRejections'
    BY <1>1, <1>10, <2>1 DEF OnlyKnownRejections
  <2>4. Fail(st')
    BY <1>10
  <2> QED
    BY <1>1, <1>3, <1>5, <1>10, <2>2, <2>3, <2>4, EventThrows
<1> QED
  BY <1>7, <1>8, <1>9, <1>10 DEF Raise, GoTo

\* What the invariant says of a run inside a step.
LEMMA InStep ==
  ASSUME IInv, at \in WorkPoints \ {"init", "loop"}
  PROVE  /\ rejected = NoRejection /\ used.runs >= 1
         /\ st \in RunStates /\ kernel \in KernelState /\ loop \in Loops
         /\ dirty \in DirtyStates /\ verFile \in Verifications
         /\ manifest \in Manifests
         /\ PendingMatchesPhase(kernel)
         /\ kernel.phase # "routing_model_response"
         /\ kernel.maxSteps = EffectiveMaxSteps(st)
         /\ kernel.maxSteps \in Nat /\ kernel.maxSteps >= 1
         /\ loop.step \in Nat /\ loop.step > 0
         /\ kernel.step = loop.step /\ kernel.step <= kernel.maxSteps
         /\ StepAgrees /\ PhaseAgrees
         /\ disk.saved \/ at = "review_retry"
         /\ disk.kernel = kernel \/ at = "review_retry"
<1>1. /\ st \in RunStates /\ kernel \in KernelState /\ loop \in Loops
      /\ loop.step > 0 /\ loop.step \in Nat
  BY DEF IInv, TypeOK, StepAgrees, Loops
<1> QED
  BY <1>1, WorkingUnrejected, EffectiveType
     DEF IInv, TypeOK, StepAgrees, BudgetAgrees, KernelWellFormed,
         KernelIsDurable, KernelState

-----------------------------------------------------------------------------
(* The model call and completion from its text.                            *)

LEMMA ModelRetriesKeeps ==
  ASSUME IInv, ModelRetries
  PROVE  IInv'
<1>1. /\ at = "model" /\ at' = "model"
      /\ UNCHANGED <<kernel, disk, verFile, aborted, rejected, used, st, loop,
                     dirty, result>>
      /\ manifest' = [manifest EXCEPT !.status = "retrying"]
  BY DEF ModelRetries, GoTo, Quiet, SetStatus
<1>2. at \in WorkPoints \ {"init", "loop"}
  BY <1>1 DEF WorkPoints, CaughtByHandler
<1>3. manifest' \in Manifests
  BY <1>1 DEF IInv, TypeOK, Manifests, SessionStatuses
<1>4. StepAgrees' /\ PhaseAgrees' /\ KernelIsDurable'
  BY <1>1, InStep, <1>2
     DEF StepAgrees, PhaseAgrees, KernelIsDurable, CallPoints, BatchPoints
<1> QED
  BY <1>1, <1>2, <1>3, <1>4, InStep, WorkGoesOn

LEMMA ModelFailsKeeps ==
  ASSUME IInv, ModelFails
  PROVE  IInv'
<1>1. at \in WorkPoints
  BY DEF ModelFails, WorkPoints
<1>2. PICK status \in ResultStatuses, isolated \in BOOLEAN :
        Finish(status, st, isolated)
  BY FailFinishes DEF ModelFails
<1>3. used' \in Counters /\ used' = used
  BY DEF ModelFails, Quiet, IInv, TypeOK
<1>4. manifest' \in Manifests
  BY DEF ModelFails, ManifestBeforeEvent, IInv, TypeOK, Manifests,
         SessionStatuses
<1> QED
  BY <1>1, <1>2, <1>3, <1>4, StopsQuietly DEF ModelFails, Quiet

\* Both events of a model response: the kernel is calling the model and is
\* not in a closing turn, so neither is ever thrown on.
LEMMA ModelAsksForToolsKeeps ==
  ASSUME IInv, NEW n \in BatchSizes, ModelAsksForTools(n)
  PROVE  IInv'
<1> DEFINE next == ToolCallsRequested(kernel, n)
<1>1. /\ at = "model" /\ at \in WorkPoints \ {"init", "loop"}
      /\ kernel.phase = "calling_model" /\ ~kernel.closingTurn
      /\ n \in Nat /\ n >= 1
  BY LoopAssumption DEF ModelAsksForTools, WorkPoints, IInv, PhaseAgrees,
     BatchSizes
<1>2. /\ next \in KernelState
      /\ next.phase = "handling_tools" /\ next.step = kernel.step
      /\ next.maxSteps = kernel.maxSteps
      /\ next.closingTurn = kernel.closingTurn
      /\ next.pendingToolCalls = n
  BY <1>1, InStep DEF ToolCallsRequested, KernelState, Phases, ToolPhases
<1>3. PendingMatchesPhase(next)
  BY <1>1, <1>2 DEF PendingMatchesPhase, ToolPhases
<1>4. Accepts(kernel, "model_response_received", next, "handle_tool_calls")
  BY <1>1, <1>2, <1>3, InStep
     DEF Accepts, RunKernelInvariants, StepWithinBudget, TerminalPhases,
         EventAllowedPhases
<1>5. Raise("model_response_received", next, "handle_tool_calls", st,
            /\ GoTo("tool")
            /\ loop' = [loop EXCEPT !.left = n]
            /\ SetStatus("running"))
      /\ UNCHANGED dirty
  BY DEF ModelAsksForTools
<1> HIDE DEF next
<1>6. CASE /\ kernel' = next /\ st' = st
           /\ disk' = [saved |-> TRUE, kernel |-> next, st |-> st]
           /\ at' = "tool"
           /\ loop' = [loop EXCEPT !.left = n]
           /\ manifest' = [manifest EXCEPT !.status = "running"]
           /\ UNCHANGED <<verFile, aborted, result, rejected, used, dirty>>
  <2>1. loop' \in Loops /\ loop'.step = loop.step /\ loop'.left = n
    BY <1>1, <1>6, InStep DEF Loops
  <2>2. manifest' \in Manifests
    BY <1>1, <1>6, InStep DEF Manifests, SessionStatuses
  <2>3. StepAgrees' /\ PhaseAgrees' /\ KernelIsDurable'
    BY <1>1, <1>2, <1>6, <2>1, InStep
       DEF StepAgrees, PhaseAgrees, KernelIsDurable, CallPoints, BatchPoints
  <2>4. at' \in WorkPoints /\ ~(next.step > next.maxSteps)
    BY <1>1, <1>2, <1>6, InStep DEF WorkPoints, CaughtByHandler
  <2> QED
    BY <1>1, <1>2, <1>3, <1>6, <2>1, <2>2, <2>3, <2>4, InStep, WorkGoesOn
<1>7. CASE /\ kernel' = next /\ st' = st /\ FailedWrite /\ Fail(st)
           /\ manifest' = ManifestBeforeEvent
           /\ UNCHANGED <<loop, rejected, verFile, aborted, dirty>>
  <2>1. Fail(st')
    BY <1>7
  <2> QED
    BY <1>1, <1>2, <1>3, <1>7, <2>1, InStep, CheckpointFails
<1> QED
  BY <1>4, <1>5, <1>6, <1>7 DEF Raise, GoTo, SetStatus

LEMMA ModelAnswersKeeps ==
  ASSUME IInv, NEW text \in BOOLEAN, ModelAnswers(text)
  PROVE  IInv'
<1> DEFINE next == FinalTextReceived(kernel)
<1>1. /\ at = "model" /\ at \in WorkPoints \ {"init", "loop"}
      /\ kernel.phase = "calling_model"
  BY DEF ModelAnswers, WorkPoints, IInv, PhaseAgrees
<1>2. /\ next \in KernelState
      /\ next.phase = "finalizing" /\ next.step = kernel.step
      /\ next.maxSteps = kernel.maxSteps
      /\ next.pendingToolCalls = 0
  BY <1>1, InStep DEF FinalTextReceived, KernelState, Phases
<1>3. PendingMatchesPhase(next)
  BY <1>1, <1>2 DEF PendingMatchesPhase, ToolPhases
<1>4. Accepts(kernel, "model_response_received", next, "complete_from_model")
  BY <1>1, <1>2, <1>3, InStep
     DEF Accepts, RunKernelInvariants, StepWithinBudget, TerminalPhases,
         EventAllowedPhases
<1>5. Raise("model_response_received", next, "complete_from_model", st,
            /\ GoTo("complete")
            /\ loop' = [loop EXCEPT !.text = text]
            /\ SetStatus("running"))
      /\ UNCHANGED dirty
  BY DEF ModelAnswers
<1> HIDE DEF next
<1>6. CASE /\ kernel' = next /\ st' = st
           /\ disk' = [saved |-> TRUE, kernel |-> next, st |-> st]
           /\ at' = "complete"
           /\ loop' = [loop EXCEPT !.text = text]
           /\ manifest' = [manifest EXCEPT !.status = "running"]
           /\ UNCHANGED <<verFile, aborted, result, rejected, used, dirty>>
  <2>1. loop' \in Loops /\ loop'.step = loop.step
    BY <1>1, <1>6, InStep DEF Loops
  <2>2. manifest' \in Manifests
    BY <1>1, <1>6, InStep DEF Manifests, SessionStatuses
  <2>3. StepAgrees' /\ PhaseAgrees' /\ KernelIsDurable'
    BY <1>1, <1>2, <1>6, <2>1, InStep
       DEF StepAgrees, PhaseAgrees, KernelIsDurable, CallPoints, BatchPoints
  <2>4. at' \in WorkPoints /\ ~(next.step > next.maxSteps)
    BY <1>1, <1>2, <1>6, InStep DEF WorkPoints
  <2> QED
    BY <1>1, <1>2, <1>3, <1>6, <2>1, <2>2, <2>3, <2>4, InStep, WorkGoesOn
<1>7. CASE /\ kernel' = next /\ st' = st /\ FailedWrite /\ Fail(st)
           /\ manifest' = ManifestBeforeEvent
           /\ UNCHANGED <<loop, rejected, verFile, aborted, dirty>>
  <2>1. Fail(st')
    BY <1>7
  <2> QED
    BY <1>1, <1>2, <1>3, <1>7, <2>1, InStep, CheckpointFails
<1> QED
  BY <1>4, <1>5, <1>6, <1>7 DEF Raise, GoTo, SetStatus

LEMMA CloseWithKeeps ==
  ASSUME IInv, at = "complete", NEW s \in RunStates, s.extra = st.extra,
         CloseWith(s), Quiet, UNCHANGED <<loop, manifest, dirty>>
  PROVE  IInv'
<1>1. at \in WorkPoints \ {"init", "loop"} /\ at # "idle"
  BY DEF WorkPoints
<1>2. st' = s /\ st' \in RunStates /\ EffectiveMaxSteps(s) = EffectiveMaxSteps(st)
  BY DEF CloseWith, EffectiveMaxSteps
<1>3. UNCHANGED <<kernel, disk, verFile, aborted, rejected, used, loop, manifest,
                  dirty>>
  BY DEF Quiet
<1>4. ASSUME NEW status \in ResultStatuses, NEW isolated \in BOOLEAN,
             Finish(status, st', isolated)
      PROVE  IInv'
  <2>1. OnlyKnownRejections'
    BY <1>1, <1>3, InStep DEF OnlyKnownRejections
  <2>2. used' \in Counters /\ rejected' \in Rejections
    BY <1>3 DEF IInv, TypeOK
  <2>3. ~(kernel.step > kernel.maxSteps)
    BY <1>1, InStep
  <2> QED
    BY <1>1, <1>2, <1>3, <1>4, <2>1, <2>2, <2>3, InStep, CompletionStarts
<1>5. CASE GoTo("summary")
  <2>1. at' = "summary" /\ UNCHANGED result
    BY <1>5 DEF GoTo
  <2>2. kernel.phase = "finalizing"
    BY <1>1, InStep DEF PhaseAgrees
  <2>3. StepAgrees' /\ PhaseAgrees'
    BY <1>1, <1>2, <1>3, <2>1, <2>2, InStep
       DEF StepAgrees, PhaseAgrees, CallPoints, BatchPoints
  <2>4. at' \in WorkPoints \ {"init", "loop", "assemble", "model"}
    BY <2>1 DEF WorkPoints, CaughtByHandler
  <2> QED
    BY <1>1, <1>2, <1>3, <2>1, <2>3, <2>4, InStep, WorkGoesOnQuietly
<1>6. CASE Finish("success", s, FALSE)
  BY <1>2, <1>4, <1>6 DEF ResultStatuses
<1>7. CASE Finish("incomplete", s, FALSE)
  BY <1>2, <1>4, <1>7 DEF ResultStatuses
<1> QED
  BY <1>5, <1>6, <1>7 DEF CloseWith

LEMMA CompleteKeeps ==
  ASSUME IInv,
         CompleteWithoutReview \/ \E verdict \in Verdicts :
                                     CompleteAfterReview(verdict)
  PROVE  IInv'
<1>1. st \in RunStates
  BY DEF IInv, TypeOK
<1>2. CASE CompleteWithoutReview
  <2>1. /\ [st EXCEPT !.closing = TRUE] \in RunStates
        /\ [st EXCEPT !.closing = TRUE].extra = st.extra
    BY <1>1 DEF RunStates
  <2> QED
    BY <1>2, <2>1, CloseWithKeeps DEF CompleteWithoutReview
<1>3. CASE \E verdict \in Verdicts : CompleteAfterReview(verdict)
  <2>1. PICK verdict \in Verdicts : CompleteAfterReview(verdict)
    BY <1>3
  <2>2. /\ [st EXCEPT !.closing = TRUE, !.lastRev = verdict] \in RunStates
        /\ [st EXCEPT !.closing = TRUE, !.lastRev = verdict].extra = st.extra
    BY <1>1 DEF RunStates
  <2> QED
    BY <2>1, <2>2, CloseWithKeeps DEF CompleteAfterReview
<1> QED
  BY <1>2, <1>3

LEMMA ReviewGrantsStepsKeeps ==
  ASSUME IInv, ReviewGrantsSteps
  PROVE  IInv'
<1> DEFINE s == [st EXCEPT !.closing = TRUE, !.lastRev = "again",
                           !.revAttempts = @ + 1, !.extra = @ + ExtraSteps]
<1>1. /\ at = "complete" /\ at' = "review_retry" /\ st' = s
      /\ kernel' = [kernel EXCEPT !.maxSteps = EffectiveMaxSteps(st')]
      /\ UNCHANGED <<disk, verFile, aborted, rejected, used, loop, manifest,
                     dirty, result>>
  BY DEF ReviewGrantsSteps, GoTo
<1>2. at \in WorkPoints \ {"init", "loop"} /\ at' \in WorkPoints
  BY <1>1 DEF WorkPoints
<1>3. /\ st.revAttempts \in Nat /\ st.extra \in Nat
      /\ st.revAttempts + 1 \in Nat /\ st.extra + ExtraSteps \in Nat
  BY <1>2, InStep, ExtraStepsGrant DEF RunStates
<1>4. s = [st EXCEPT !.closing = TRUE, !.lastRev = "again",
                     !.revAttempts = st.revAttempts + 1,
                     !.extra = st.extra + ExtraSteps]
  BY Zenon
<1>5. s \in RunStates /\ s.extra = st.extra + ExtraSteps
  BY <1>2, <1>3, <1>4, InStep DEF RunStates, Verdicts
<1>6. /\ EffectiveMaxSteps(st') \in Nat
      /\ EffectiveMaxSteps(st') >= EffectiveMaxSteps(st) + 2
      /\ EffectiveMaxSteps(st) \in Nat
  BY <1>1, <1>2, <1>3, <1>5, InStep, EffectiveType, ExtraStepsGrant, LoopAssumption
     DEF EffectiveMaxSteps
<1> HIDE DEF s
<1>7. /\ kernel' \in KernelState /\ kernel'.phase = kernel.phase
      /\ kernel'.step = kernel.step
      /\ kernel'.maxSteps = EffectiveMaxSteps(st')
      /\ kernel'.pendingToolCalls = kernel.pendingToolCalls
  BY <1>1, <1>2, <1>6, InStep DEF KernelState
<1>8. PendingMatchesPhase(kernel') /\ kernel.phase = "finalizing"
  BY <1>1, <1>2, <1>7, InStep DEF PendingMatchesPhase, PhaseAgrees
<1>9. StepAgrees' /\ PhaseAgrees' /\ KernelIsDurable'
  BY <1>1, <1>2, <1>6, <1>7, <1>8, InStep
     DEF StepAgrees, PhaseAgrees, KernelIsDurable, CallPoints, BatchPoints
<1>10. ~(kernel'.step > kernel'.maxSteps)
  BY <1>2, <1>6, <1>7, InStep
<1> QED
  BY <1>1, <1>2, <1>5, <1>7, <1>8, <1>9, <1>10, InStep, WorkGoesOn

LEMMA RequestReviewRecoveryKeeps ==
  ASSUME IInv, RequestReviewRecovery
  PROVE  IInv'
<1> DEFINE next == RecoveryRequested(kernel)
           s == [st EXCEPT !.closing = FALSE]
<1>1. /\ at = "review_retry" /\ at \in WorkPoints \ {"init", "loop"}
      /\ kernel.phase = "finalizing"
      /\ loop.step < EffectiveMaxSteps(st)
  BY DEF RequestReviewRecovery, WorkPoints, IInv, PhaseAgrees, StepAgrees
<1>2. s \in RunStates /\ EffectiveMaxSteps(s) = EffectiveMaxSteps(st)
  BY <1>1, InStep DEF RunStates, EffectiveMaxSteps
<1>3. /\ next \in KernelState
      /\ next.phase = "recovering" /\ next.step = kernel.step
      /\ next.maxSteps = kernel.maxSteps /\ ~next.closingTurn
      /\ next.pendingToolCalls = 0
  BY <1>1, InStep DEF RecoveryRequested, KernelState, Phases
<1>4. PendingMatchesPhase(next)
  BY <1>3 DEF PendingMatchesPhase, ToolPhases
<1>5. Accepts(kernel, "recovery_requested", next, "assemble_prompt")
  BY <1>1, <1>3, <1>4, InStep
     DEF Accepts, RunKernelInvariants, StepWithinBudget, TerminalPhases,
         EventAllowedPhases
<1>6. Raise("recovery_requested", next, "assemble_prompt", s,
            GoTo("loop") /\ UNCHANGED <<loop, manifest>>)
      /\ UNCHANGED dirty
  BY DEF RequestReviewRecovery
<1> HIDE DEF next, s
<1>7. CASE /\ kernel' = next /\ st' = s
           /\ disk' = [saved |-> TRUE, kernel |-> next, st |-> s]
           /\ at' = "loop"
           /\ UNCHANGED <<loop, manifest, verFile, aborted, result, rejected,
                          used, dirty>>
  <2>1. StepAgrees' /\ PhaseAgrees' /\ KernelIsDurable'
    BY <1>1, <1>2, <1>3, <1>7, InStep
       DEF StepAgrees, PhaseAgrees, KernelIsDurable, CallPoints, BatchPoints,
           TerminalPhases
  <2>2. at' \in WorkPoints /\ ~(next.step > next.maxSteps) /\ loop.step # 0
    BY <1>1, <1>3, <1>7, InStep DEF WorkPoints
  <2> QED
    BY <1>1, <1>2, <1>3, <1>4, <1>7, <2>1, <2>2, InStep, WorkGoesOn
<1>8. CASE /\ kernel' = next /\ st' = s /\ FailedWrite /\ Fail(s)
           /\ manifest' = ManifestBeforeEvent
           /\ UNCHANGED <<loop, rejected, verFile, aborted, dirty>>
  <2>1. Fail(st')
    BY <1>8
  <2> QED
    BY <1>1, <1>2, <1>3, <1>4, <1>8, <2>1, InStep, CheckpointFails
<1> QED
  BY <1>5, <1>6, <1>7, <1>8 DEF Raise, GoTo

\* Every way a working run stops without a kernel event.
LEMMA StopKeeps ==
  ASSUME IInv,
         \/ AbortedAtStepStart \/ SummaryFails \/ Deny
         \/ AbortedWhileAwaiting \/ StepThrows
         \/ \E text \in BOOLEAN : SummaryArrives(text)
  PROVE  IInv'
<1>1. /\ at \in WorkPoints
      /\ UNCHANGED <<kernel, st, disk, manifest, verFile, loop, aborted,
                     rejected, dirty>>
  BY DEF AbortedAtStepStart, SummaryFails, Deny, AbortedWhileAwaiting,
     StepThrows, SummaryArrives, Quiet, WorkPoints, CaughtByHandler
<1>2. used' \in Counters /\ used'.runs = used.runs
  <2>1. used \in Counters
    BY DEF IInv, TypeOK
  <2>2. CASE StepThrows
    BY <2>1, <2>2 DEF StepThrows, Fault, Counters
  <2> QED
    BY <2>1, <2>2 DEF AbortedAtStepStart, SummaryFails, Deny,
       AbortedWhileAwaiting, SummaryArrives, Quiet
<1>3. \E status \in ResultStatuses, isolated \in BOOLEAN :
        Finish(status, st, isolated)
  <2>1. CASE Fail(st)
    BY <2>1, FailFinishes
  <2>2. CASE AbortedAtStepStart
    BY <2>2 DEF AbortedAtStepStart, ResultStatuses
  <2>3. CASE Deny
    BY <2>3 DEF Deny, ResultStatuses, Upgradable
  <2>4. CASE \E text \in BOOLEAN : SummaryArrives(text)
    <3>1. PICK text \in BOOLEAN : SummaryArrives(text)
      BY <2>4
    <3>2. (IF text THEN "success" ELSE "incomplete") \in ResultStatuses
      BY DEF ResultStatuses
    <3> QED
      BY <3>1, <3>2 DEF SummaryArrives
  <2> QED
    BY <2>1, <2>2, <2>3, <2>4 DEF SummaryFails, AbortedWhileAwaiting, StepThrows
<1>4. manifest' \in Manifests
  BY <1>1 DEF IInv, TypeOK
<1> QED
  BY <1>1, <1>2, <1>3, <1>4, StopsQuietly

-----------------------------------------------------------------------------
(* Tool calls.                                                             *)

\* A batch step that raises no event: it goes on with a call of the batch
\* or is done with the batch.
LEMMA BatchGoesOn ==
  ASSUME IInv, at \in BatchPoints,
         at' \in BatchPoints \cup {"batch_done"}, Quiet,
         st' \in RunStates, EffectiveMaxSteps(st') = EffectiveMaxSteps(st),
         st'.lastVer = st.lastVer,
         loop' \in Loops, loop'.step = loop.step,
         at' \in BatchPoints => loop'.left >= 1,
         manifest' \in Manifests, dirty' \in DirtyStates, UNCHANGED result
  PROVE  IInv'
<1>1. /\ at \in WorkPoints \ {"init", "loop"} /\ at # "review_retry"
      /\ at' \in WorkPoints \ {"init", "loop", "assemble", "model"}
  BY DEF WorkPoints, CaughtByHandler, BatchPoints
<1>2. kernel.phase \in {"handling_tools", "executing_tool"} \/ InRecovery
  BY <1>1, InStep DEF PhaseAgrees
<1>3. StepAgrees'
  BY <1>1, InStep DEF StepAgrees, Quiet, CallPoints, BatchPoints
<1>4. PhaseAgrees'
  BY <1>2 DEF PhaseAgrees, InRecovery, Quiet, BatchPoints
<1> QED
  BY <1>1, <1>3, <1>4, WorkGoesOnQuietly

LEMMA ToolMoveKeeps ==
  ASSUME IInv,
         \/ UsePlanModeTool \/ PolicyAllows \/ HooksContinue
         \/ StartCompaction
  PROVE  IInv'
<1>1. /\ at \in BatchPoints /\ at' \in BatchPoints
      /\ Quiet /\ UNCHANGED <<st, loop, dirty, result>>
  BY DEF UsePlanModeTool, PolicyAllows, HooksContinue, StartCompaction, GoTo,
     BatchPoints
<1>2. manifest' \in Manifests
  BY DEF IInv, TypeOK, UsePlanModeTool, PolicyAllows, HooksContinue,
     StartCompaction, SetStatus, Manifests, SessionStatuses
<1>3. st \in RunStates /\ loop \in Loops /\ dirty \in DirtyStates /\ loop.left >= 1
  BY <1>1 DEF IInv, TypeOK, StepAgrees, CallPoints
<1> QED
  BY <1>1, <1>2, <1>3, BatchGoesOn

LEMMA RunToolKeeps ==
  ASSUME IInv,
         \/ \E evidence \in BOOLEAN : RunOtherTool(evidence)
         \/ RunEditTool
         \/ \E tool \in {"shell", "test"}, success, changed, found \in BOOLEAN :
              RunShell(tool, success, changed, found)
  PROVE  IInv'
<1>1. /\ at \in BatchPoints /\ at' \in BatchPoints
      /\ Quiet /\ UNCHANGED <<loop, manifest, result>>
  BY DEF RunOtherTool, RunEditTool, RunShell, GoTo, BatchPoints
<1>2. /\ st \in RunStates /\ loop \in Loops /\ manifest \in Manifests
      /\ loop.left >= 1 /\ dirty \in DirtyStates
  BY <1>1 DEF IInv, TypeOK, StepAgrees, CallPoints
<1>3. dirty' \in DirtyStates
  BY <1>2 DEF RunOtherTool, RunEditTool, RunShell, DirtyStates
<1>4. /\ st' \in RunStates /\ st'.extra = st.extra
      /\ st'.lastVer = st.lastVer
  <2>1. CASE \E evidence \in BOOLEAN : RunOtherTool(evidence)
    <3>1. PICK evidence \in BOOLEAN :
            st' = [st EXCEPT !.evidence =
                     @ \/ (evidence /\ ~EditMode(loop.mode))]
      BY <2>1 DEF RunOtherTool
    <3> QED
      BY <1>2, <3>1 DEF RunStates
  <2>2. CASE RunEditTool
    BY <1>2, <2>2 DEF RunEditTool, FoundChanges, RunStates
  <2>3. CASE \E tool \in {"shell", "test"},
               success, changed, found \in BOOLEAN :
               RunShell(tool, success, changed, found)
    <3>1. PICK found \in BOOLEAN : st' = [st EXCEPT !.modified = @ \/ found]
      BY <2>3 DEF RunShell, FoundChanges
    <3> QED
      BY <1>2, <3>1 DEF RunStates
  <2> QED
    BY <2>1, <2>2, <2>3
<1> QED
  BY <1>1, <1>2, <1>3, <1>4, BatchGoesOn DEF EffectiveMaxSteps

LEMMA NextToolCallKeeps ==
  ASSUME IInv, at \in {"post", "compacting"}, NextToolCall, Quiet,
         manifest' \in Manifests, UNCHANGED <<st, dirty>>
  PROVE  IInv'
<1>1. /\ st \in RunStates /\ loop \in Loops /\ dirty \in DirtyStates
      /\ loop.left \in Nat /\ loop.left >= 1 /\ at \in BatchPoints
  BY DEF IInv, TypeOK, StepAgrees, CallPoints, BatchPoints, Loops
<1>2. /\ loop' \in Loops /\ loop'.step = loop.step
      /\ loop'.left = loop.left - 1
  BY <1>1 DEF NextToolCall, Loops
<1>3. /\ at' \in {"tool", "batch_done"} /\ UNCHANGED result
      /\ at' = "tool" => loop'.left >= 1
  BY <1>1, <1>2 DEF NextToolCall, GoTo
<1> QED
  BY <1>1, <1>2, <1>3, BatchGoesOn DEF BatchPoints

LEMMA BatchLoopKeeps ==
  ASSUME IInv, ContinueBatch \/ FinishCompaction
  PROVE  IInv'
<1>1. manifest' \in Manifests
  BY DEF IInv, TypeOK, ContinueBatch, FinishCompaction, SetStatus, Manifests,
     SessionStatuses
<1> QED
  BY <1>1, NextToolCallKeeps DEF ContinueBatch, FinishCompaction

LEMMA RecoverAfterBatchKeeps ==
  ASSUME IInv, RecoverAfterBatch
  PROVE  IInv'
<1>1. /\ at = "batch_done" /\ at \in WorkPoints \ {"init", "loop"}
      /\ at' = "loop" /\ at' \in WorkPoints
      /\ UNCHANGED <<kernel, disk, verFile, aborted, rejected, used, st, loop,
                     manifest, dirty, result>>
  BY DEF RecoverAfterBatch, GoTo, Quiet, WorkPoints
<1>2. InRecovery
  BY <1>1, InStep DEF PhaseAgrees, RecoverAfterBatch, CanAcceptToolCallsHandled
<1>3. StepAgrees' /\ PhaseAgrees' /\ KernelIsDurable'
  BY <1>1, <1>2, InStep
     DEF StepAgrees, PhaseAgrees, KernelIsDurable, CallPoints, BatchPoints,
         InRecovery, TerminalPhases
<1>4. ~(kernel.step > kernel.maxSteps) /\ loop.step # 0
  BY <1>1, InStep
<1> QED
  BY <1>1, <1>3, <1>4, InStep, WorkGoesOn

LEMMA SaveVerificationKeeps ==
  ASSUME IInv, SaveVerification
  PROVE  IInv'
<1>1. /\ at \in {"save", "verified"} /\ at' = "post"
      /\ at \in WorkPoints \ {"init", "loop"} /\ at' \in WorkPoints
      /\ verFile' = st.lastVer
      /\ UNCHANGED <<kernel, disk, aborted, rejected, used, st, loop, manifest,
                     dirty, result>>
  BY DEF SaveVerification, GoTo, WorkPoints, CaughtByHandler
<1>2. verFile' \in Verifications
  BY <1>1, InStep DEF RunStates
<1>3. kernel.phase = "executing_tool" \/ InRecovery
  BY <1>1, InStep DEF PhaseAgrees
<1>4. StepAgrees' /\ PhaseAgrees' /\ KernelIsDurable'
  BY <1>1, <1>3, InStep
     DEF StepAgrees, PhaseAgrees, KernelIsDurable, CallPoints, BatchPoints,
         InRecovery
<1>5. ~(kernel.step > kernel.maxSteps) /\ loop.step # 0
  BY <1>1, InStep
<1> QED
  BY <1>1, <1>2, <1>4, <1>5, InStep, WorkGoesOn

\* The kernel throws on an event of a tool call because a failed
\* verification earlier in the batch has left it in recovery.
LEMMA ThrowsInRecovery ==
  ASSUME IInv, at \in WorkPoints \ {"init", "loop"}, InRecovery,
         NEW type \in {"approval_requested", "verification_started"},
         rejected' = [event |-> type, phase |-> kernel.phase],
         st' = st, Fail(st), manifest' = ManifestBeforeEvent,
         UNCHANGED <<kernel, disk, loop, used, verFile, aborted, dirty>>
  PROVE  IInv'
<1>1. rejected' \in Rejections
  BY DEF InRecovery, Rejections, RejectableEvents, Phases
<1>2. OnlyKnownRejections'
  BY DEF InRecovery, OnlyKnownRejections
<1>3. Fail(st') /\ st' \in RunStates
  BY InStep
<1> QED
  BY <1>1, <1>2, <1>3, EventThrows

LEMMA AskUserKeeps ==
  ASSUME IInv, AskUser
  PROVE  IInv'
<1> DEFINE next == ApprovalRequested(kernel)
           source == IF at = "tool" THEN "permission" ELSE "hook"
<1>1. at \in BatchPoints /\ at \in WorkPoints \ {"init", "loop"}
  BY DEF AskUser, BatchPoints, WorkPoints, CaughtByHandler
<1>2. kernel.phase \in {"handling_tools", "executing_tool"} \/ InRecovery
  BY <1>1, InStep DEF PhaseAgrees
<1>3. /\ next \in KernelState
      /\ next.phase = "awaiting_approval" /\ next.step = kernel.step
      /\ next.maxSteps = kernel.maxSteps
      /\ next.pendingToolCalls = kernel.pendingToolCalls
  BY <1>1, InStep DEF ApprovalRequested, KernelState, Phases, ToolPhases
<1>4. source \in {"permission", "hook"}
  OBVIOUS
<1>5. Raise("approval_requested", next, "none", st,
            /\ GoTo("await")
            /\ loop' = [loop EXCEPT !.source = source]
            /\ SetStatus("awaiting_approval"))
      /\ UNCHANGED dirty
  BY DEF AskUser
<1> HIDE DEF next, source
<1>6. CASE /\ Accepts(kernel, "approval_requested", next, "none")
           /\ kernel' = next /\ st' = st
           /\ disk' = [saved |-> TRUE, kernel |-> next, st |-> st]
           /\ at' = "await"
           /\ loop' = [loop EXCEPT !.source = source]
           /\ manifest' = [manifest EXCEPT !.status = "awaiting_approval"]
           /\ UNCHANGED <<verFile, aborted, result, rejected, used, dirty>>
  <2>1. PendingMatchesPhase(next)
    BY <1>6 DEF Accepts, RunKernelInvariants
  <2>2. loop' \in Loops /\ loop'.step = loop.step /\ loop'.left = loop.left
    BY <1>1, <1>4, <1>6, InStep DEF Loops
  <2>3. manifest' \in Manifests
    BY <1>1, <1>6, InStep DEF Manifests, SessionStatuses
  <2>4. StepAgrees' /\ PhaseAgrees' /\ KernelIsDurable'
    BY <1>1, <1>3, <1>6, <2>2, InStep
       DEF StepAgrees, PhaseAgrees, KernelIsDurable, CallPoints, BatchPoints
  <2>5. at' \in WorkPoints /\ ~(next.step > next.maxSteps)
    BY <1>1, <1>3, <1>6, InStep DEF WorkPoints, CaughtByHandler
  <2> QED
    BY <1>1, <1>3, <1>6, <2>1, <2>2, <2>3, <2>4, <2>5, InStep, WorkGoesOn
<1>7. CASE /\ Accepts(kernel, "approval_requested", next, "none")
           /\ kernel' = next /\ st' = st /\ FailedWrite /\ Fail(st)
           /\ manifest' = ManifestBeforeEvent
           /\ UNCHANGED <<loop, rejected, verFile, aborted, dirty>>
  <2>1. PendingMatchesPhase(next)
    BY <1>7 DEF Accepts, RunKernelInvariants
  <2>2. Fail(st')
    BY <1>7
  <2> QED
    BY <1>1, <1>3, <1>7, <2>1, <2>2, InStep, CheckpointFails
<1>8. CASE /\ ~Accepts(kernel, "approval_requested", next, "none")
           /\ rejected' = [event |-> "approval_requested",
                           phase |-> kernel.phase]
           /\ Fail(st) /\ st' = st /\ manifest' = ManifestBeforeEvent
           /\ UNCHANGED <<kernel, disk, loop, used, verFile, aborted, dirty>>
  <2>1. InRecovery
    <3> SUFFICES ASSUME kernel.phase \in {"handling_tools", "executing_tool"}
                 PROVE  Accepts(kernel, "approval_requested", next, "none")
      BY <1>2, <1>8
    <3>1. PendingMatchesPhase(next)
      BY <1>1, <1>3, InStep DEF PendingMatchesPhase, ToolPhases
    <3> QED
      BY <1>1, <1>3, <3>1, InStep
         DEF Accepts, RunKernelInvariants, StepWithinBudget, TerminalPhases,
             EventAllowedPhases
  <2> QED
    BY <1>1, <1>8, <2>1, ThrowsInRecovery
<1> QED
  BY <1>5, <1>6, <1>7, <1>8 DEF Raise, GoTo, SetStatus

LEMMA StartVerificationKeeps ==
  ASSUME IInv, StartVerification
  PROVE  IInv'
<1> DEFINE next == VerificationStarted(kernel)
<1>1. at = "verify" /\ at \in WorkPoints \ {"init", "loop"}
  BY DEF StartVerification, WorkPoints, CaughtByHandler
<1>2. kernel.phase \in {"handling_tools", "executing_tool"} \/ InRecovery
  BY <1>1, InStep DEF PhaseAgrees, BatchPoints
<1>3. /\ next \in KernelState
      /\ next.phase = "verifying" /\ next.step = kernel.step
      /\ next.maxSteps = kernel.maxSteps
      /\ next.pendingToolCalls = kernel.pendingToolCalls
  BY <1>1, InStep DEF VerificationStarted, KernelState, Phases
<1>4. PendingMatchesPhase(next)
  BY <1>3 DEF PendingMatchesPhase, ToolPhases
<1>5. Raise("verification_started", next, "none", st,
            GoTo("verifying") /\ UNCHANGED <<loop, manifest>>)
      /\ UNCHANGED dirty
  BY DEF StartVerification
<1> HIDE DEF next
<1>6. CASE /\ Accepts(kernel, "verification_started", next, "none")
           /\ kernel' = next /\ st' = st
           /\ disk' = [saved |-> TRUE, kernel |-> next, st |-> st]
           /\ at' = "verifying"
           /\ UNCHANGED <<loop, manifest, verFile, aborted, result, rejected,
                          used, dirty>>
  <2>1. kernel.phase \in {"handling_tools", "executing_tool"}
    BY <1>2, <1>6 DEF Accepts, EventAllowedPhases, InRecovery
  <2>2. next.pendingToolCalls >= 1
    BY <1>1, <1>3, <2>1, InStep DEF PendingMatchesPhase, ToolPhases
  <2>3. StepAgrees' /\ PhaseAgrees' /\ KernelIsDurable'
    BY <1>1, <1>3, <1>6, <2>2, InStep
       DEF StepAgrees, PhaseAgrees, KernelIsDurable, CallPoints, BatchPoints
  <2>4. at' \in WorkPoints /\ ~(next.step > next.maxSteps)
    BY <1>1, <1>3, <1>6, InStep DEF WorkPoints, CaughtByHandler
  <2> QED
    BY <1>1, <1>3, <1>4, <1>6, <2>3, <2>4, InStep, WorkGoesOn
<1>7. CASE /\ kernel' = next /\ st' = st /\ FailedWrite /\ Fail(st)
           /\ manifest' = ManifestBeforeEvent
           /\ UNCHANGED <<loop, rejected, verFile, aborted, dirty>>
  <2>1. Fail(st')
    BY <1>7
  <2> QED
    BY <1>1, <1>3, <1>4, <1>7, <2>1, InStep, CheckpointFails
<1>8. CASE /\ ~Accepts(kernel, "verification_started", next, "none")
           /\ rejected' = [event |-> "verification_started",
                           phase |-> kernel.phase]
           /\ Fail(st) /\ st' = st /\ manifest' = ManifestBeforeEvent
           /\ UNCHANGED <<kernel, disk, loop, used, verFile, aborted, dirty>>
  <2>1. InRecovery
    <3> SUFFICES ASSUME kernel.phase \in {"handling_tools", "executing_tool"}
                 PROVE  Accepts(kernel, "verification_started", next, "none")
      BY <1>2, <1>8
    <3> QED
      BY <1>1, <1>3, <1>4, InStep
         DEF Accepts, RunKernelInvariants, StepWithinBudget, TerminalPhases,
             EventAllowedPhases
  <2> QED
    BY <1>1, <1>8, <2>1, ThrowsInRecovery
<1> QED
  BY <1>5, <1>6, <1>7, <1>8 DEF Raise, GoTo

LEMMA FinishVerificationKeeps ==
  ASSUME IInv, NEW outcome \in {"passed", "failed"},
         FinishVerification(outcome)
  PROVE  IInv'
<1> DEFINE next == VerificationFinished(kernel)
           s == [st EXCEPT !.lastVer = outcome]
<1>1. /\ at = "verifying" /\ at \in WorkPoints \ {"init", "loop"}
      /\ kernel.phase = "verifying" /\ kernel.pendingToolCalls >= 1
  BY DEF FinishVerification, WorkPoints, CaughtByHandler, IInv, PhaseAgrees
<1>2. s \in RunStates /\ EffectiveMaxSteps(s) = EffectiveMaxSteps(st)
  BY <1>1, InStep DEF RunStates, EffectiveMaxSteps, Verifications
<1>3. /\ next \in KernelState
      /\ next.phase = "executing_tool" /\ next.step = kernel.step
      /\ next.maxSteps = kernel.maxSteps
      /\ next.pendingToolCalls = kernel.pendingToolCalls
  BY <1>1, InStep DEF VerificationFinished, KernelState, Phases, ToolPhases
<1>4. PendingMatchesPhase(next)
  BY <1>1, <1>3 DEF PendingMatchesPhase, ToolPhases
<1>5. Accepts(kernel, "verification_finished", next, "none")
  BY <1>1, <1>3, <1>4, InStep
     DEF Accepts, RunKernelInvariants, StepWithinBudget, TerminalPhases,
         EventAllowedPhases
<1>6. Raise("verification_finished", next, "none", s,
            GoTo("verified") /\ UNCHANGED <<loop, manifest>>)
      /\ dirty' = "clean"
  BY DEF FinishVerification
<1>7. dirty' \in DirtyStates
  BY <1>6 DEF DirtyStates
<1> HIDE DEF next, s
<1>8. CASE /\ kernel' = next /\ st' = s
           /\ disk' = [saved |-> TRUE, kernel |-> next, st |-> s]
           /\ at' = "verified"
           /\ UNCHANGED <<loop, manifest, verFile, aborted, result, rejected,
                          used>>
  <2>1. StepAgrees' /\ PhaseAgrees' /\ KernelIsDurable'
    BY <1>1, <1>2, <1>3, <1>8, InStep
       DEF StepAgrees, PhaseAgrees, KernelIsDurable, CallPoints, BatchPoints
  <2>2. at' \in WorkPoints /\ ~(next.step > next.maxSteps)
    BY <1>1, <1>3, <1>8, InStep DEF WorkPoints, CaughtByHandler
  <2> QED
    BY <1>1, <1>2, <1>3, <1>4, <1>7, <1>8, <2>1, <2>2, InStep, WorkGoesOn
<1>9. CASE /\ kernel' = next /\ st' = s /\ FailedWrite /\ Fail(s)
           /\ manifest' = ManifestBeforeEvent
           /\ UNCHANGED <<loop, rejected, verFile, aborted>>
  <2>1. Fail(st')
    BY <1>9
  <2> QED
    BY <1>1, <1>2, <1>3, <1>4, <1>7, <1>9, <2>1, InStep, CheckpointFails
<1> QED
  BY <1>5, <1>6, <1>8, <1>9 DEF Raise, GoTo

LEMMA RequestVerificationRecoveryKeeps ==
  ASSUME IInv, RequestVerificationRecovery
  PROVE  IInv'
<1> DEFINE s == [st EXCEPT !.verAttempts = @ + 1, !.extra = @ + ExtraSteps]
           granted == [kernel EXCEPT !.maxSteps = EffectiveMaxSteps(s)]
           next == RecoveryRequested(granted)
<1>1. /\ at = "verified" /\ at \in WorkPoints \ {"init", "loop"}
      /\ kernel.phase = "executing_tool" /\ st.lastVer = "failed"
  BY DEF RequestVerificationRecovery, VerificationRecovers, WorkPoints,
     CaughtByHandler, IInv, PhaseAgrees
<1>2. /\ st.verAttempts + 1 \in Nat /\ st.extra \in Nat
      /\ st.extra + ExtraSteps \in Nat
  BY <1>1, InStep, ExtraStepsGrant DEF RunStates
<1>3. s = [st EXCEPT !.verAttempts = st.verAttempts + 1,
                     !.extra = st.extra + ExtraSteps]
  BY Zenon
<1>4. /\ s \in RunStates /\ s.extra = st.extra + ExtraSteps
      /\ s.lastVer = "failed"
  BY <1>1, <1>2, <1>3, InStep DEF RunStates
<1>5. Raise("recovery_requested", next, "assemble_prompt", s,
            GoTo("save") /\ UNCHANGED <<loop, manifest>>)
      /\ UNCHANGED dirty
  BY DEF RequestVerificationRecovery
<1> HIDE DEF s
<1>6. /\ EffectiveMaxSteps(s) \in Nat
      /\ EffectiveMaxSteps(s) >= EffectiveMaxSteps(st) + 2
      /\ EffectiveMaxSteps(st) \in Nat
  BY <1>1, <1>2, <1>4, InStep, EffectiveType, ExtraStepsGrant, LoopAssumption
     DEF EffectiveMaxSteps
<1>7. /\ granted \in KernelState
      /\ granted.step = kernel.step
      /\ granted.maxSteps = EffectiveMaxSteps(s)
  BY <1>1, <1>6, InStep DEF KernelState
<1> HIDE DEF granted
<1>8. /\ next \in KernelState
      /\ next.phase = "recovering" /\ next.step = kernel.step
      /\ next.maxSteps = EffectiveMaxSteps(s) /\ ~next.closingTurn
      /\ next.pendingToolCalls = 0
  BY <1>7 DEF RecoveryRequested, KernelState, Phases
<1> HIDE DEF next
<1>9. PendingMatchesPhase(next)
  BY <1>8 DEF PendingMatchesPhase, ToolPhases
<1>10. kernel.step < next.maxSteps /\ loop.step < EffectiveMaxSteps(s)
       /\ next.step <= next.maxSteps
  BY <1>1, <1>6, <1>8, InStep
<1>11. Accepts(kernel, "recovery_requested", next, "assemble_prompt")
  BY <1>1, <1>6, <1>8, <1>9, <1>10, InStep
     DEF Accepts, RunKernelInvariants, StepWithinBudget, TerminalPhases,
         EventAllowedPhases
<1>12. CASE /\ kernel' = next /\ st' = s
            /\ disk' = [saved |-> TRUE, kernel |-> next, st |-> s]
            /\ at' = "save"
            /\ UNCHANGED <<loop, manifest, verFile, aborted, result, rejected,
                           used, dirty>>
  <2>1. StepAgrees' /\ PhaseAgrees' /\ KernelIsDurable'
    BY <1>1, <1>4, <1>8, <1>10, <1>12, InStep
       DEF StepAgrees, PhaseAgrees, KernelIsDurable, CallPoints, BatchPoints,
           InRecovery
  <2>2. at' \in WorkPoints /\ ~(next.step > next.maxSteps)
    BY <1>1, <1>6, <1>8, <1>10, <1>12, InStep DEF WorkPoints, CaughtByHandler
  <2> QED
    BY <1>1, <1>4, <1>8, <1>9, <1>12, <2>1, <2>2, InStep, WorkGoesOn
<1>13. CASE /\ kernel' = next /\ st' = s /\ FailedWrite /\ Fail(s)
            /\ manifest' = ManifestBeforeEvent
            /\ UNCHANGED <<loop, rejected, verFile, aborted, dirty>>
  <2>1. Fail(st')
    BY <1>13
  <2> QED
    BY <1>1, <1>4, <1>8, <1>9, <1>10, <1>13, <2>1, InStep, CheckpointFails
<1> QED
  BY <1>5, <1>11, <1>12, <1>13 DEF Raise, GoTo

LEMMA UserAnswersKeeps ==
  ASSUME IInv, NEW approved \in BOOLEAN, UserAnswers(approved)
  PROVE  IInv'
<1> DEFINE next == ApprovalResolved(kernel, approved)
<1>1. /\ at = "await" /\ at \in WorkPoints \ {"init", "loop"}
      /\ at # "idle"
      /\ kernel.phase = "awaiting_approval" /\ kernel.pendingToolCalls >= 1
  BY InStep DEF UserAnswers, WorkPoints, CaughtByHandler, PhaseAgrees,
     PendingMatchesPhase, ToolPhases
<1>2. /\ next \in KernelState
      /\ next.phase = IF approved THEN "executing_tool" ELSE "recovering"
      /\ next.step = kernel.step
      /\ next.maxSteps = kernel.maxSteps
      /\ next.pendingToolCalls =
           IF approved THEN kernel.pendingToolCalls ELSE 0
  <2>1. CASE approved
    BY <1>1, <2>1, InStep DEF ApprovalResolved, KernelState, Phases, ToolPhases
  <2>2. CASE ~approved
    BY <1>1, <2>2, InStep DEF ApprovalResolved, KernelState, Phases, ToolPhases
  <2> QED
    BY <2>1, <2>2
<1>3. Raise("approval_resolved", next, "none", st,
            /\ UNCHANGED loop
            /\ SetStatus("running")
            /\ IF approved
               THEN GoTo(IF loop.source = "hook" THEN "exec" ELSE "prehook")
               ELSE Finish("user_rejected", st, FALSE))
      /\ UNCHANGED dirty
  BY DEF UserAnswers
<1> HIDE DEF next
<1>4. PendingMatchesPhase(next)
  BY <1>1, <1>2 DEF PendingMatchesPhase, ToolPhases
<1>5. Accepts(kernel, "approval_resolved", next, "none")
  BY <1>1, <1>2, <1>4, InStep
     DEF Accepts, RunKernelInvariants, StepWithinBudget, TerminalPhases,
         EventAllowedPhases
<1>6. next.phase # "routing_model_response" /\ ~(next.step > next.maxSteps)
  BY <1>1, <1>2, InStep
<1>7. CASE /\ kernel' = next /\ st' = st
           /\ disk' = [saved |-> TRUE, kernel |-> next, st |-> st]
           /\ manifest' = [manifest EXCEPT !.status = "running"]
           /\ approved /\ at' \in {"exec", "prehook"}
           /\ UNCHANGED <<loop, verFile, aborted, result, rejected, used,
                          dirty>>
  <2>1. manifest' \in Manifests
    BY <1>1, <1>7, InStep DEF Manifests, SessionStatuses
  <2>2. StepAgrees' /\ PhaseAgrees' /\ KernelIsDurable'
    BY <1>1, <1>2, <1>7, InStep
       DEF StepAgrees, PhaseAgrees, KernelIsDurable, CallPoints, BatchPoints
  <2>3. at' \in WorkPoints /\ at' \notin {"init", "loop"}
    BY <1>7 DEF WorkPoints, CaughtByHandler
  <2> QED
    BY <1>1, <1>2, <1>4, <1>6, <1>7, <2>1, <2>2, <2>3, InStep, WorkGoesOn
<1>8. CASE /\ kernel' = next /\ st' = st
           /\ disk' = [saved |-> TRUE, kernel |-> next, st |-> st]
           /\ manifest' = [manifest EXCEPT !.status = "running"]
           /\ Finish("user_rejected", st, FALSE)
           /\ UNCHANGED <<loop, verFile, aborted, rejected, used, dirty>>
  <2>1. manifest' \in Manifests
    BY <1>1, <1>8, InStep DEF Manifests, SessionStatuses
  <2>2. OnlyKnownRejections' /\ used' \in Counters /\ rejected' \in Rejections
    BY <1>1, <1>8, InStep DEF OnlyKnownRejections, IInv, TypeOK
  <2>3. Finish("user_rejected", st', FALSE) /\ "user_rejected" \in ResultStatuses
    BY <1>8 DEF ResultStatuses, Upgradable
  <2> QED
    BY <1>1, <1>2, <1>4, <1>6, <1>8, <2>1, <2>2, <2>3, InStep, CompletionStarts
<1>9. CASE /\ kernel' = next /\ st' = st /\ FailedWrite /\ Fail(st)
           /\ manifest' = ManifestBeforeEvent
           /\ UNCHANGED <<loop, rejected, verFile, aborted, dirty>>
  <2>1. Fail(st')
    BY <1>9
  <2> QED
    BY <1>1, <1>2, <1>4, <1>6, <1>9, <2>1, InStep, CheckpointFails
<1> QED
  BY <1>3, <1>5, <1>7, <1>8, <1>9 DEF Raise, GoTo, SetStatus

LEMMA HandledToolCallsKeeps ==
  ASSUME IInv, HandledToolCalls
  PROVE  IInv'
<1> DEFINE next == ToolCallsHandled(kernel)
           command == IF AtStepLimit(kernel) THEN "finalize"
                                             ELSE "assemble_prompt"
<1>1. /\ at = "batch_done" /\ at \in WorkPoints \ {"init", "loop"}
      /\ at # "idle"
      /\ kernel.phase \in {"handling_tools", "executing_tool"}
  BY DEF HandledToolCalls, CanAcceptToolCallsHandled, WorkPoints
<1>2. /\ next \in KernelState
      /\ next.phase = IF AtStepLimit(kernel) THEN "finalizing"
                                             ELSE "assembling_prompt"
      /\ next.step = kernel.step
      /\ next.maxSteps = kernel.maxSteps
      /\ next.pendingToolCalls = 0
  <2>1. CASE AtStepLimit(kernel)
    BY <1>1, <2>1, InStep DEF ToolCallsHandled, KernelState, Phases
  <2>2. CASE ~AtStepLimit(kernel)
    BY <1>1, <2>2, InStep DEF ToolCallsHandled, KernelState, Phases
  <2> QED
    BY <2>1, <2>2
<1>3. Raise("tool_calls_handled", next, command, st,
            /\ IF AtStepLimit(kernel)
               THEN Finish("stopped_by_limit", st, FALSE) ELSE GoTo("loop")
            /\ UNCHANGED <<loop, manifest>>)
      /\ UNCHANGED dirty
  BY DEF HandledToolCalls
<1>4. command \in {"finalize", "assemble_prompt"}
  OBVIOUS
<1> HIDE DEF next, command
<1>5. PendingMatchesPhase(next)
  BY <1>2 DEF PendingMatchesPhase, ToolPhases
<1>6. Accepts(kernel, "tool_calls_handled", next, command)
  BY <1>1, <1>2, <1>4, <1>5, InStep
     DEF Accepts, RunKernelInvariants, StepWithinBudget, TerminalPhases,
         EventAllowedPhases
<1>7. next.phase # "routing_model_response" /\ ~(next.step > next.maxSteps)
  BY <1>1, <1>2, InStep
<1>8. CASE /\ kernel' = next /\ st' = st
           /\ disk' = [saved |-> TRUE, kernel |-> next, st |-> st]
           /\ ~AtStepLimit(kernel) /\ at' = "loop"
           /\ UNCHANGED <<loop, manifest, verFile, aborted, result, rejected,
                          used, dirty>>
  <2>1. loop.step < EffectiveMaxSteps(st) /\ loop.step # 0
    BY <1>1, <1>8, InStep DEF AtStepLimit
  <2>2. StepAgrees' /\ PhaseAgrees' /\ KernelIsDurable'
    BY <1>1, <1>2, <1>8, <2>1, InStep
       DEF StepAgrees, PhaseAgrees, KernelIsDurable, CallPoints, BatchPoints,
           TerminalPhases
  <2>3. at' \in WorkPoints
    BY <1>8 DEF WorkPoints
  <2> QED
    BY <1>1, <1>2, <1>5, <1>7, <1>8, <2>1, <2>2, <2>3, InStep, WorkGoesOn
<1>9. CASE /\ kernel' = next /\ st' = st
           /\ disk' = [saved |-> TRUE, kernel |-> next, st |-> st]
           /\ Finish("stopped_by_limit", st, FALSE)
           /\ UNCHANGED <<loop, manifest, verFile, aborted, rejected, used,
                          dirty>>
  <2>1. OnlyKnownRejections' /\ used' \in Counters /\ rejected' \in Rejections
    BY <1>1, <1>9, InStep DEF OnlyKnownRejections, IInv, TypeOK
  <2>2. Finish("stopped_by_limit", st', FALSE)
        /\ "stopped_by_limit" \in ResultStatuses
    BY <1>9 DEF ResultStatuses, Upgradable
  <2> QED
    BY <1>1, <1>2, <1>5, <1>7, <1>9, <2>1, <2>2, InStep, CompletionStarts
<1>10. CASE /\ kernel' = next /\ st' = st /\ FailedWrite /\ Fail(st)
            /\ manifest' = ManifestBeforeEvent
            /\ UNCHANGED <<loop, rejected, verFile, aborted, dirty>>
  <2>1. Fail(st')
    BY <1>10
  <2> QED
    BY <1>1, <1>2, <1>5, <1>7, <1>10, <2>1, InStep, CheckpointFails
<1> QED
  BY <1>3, <1>6, <1>8, <1>9, <1>10 DEF Raise, GoTo

-----------------------------------------------------------------------------
(* completeRun, the end of a run, and the environment.                     *)

\* A completing run that goes on completing.
LEMMA CompletionGoesOn ==
  ASSUME IInv, at \in CompletionPoints, at' \in CompletionPoints,
         kernel' \in KernelState, PendingMatchesPhase(kernel'),
         kernel'.phase # "routing_model_response",
         kernel'.maxSteps = EffectiveMaxSteps(st'),
         kernel'.step > kernel'.maxSteps => loop.step = 0 /\ used.runs > 1,
         st' \in RunStates,
         \/ disk' = disk \/ disk' = NoFile
         \/ disk' = [saved |-> TRUE, kernel |-> kernel', st |-> st'],
         manifest' \in Manifests, result' \in Results,
         rejected' \in Rejections,
         used' \in Counters, used'.runs = used.runs,
         UNCHANGED <<loop, verFile, aborted, dirty>>,
         OnlyKnownRejections', OutcomeRecorded'
  PROVE  IInv'
<1> USE DEF IInv
<1>1. /\ disk' \in Files
      /\ disk'.kernel.maxSteps = EffectiveMaxSteps(disk'.st)
      /\ disk'.kernel.phase # "routing_model_response"
  <2>1. CASE disk' = disk
    BY <2>1 DEF TypeOK, BudgetAgrees, KernelWellFormed
  <2>2. CASE disk' = NoFile
    BY <2>2, LoopAssumption
       DEF NoFile, FreshKernel, FreshState, CreateRunKernelState, KernelState,
           Phases, RunStates, Verifications, EffectiveMaxSteps, Files
  <2>3. CASE disk' = [saved |-> TRUE, kernel |-> kernel', st |-> st']
    BY <2>3 DEF Files
  <2> QED
    BY <2>1, <2>2, <2>3
<1>2. at' # "idle" /\ at' \notin WorkPoints /\ at # "idle" /\ used.runs >= 1
  BY DEF WorkPoints, CaughtByHandler, CompletionPoints, BeforeFirstStep
<1>3. TypeOK'
  BY <1>1 DEF TypeOK, Points
<1>4. BudgetAgrees' /\ KernelWellFormed'
  BY <1>1 DEF BudgetAgrees, KernelWellFormed
<1>5. BeforeFirstStep' /\ StepAgrees' /\ PhaseAgrees' /\ KernelIsDurable'
  BY <1>2 DEF BeforeFirstStep, StepAgrees, PhaseAgrees, KernelIsDurable,
     WorkPoints, CaughtByHandler, CallPoints, BatchPoints
<1>6. RejectionKnown'
  BY DEF RejectionKnown
<1> QED
  BY <1>3, <1>4, <1>5, <1>6

\* What the invariant says of a completing run.
LEMMA InCompletion ==
  ASSUME IInv, at \in CompletionPoints
  PROVE  /\ at # "idle" /\ used.runs >= 1
         /\ st \in RunStates /\ kernel \in KernelState /\ loop \in Loops
         /\ manifest \in Manifests /\ result \in Results
         /\ rejected \in Rejections /\ used \in Counters
         /\ dirty \in DirtyStates
         /\ PendingMatchesPhase(kernel)
         /\ kernel.phase # "routing_model_response"
         /\ kernel.maxSteps = EffectiveMaxSteps(st)
         /\ kernel.step > kernel.maxSteps => loop.step = 0 /\ used.runs > 1
         /\ OnlyKnownRejections /\ OutcomeRecorded
BY DEF IInv, TypeOK, BudgetAgrees, KernelWellFormed, BeforeFirstStep,
   RejectionKnown, CompletionPoints

LEMMA CompletionMoveKeeps ==
  ASSUME IInv, PublishEnd \/ WriteFinalManifest \/ RunSessionEndHooks
  PROVE  IInv'
<1>1. /\ at \in CompletionPoints /\ at' \in CompletionPoints
      /\ UNCHANGED <<kernel, st, disk, verFile, loop, aborted, rejected, dirty,
                     used, result>>
  BY DEF PublishEnd, WriteFinalManifest, RunSessionEndHooks, GoTo, Quiet,
     CompletionPoints
<1>2. manifest' \in Manifests
  <2>1. CASE WriteFinalManifest
    <3>1. result.status \in SessionStatuses \cup {"none"}
      BY <1>1, InCompletion DEF Results, SessionStatuses
    <3>2. EffectiveMaxSteps(st) \in Nat
      BY <1>1, InCompletion, EffectiveType
    <3> QED
      BY <2>1, <3>1, <3>2 DEF WriteFinalManifest, Manifests
  <2> QED
    BY <1>1, <2>1, InCompletion DEF PublishEnd, RunSessionEndHooks
<1>3. OnlyKnownRejections'
  BY <1>1, InCompletion DEF OnlyKnownRejections
<1>4. OutcomeRecorded'
  BY <1>1, InCompletion
     DEF OutcomeRecorded, PublishEnd, WriteFinalManifest, RunSessionEndHooks,
         GoTo
<1> QED
  BY <1>1, <1>2, <1>3, <1>4, InCompletion, CompletionGoesOn

\* An exception in completeRun, after which kernel and files are as given.
LEMMA CompletionThrowsKeeps ==
  ASSUME IInv, at \in CompletionPoints \ {"bus_finish"},
         CompletionThrows(st'),
         kernel' \in KernelState, PendingMatchesPhase(kernel'),
         kernel'.phase # "routing_model_response",
         kernel'.maxSteps = EffectiveMaxSteps(st'),
         kernel'.step > kernel'.maxSteps => loop.step = 0 /\ used.runs > 1,
         st' \in RunStates,
         disk' = disk \/ disk' = NoFile,
         at = "hooks_end" => UNCHANGED <<disk, kernel, st>>,
         rejected' \in Rejections,
         used' \in Counters, used'.runs = used.runs,
         UNCHANGED <<manifest, loop, verFile, aborted, dirty>>,
         OnlyKnownRejections'
  PROVE  IInv'
<1>1. at \in CompletionPoints
  OBVIOUS
<1>2. CASE result.isolated
  <2>1. at' = "bus_finish" /\ UNCHANGED result
    BY <1>2 DEF CompletionThrows, GoTo
  <2>2. OutcomeRecorded'
    BY <1>1, <2>1, InCompletion DEF OutcomeRecorded
  <2>3. at' \in CompletionPoints
    BY <2>1 DEF CompletionPoints
  <2> QED
    BY <1>1, <2>1, <2>2, <2>3, InCompletion, CompletionGoesOn
<1>3. CASE ~result.isolated
  <2>1. PICK status \in ResultStatuses, isolated \in BOOLEAN :
          Finish(status, st', isolated)
    BY <1>3, FailFinishes DEF CompletionThrows
  <2> QED
    BY <1>1, <2>1, InCompletion, CompletionStarts
<1> QED
  BY <1>2, <1>3

LEMMA CompletionStepThrowsKeeps ==
  ASSUME IInv, CompletionStepThrows
  PROVE  IInv'
<1>1. /\ at \in CompletionPoints \ {"bus_finish"} /\ at \in CompletionPoints
      /\ UNCHANGED <<kernel, st, disk, manifest, verFile, loop, aborted,
                     rejected, dirty>>
  BY DEF CompletionStepThrows, CompletionPoints
<1>2. used' \in Counters /\ used'.runs = used.runs
  BY <1>1, InCompletion DEF CompletionStepThrows, Fault, Counters
<1>3. OnlyKnownRejections'
  BY <1>1, <1>2, InCompletion DEF OnlyKnownRejections
<1>4. CompletionThrows(st')
  BY <1>1 DEF CompletionStepThrows
<1> QED
  BY <1>1, <1>2, <1>3, <1>4, InCompletion, CompletionThrowsKeeps

LEMMA EndKernelKeeps ==
  ASSUME IInv, NEW verdict \in Verdicts, EndKernel(verdict)
  PROVE  IInv'
<1> DEFINE s == IF EditMode(loop.mode) /\ st.modified /\ st.lastRev = "none"
                THEN [st EXCEPT !.lastRev = verdict] ELSE st
           phase == TerminalPhaseOf(result.status)
           next == RunEnded(kernel, phase)
<1>1. /\ at = "kernel_end" /\ at \in CompletionPoints
      /\ at \in CompletionPoints \ {"bus_finish"}
      /\ st' = s
      /\ UNCHANGED <<manifest, verFile, loop, aborted, dirty>>
  BY DEF EndKernel, CompletionPoints
<1>2. /\ s \in RunStates /\ EffectiveMaxSteps(s) = EffectiveMaxSteps(st)
      /\ s.lastVer = st.lastVer
  <2>1. CASE s = st
    BY <1>1, <2>1, InCompletion
  <2>2. CASE s = [st EXCEPT !.lastRev = verdict]
    BY <1>1, <2>2, InCompletion DEF RunStates, EffectiveMaxSteps
  <2> QED
    BY <2>1, <2>2
<1>3. phase \in TerminalPhases
  BY DEF TerminalPhaseOf, TerminalPhases
<1>4. \/ /\ AcceptsEnd(next)
         /\ kernel' = next
         /\ disk' = [saved |-> TRUE, kernel |-> next, st |-> s]
         /\ at' = "hooks_end"
         /\ result' = [result EXCEPT !.ended = TRUE]
         /\ UNCHANGED <<rejected, used>>
      \/ /\ AcceptsEnd(next)
         /\ kernel' = next
         /\ FailedWrite
         /\ CompletionThrows(s)
         /\ UNCHANGED rejected
      \/ /\ ~AcceptsEnd(next)
         /\ rejected' = [event |-> "run_ended", phase |-> kernel.phase]
         /\ CompletionThrows(s)
         /\ UNCHANGED <<kernel, disk, used>>
  BY DEF EndKernel
<1> HIDE DEF s, phase
<1>5. /\ next \in KernelState /\ next.phase = phase
      /\ next.step = kernel.step /\ next.maxSteps = kernel.maxSteps
      /\ next.closingTurn = kernel.closingTurn
      /\ next.pendingToolCalls = 0
  BY <1>1, <1>3, InCompletion DEF RunEnded, KernelState, Phases
<1> HIDE DEF next
<1>6. /\ PendingMatchesPhase(next)
      /\ next.phase # "routing_model_response"
      /\ next.maxSteps = EffectiveMaxSteps(s)
      /\ next.step > next.maxSteps => loop.step = 0 /\ used.runs > 1
  BY <1>1, <1>2, <1>3, <1>5, InCompletion
     DEF PendingMatchesPhase, ToolPhases, TerminalPhases
<1>7. OnlyKnownRejections /\ OutcomeRecorded
  BY <1>1, InCompletion
<1>8. ASSUME kernel' = next, UNCHANGED rejected, used'.runs = used.runs
      PROVE  OnlyKnownRejections'
  BY <1>1, <1>2, <1>5, <1>7, <1>8 DEF OnlyKnownRejections
<1>9. CASE /\ kernel' = next
           /\ disk' = [saved |-> TRUE, kernel |-> next, st |-> s]
           /\ at' = "hooks_end"
           /\ result' = [result EXCEPT !.ended = TRUE]
           /\ UNCHANGED <<rejected, used>>
  <2>1. result' \in Results /\ result'.status = result.status
    BY <1>1, <1>9, InCompletion DEF Results
  <2>2. OutcomeRecorded'
    BY <1>1, <1>2, <1>5, <1>7, <1>9, <2>1 DEF OutcomeRecorded, phase
  <2>3. at' \in CompletionPoints
    BY <1>9 DEF CompletionPoints
  <2> QED
    BY <1>1, <1>2, <1>5, <1>6, <1>8, <1>9, <2>1, <2>2, <2>3, InCompletion,
       CompletionGoesOn
<1>10. CASE /\ kernel' = next /\ FailedWrite /\ CompletionThrows(s)
            /\ UNCHANGED rejected
  <2>1. /\ used' \in Counters /\ used'.runs = used.runs
        /\ disk' = disk \/ disk' = NoFile
    BY <1>1, <1>10, InCompletion, FailedWriteEffect
  <2>2. CompletionThrows(st')
    BY <1>1, <1>10
  <2> QED
    BY <1>1, <1>2, <1>5, <1>6, <1>8, <1>10, <2>1, <2>2, InCompletion,
       CompletionThrowsKeeps
<1>11. CASE /\ ~AcceptsEnd(next)
            /\ rejected' = [event |-> "run_ended", phase |-> kernel.phase]
            /\ CompletionThrows(s)
            /\ UNCHANGED <<kernel, disk, used>>
  <2>1. next.step > next.maxSteps
    <3>1. next.maxSteps >= 1 /\ next.maxSteps \in Nat /\ next.step \in Nat
      BY <1>1, <1>5, InCompletion, EffectiveType DEF KernelState
    <3> QED
      BY <1>3, <1>5, <1>6, <1>11, <3>1
         DEF AcceptsEnd, RunKernelInvariants, StepWithinBudget
  <2>2. OnlyKnownRejections'
    BY <1>1, <1>6, <1>11, <2>1 DEF OnlyKnownRejections
  <2>3. rejected' \in Rejections
    BY <1>1, <1>11, InCompletion DEF Rejections, RejectableEvents, KernelState
  <2>4. CompletionThrows(st')
    BY <1>1, <1>11
  <2> QED
    BY <1>1, <1>2, <1>11, <2>2, <2>3, <2>4, InCompletion, CompletionThrowsKeeps
<1> QED
  BY <1>4, <1>9, <1>10, <1>11

\* The run is over or dead: only the files are left.
LEMMA ForgetKeeps ==
  ASSUME IInv, Forget, disk' = disk \/ disk' = NoFile,
         used' \in Counters, UNCHANGED <<manifest, verFile, dirty>>
  PROVE  IInv'
<1> USE DEF IInv
<1>1. /\ at' = "idle" /\ kernel' = FreshKernel /\ st' = FreshState
      /\ loop' = FreshLoop(loop.mode) /\ aborted' = FALSE
      /\ result' = NoResult /\ rejected' = NoRejection
  BY DEF Forget
<1>2. /\ FreshKernel \in KernelState /\ FreshState \in RunStates
      /\ PendingMatchesPhase(FreshKernel)
      /\ FreshKernel.phase = "initializing"
      /\ FreshKernel.step = 0 /\ FreshKernel.maxSteps = BaseMaxSteps
      /\ EffectiveMaxSteps(FreshState) = BaseMaxSteps
  BY LoopAssumption
     DEF FreshKernel, FreshState, CreateRunKernelState, KernelState, Phases,
         RunStates, Verifications, PendingMatchesPhase, ToolPhases,
         EffectiveMaxSteps
<1>3. /\ disk' \in Files
      /\ disk'.kernel.maxSteps = EffectiveMaxSteps(disk'.st)
      /\ disk'.kernel.phase # "routing_model_response"
  <2>1. CASE disk' = disk
    BY <2>1 DEF TypeOK, BudgetAgrees, KernelWellFormed
  <2>2. CASE disk' = NoFile
    BY <1>2, <2>2 DEF NoFile, Files
  <2> QED
    BY <2>1, <2>2
<1>4. loop' \in Loops /\ loop'.step = 0
  BY <1>1 DEF TypeOK, FreshLoop, Loops
<1>5. TypeOK'
  <2>1. result' \in Results /\ rejected' \in Rejections
    BY <1>1 DEF NoResult, Results, NoRejection, Rejections, RejectableEvents
  <2>2. at' \in Points
    BY <1>1 DEF Points
  <2> QED
    BY <1>1, <1>2, <1>3, <1>4, <2>1, <2>2 DEF TypeOK
<1>6. BudgetAgrees' /\ KernelWellFormed'
  BY <1>1, <1>2, <1>3, LoopAssumption DEF BudgetAgrees, KernelWellFormed
<1>7. BeforeFirstStep' /\ StepAgrees' /\ PhaseAgrees' /\ KernelIsDurable'
  BY <1>1, <1>4
     DEF BeforeFirstStep, StepAgrees, PhaseAgrees, KernelIsDurable, WorkPoints,
         CaughtByHandler, CallPoints, BatchPoints
<1>8. RejectionKnown' /\ OutcomeRecorded'
  BY <1>1 DEF RejectionKnown, OnlyKnownRejections, OutcomeRecorded, NoResult
<1> QED
  BY <1>5, <1>6, <1>7, <1>8

LEMMA ReturnOrCrashKeeps ==
  ASSUME IInv, Return \/ Crash
  PROVE  IInv'
<1>1. used \in Counters
  BY DEF IInv, TypeOK
<1>2. CASE Return
  BY <1>1, <1>2, ForgetKeeps DEF Return
<1>3. CASE Crash
  <2>1. CASE UNCHANGED disk /\ used' = [used EXCEPT !.crashes = @ + 1]
    BY <1>1, <1>3, <2>1, ForgetKeeps DEF Crash, Counters
  <2>2. CASE /\ disk' = NoFile
             /\ used' = [used EXCEPT !.crashes = @ + 1, !.torn = @ + 1]
    <3>1. used.crashes + 1 \in Nat /\ used.torn + 1 \in Nat
      BY <1>1 DEF Counters
    <3>2. used' = [used EXCEPT !.crashes = used.crashes + 1,
                               !.torn = used.torn + 1]
      BY <2>2, Zenon
    <3>3. used' \in Counters
      BY <1>1, <3>1, <3>2 DEF Counters
    <3> QED
      BY <1>3, <2>2, <3>3, ForgetKeeps DEF Crash
  <2> QED
    BY <1>3, <2>1, <2>2 DEF Crash
<1> QED
  BY <1>2, <1>3

LEMMA BusThrowsKeeps ==
  ASSUME IInv, BusThrows
  PROVE  IInv'
<1>1. /\ at = "bus_finish" /\ at \in CompletionPoints
      /\ UNCHANGED <<disk, manifest, verFile, dirty>>
  BY DEF BusThrows, CompletionPoints
<1>2. used' \in Counters /\ used'.runs = used.runs
  BY <1>1, InCompletion DEF BusThrows, Fault, Counters
<1>3. CASE result.isolated
  BY <1>1, <1>2, <1>3, ForgetKeeps DEF BusThrows
<1>4. CASE ~result.isolated
  <2>1. Fail(st) /\ UNCHANGED <<kernel, st, loop, aborted, rejected>>
    BY <1>4 DEF BusThrows
  <2>2. PICK status \in ResultStatuses, isolated \in BOOLEAN :
          Finish(status, st', isolated)
    BY <2>1, FailFinishes
  <2>3. OnlyKnownRejections'
    BY <1>1, <1>2, <2>1, InCompletion DEF OnlyKnownRejections
  <2> QED
    BY <1>1, <1>2, <2>1, <2>2, <2>3, InCompletion, CompletionStarts
<1> QED
  BY <1>3, <1>4

LEMMA UserAbortsKeeps ==
  ASSUME IInv, UserAborts
  PROVE  IInv'
<1>1. /\ aborted' = TRUE
      /\ UNCHANGED <<kernel, st, disk, manifest, verFile, at, loop, result,
                     rejected, dirty, used>>
  BY DEF UserAborts
<1> QED
  BY <1>1
     DEF IInv, TypeOK, BudgetAgrees, KernelWellFormed, BeforeFirstStep,
         StepAgrees, PhaseAgrees, InRecovery, KernelIsDurable, RejectionKnown,
         OnlyKnownRejections, OutcomeRecorded

LEMMA StutterKeeps ==
  ASSUME IInv, UNCHANGED vars
  PROVE  IInv'
BY DEF vars, IInv, TypeOK, BudgetAgrees, KernelWellFormed, BeforeFirstStep,
   StepAgrees, PhaseAgrees, InRecovery, KernelIsDurable, RejectionKnown,
   OnlyKnownRejections, OutcomeRecorded

-----------------------------------------------------------------------------
(* The theorems.                                                           *)

LEMMA NextKeeps ==
  ASSUME IInv, [Next]_vars
  PROVE  IInv'
<1>1. ASSUME NEW mode \in Modes, StartRun(mode) PROVE IInv'
  BY <1>1, StartRunKeeps
<1>2. CASE RunStep
  <2>1. CASE ModelStep
    BY <2>1, ModelRetriesKeeps, ModelFailsKeeps, ModelAsksForToolsKeeps,
       ModelAnswersKeeps, CompleteKeeps, ReviewGrantsStepsKeeps,
       RequestReviewRecoveryKeeps, StopKeeps
       DEF ModelStep
  <2>2. CASE ToolStep
    BY <2>2, ToolMoveKeeps, StopKeeps, AskUserKeeps, RunToolKeeps,
       StartVerificationKeeps, FinishVerificationKeeps,
       RequestVerificationRecoveryKeeps, SaveVerificationKeeps, BatchLoopKeeps,
       HandledToolCallsKeeps, RecoverAfterBatchKeeps
       DEF ToolStep
  <2>3. CASE CompletionStep
    BY <2>3, CompletionMoveKeeps, EndKernelKeeps, ReturnOrCrashKeeps
       DEF CompletionStep
  <2> QED
    BY <1>2, <2>1, <2>2, <2>3, InitializeSessionKeeps, LoopHeadKeeps,
       StopKeeps, AssemblePromptKeeps
       DEF RunStep
<1>3. CASE Answer
  BY <1>3, UserAnswersKeeps DEF Answer
<1>4. CASE Environment
  BY <1>4, StopKeeps, CompletionStepThrowsKeeps, BusThrowsKeeps,
     UserAbortsKeeps, ReturnOrCrashKeeps
     DEF Environment
<1>5. CASE UNCHANGED vars
  BY <1>5, StutterKeeps
<1> QED
  BY <1>1, <1>2, <1>3, <1>4, <1>5 DEF Next

\* The inductive invariant holds in every reachable state of the session.
THEOREM Invariance == Spec => []IInv
<1>1. IInv /\ [Next]_vars => IInv'
  BY NextKeeps
<1> QED
  BY InitHolds, <1>1, PTL DEF Spec

\* Type correctness of the session, whatever the bounds.
THEOREM TypeCorrect == Spec => []TypeOK
<1>1. IInv => TypeOK
  BY DEF IInv
<1> QED
  BY Invariance, <1>1, PTL

\* The kernel throws on the events of the runtime only in the four known
\* situations (kernel/run-state-machine.ts, kernel/invariants.ts).
THEOREM RejectionsAreKnown == Spec => []OnlyKnownRejections
<1>1. IInv => OnlyKnownRejections
  BY DEF IInv, RejectionKnown
<1> QED
  BY Invariance, <1>1, PTL

\* No step, model call or tool follows the end recorded in the kernel.
THEOREM NothingAfterTheEnd == Spec => []NoWorkAfterTheEnd
<1>1. IInv => NoWorkAfterTheEnd
  BY DEF IInv, PhaseAgrees, NoWorkAfterTheEnd, WorkPoints, CaughtByHandler,
     BatchPoints, InRecovery, TerminalPhases, StepAgrees
<1> QED
  BY Invariance, <1>1, PTL

\* The kernel state on disk is the one in memory at every await of a step.
THEOREM Durability == Spec => []KernelIsDurable
<1>1. IInv => KernelIsDurable
  BY DEF IInv
<1> QED
  BY Invariance, <1>1, PTL

\* The while condition of the controller never ends a run.
THEOREM LoopAlwaysEntered == Spec => []LoopBodyEntered
<1>1. IInv => LoopBodyEntered
  BY DEF IInv, StepAgrees, LoopBodyEntered
<1> QED
  BY Invariance, <1>1, PTL

\* What completeRun has persisted agrees in both files and in the result.
THEOREM OutcomeAgreement == Spec => []OutcomeIsAgreed
<1>1. IInv => OutcomeIsAgreed
  BY DEF IInv, OutcomeRecorded, BudgetAgrees, OutcomeIsAgreed
<1> QED
  BY Invariance, <1>1, PTL

-----------------------------------------------------------------------------
(* A whole session: its step budget, which recoveries extend, resumptions  *)
(* read back and a torn checkpoint forgets, and the verification of its    *)
(* edits.  IInv does not say enough for either: BInv accounts for every    *)
(* step granted by a recovery that the checkpoint remembers, a torn        *)
(* checkpoint or a fault; VInv relates the last edit, the last             *)
(* verification and the checkpoint.                                        *)

\* Recoveries a run state remembers, and those the session can account for: the ones the
\* checkpoint remembers, four for each torn checkpoint and one for each fault.
Attempts(s) == s.verAttempts + s.revAttempts
Accounted == Attempts(disk.st) + 4 * used.torn + used.faults

\* A number of extra steps is at most what n recoveries grant.
Grants(n, extra) == extra <= ExtraSteps * n

AttemptsBounded ==
  /\ st.verAttempts <= 2 /\ st.revAttempts <= 2
  /\ disk.st.verAttempts <= 2 /\ disk.st.revAttempts <= 2

\* The checkpoint remembers the recoveries of the run, but for the one a review has just
\* granted.
AttemptsAgree ==
  /\ at \in WorkPoints =>
       /\ disk.st.verAttempts = st.verAttempts
       /\ disk.st.revAttempts = IF at = "review_retry" THEN st.revAttempts - 1 ELSE st.revAttempts
  /\ at # "idle" => Attempts(disk.st) <= Attempts(st)
  /\ ~disk.saved => disk = NoFile
  /\ used.runs = 0 => disk = NoFile /\ at = "idle"
  /\ at = "review_retry" => disk.saved

BudgetAccounted ==
  /\ Grants(IF at = "review_retry" THEN Accounted + 1 ELSE Accounted, st.extra)
  /\ Grants(Accounted, ManifestExtra)
  /\ Grants(Accounted, disk.st.extra)

BInv == AttemptsBounded /\ AttemptsAgree /\ BudgetAccounted

\* As long as nothing has crashed or failed: a session that has begun has a checkpoint, the
\* checkpoint remembers the last verification, and an edit that was not verified has either
\* a verification coming or none that passed.
Undisturbed == used.crashes = 0 /\ used.faults = 0

VerificationAgrees ==
  /\ ~disk.saved => used.runs = 0 \/ (used.runs = 1 /\ at \in {"init", "loop"})
  /\ at # "idle" => disk.st.lastVer = st.lastVer
  /\ dirty = "edit" => at \in {"verify", "verifying"} \/ disk.st.lastVer # "passed"

VerifiedResults ==
  at \in CompletionPoints /\ result.verified => st.lastVer = "passed"

VInv ==
  /\ Undisturbed => VerificationAgrees
  /\ VerifiedResults

-----------------------------------------------------------------------------
(* Arithmetic of grants.                                                   *)

\* More recoveries grant at least as much.
LEMMA GrantsMore ==
  ASSUME NEW m \in Nat, NEW n \in Nat, m <= n, NEW extra \in Int, Grants(m, extra)
  PROVE  Grants(n, extra)
<1>1. ExtraSteps * m <= ExtraSteps * n
  BY ExtraStepsGrant
<1>2. ExtraSteps * m \in Nat /\ ExtraSteps * n \in Nat
  BY ExtraStepsGrant
<1> QED
  BY <1>1, <1>2 DEF Grants

\* One more recovery grants what one recovery grants.
LEMMA GrantsOneMore ==
  ASSUME NEW n \in Nat, NEW extra \in Int, Grants(n, extra)
  PROVE  Grants(n + 1, extra + ExtraSteps)
<1>1. ExtraSteps * (n + 1) = ExtraSteps * n + ExtraSteps
  BY ExtraStepsGrant
<1>2. ExtraSteps * n \in Nat /\ ExtraSteps \in Nat
  BY ExtraStepsGrant
<1> QED
  BY <1>1, <1>2 DEF Grants

\* Nothing is granted without a recovery.
LEMMA GrantsNothing ==
  ASSUME NEW n \in Nat, NEW extra \in Int, extra <= 0
  PROVE  Grants(n, extra)
<1>1. ExtraSteps * n \in Nat
  BY ExtraStepsGrant
<1> QED
  BY <1>1 DEF Grants

\* The numbers the invariant speaks of.
LEMMA NumberTypes ==
  ASSUME TypeOK
  PROVE  /\ Attempts(st) \in Nat /\ Attempts(disk.st) \in Nat /\ Accounted \in Nat
         /\ st.extra \in Nat /\ disk.st.extra \in Nat /\ ManifestExtra \in Int
         /\ used.torn \in Nat /\ used.faults \in Nat
BY LoopAssumption
   DEF TypeOK, RunStates, Files, Counters, Manifests, Attempts, Accounted, ManifestExtra

\* The same after a step.
LEMMA NumberTypesAfter ==
  ASSUME TypeOK'
  PROVE  Accounted' \in Nat /\ st'.extra \in Nat
BY LoopAssumption DEF TypeOK, RunStates, Files, Counters, Attempts, Accounted

-----------------------------------------------------------------------------
(* What steps do to the budget and to the files.                           *)

SameBudget ==
  st'.extra = st.extra /\ st'.verAttempts = st.verAttempts /\ st'.revAttempts = st.revAttempts

\* A step that does not write the checkpoint.
Steady ==
  /\ UNCHANGED disk /\ SameBudget /\ manifest'.budget = manifest.budget
  /\ used'.runs = used.runs /\ used'.torn = used.torn
  /\ \/ used'.faults = used.faults /\ at # "review_retry"
     \/ used'.faults = used.faults + 1 /\ at' \in CompletionPoints
  /\ at # "idle" /\ at' \notin {"idle", "review_retry"}
  /\ at' \in WorkPoints => at \in WorkPoints

\* A step that writes it: it is written, or the write fails, or the kernel throws.
Checkpoints ==
  /\ manifest'.budget = manifest.budget /\ at # "idle"
  /\ \/ /\ disk' = [saved |-> TRUE, kernel |-> kernel', st |-> st'] /\ UNCHANGED used
        /\ at' \notin {"idle", "init", "review_retry"}
     \/ FailedWrite /\ at' \in CompletionPoints
     \/ UNCHANGED <<disk, used>> /\ at' \in CompletionPoints /\ at # "review_retry"

\* What a failed write leaves, and what it costs.
LEMMA FailedWriteCosts ==
  ASSUME used \in Counters, FailedWrite
  PROVE  /\ used'.faults = used.faults + 1 /\ used'.runs = used.runs
         /\ used'.crashes = used.crashes
         /\ \/ disk' = disk /\ used'.torn = used.torn
            \/ disk' = NoFile /\ used'.torn = used.torn + 1
BY DEF FailedWrite, Counters

\* A step that does not write the checkpoint keeps the budget accounted for.
LEMMA SteadyKeeps ==
  ASSUME IInv, IInv', BInv, Steady
  PROVE  BInv'
<1> USE DEF BInv
<1>1. TypeOK /\ TypeOK' /\ st' \in RunStates /\ st \in RunStates
  BY DEF IInv, TypeOK
<1>2. Attempts(st') = Attempts(st) /\ Attempts(disk'.st) = Attempts(disk.st)
  BY DEF Steady, SameBudget, Attempts
<1>3. at' # "review_retry" /\ at' # "idle" /\ used'.runs = used.runs
  BY DEF Steady
<1>4. AttemptsBounded' /\ AttemptsAgree'
  BY <1>2, <1>3 DEF AttemptsBounded, AttemptsAgree, Steady, SameBudget, WorkPoints,
     CaughtByHandler, CompletionPoints
<1>5. /\ Accounted' \in Nat /\ Accounted \in Nat /\ Accounted <= Accounted'
      /\ at = "review_retry" => Accounted + 1 <= Accounted'
  BY <1>1, <1>2, NumberTypes DEF Steady, Accounted
<1>6. st'.extra = st.extra /\ ManifestExtra' = ManifestExtra /\ disk'.st.extra = disk.st.extra
  BY DEF Steady, SameBudget, ManifestExtra
<1>7. BudgetAccounted'
  BY <1>1, <1>3, <1>5, <1>6, GrantsMore, NumberTypes DEF BudgetAccounted, Grants
<1> QED
  BY <1>4, <1>7

\* A verification that failed grants the steps of one more recovery.
VerificationGrant ==
  /\ at \in WorkPoints /\ at # "review_retry" /\ ~UNCHANGED <<disk, used>>
  /\ st'.extra = st.extra + ExtraSteps
  /\ st'.verAttempts = st.verAttempts + 1 /\ st'.verAttempts <= 2
  /\ st'.revAttempts = st.revAttempts

\* A step that writes the checkpoint keeps the budget accounted for, also if it grants steps.
LEMMA CheckpointsKeep ==
  ASSUME IInv, IInv', BInv, Checkpoints, SameBudget \/ VerificationGrant
  PROVE  BInv'
<1> USE DEF BInv
<1>1. /\ TypeOK /\ TypeOK' /\ st' \in RunStates /\ st \in RunStates /\ used \in Counters
      /\ disk.st \in RunStates
  BY DEF IInv, TypeOK, Files
<1>2. Attempts(NoFile.st) = 0 /\ NoFile.st.extra = 0 /\ ~NoFile.saved
      /\ NoFile.st.verAttempts = 0 /\ NoFile.st.revAttempts = 0
  BY DEF Attempts, NoFile, FreshState
<1>3. at' # "review_retry" /\ at' # "idle" /\ at # "idle" /\ used'.runs = used.runs
  BY <1>1, FailedWriteCosts DEF Checkpoints, CompletionPoints
<1>4. AttemptsBounded'
  BY <1>1, <1>2, FailedWriteCosts DEF AttemptsBounded, Checkpoints, SameBudget, VerificationGrant
<1>5. AttemptsAgree'
  BY <1>1, <1>2, <1>3, FailedWriteCosts
     DEF AttemptsAgree, Checkpoints, SameBudget, VerificationGrant, Attempts, RunStates,
     WorkPoints, CaughtByHandler, CompletionPoints
<1>6. /\ Attempts(disk.st) <= 4 /\ Attempts(disk.st) <= Attempts(st)
      /\ at = "review_retry" => Attempts(st) = Attempts(disk.st) + 1
  BY <1>1, <1>3
     DEF AttemptsBounded, AttemptsAgree, Attempts, RunStates, WorkPoints, CaughtByHandler
<1>7. /\ SameBudget => Attempts(st') = Attempts(st)
      /\ VerificationGrant => Attempts(st') = Attempts(st) + 1
  BY <1>1 DEF SameBudget, VerificationGrant, Attempts, RunStates
<1>8. /\ Accounted' \in Nat /\ Accounted \in Nat /\ Accounted <= Accounted'
      /\ at = "review_retry" \/ VerificationGrant => Accounted + 1 <= Accounted'
  <2>1. Attempts(st) \in Nat /\ Attempts(disk.st) \in Nat /\ Accounted \in Nat
        /\ used.torn \in Nat /\ used.faults \in Nat /\ Accounted' \in Nat
    BY <1>1, NumberTypes, NumberTypesAfter
  <2>2. Accounted' = Attempts(disk'.st) + 4 * used'.torn + used'.faults
    BY DEF Accounted, Attempts
  <2>3. CASE disk' = [saved |-> TRUE, kernel |-> kernel', st |-> st'] /\ UNCHANGED used
    <3>1. Accounted' = Attempts(st') + 4 * used.torn + used.faults
      BY <2>2, <2>3
    <3> QED
      BY <1>6, <1>7, <2>1, <3>1 DEF Accounted
  <2>4. CASE disk' = disk /\ used'.torn = used.torn /\ used'.faults = used.faults + 1
    <3>1. Accounted' = Attempts(disk.st) + 4 * used.torn + (used.faults + 1)
      BY <2>2, <2>4
    <3> QED
      BY <2>1, <3>1 DEF Accounted
  <2>5. CASE disk' = NoFile /\ used'.torn = used.torn + 1 /\ used'.faults = used.faults + 1
    <3>1. Accounted' = 0 + 4 * (used.torn + 1) + (used.faults + 1)
      BY <1>2, <2>2, <2>5
    <3> QED
      BY <1>6, <2>1, <3>1 DEF Accounted
  <2>6. CASE UNCHANGED <<disk, used>> /\ at # "review_retry" /\ ~VerificationGrant
    BY <2>1, <2>2, <2>6 DEF Accounted
  <2> QED
    BY <1>1, <2>3, <2>4, <2>5, <2>6, FailedWriteCosts DEF Checkpoints, VerificationGrant
<1>9. /\ ManifestExtra' = ManifestExtra
      /\ st'.extra = st.extra \/ (VerificationGrant /\ st'.extra = st.extra + ExtraSteps)
      /\ disk'.st \in {disk.st, NoFile.st, st'}
  <2>1. ManifestExtra' = ManifestExtra
    BY DEF Checkpoints, ManifestExtra
  <2>2. st'.extra = st.extra \/ (VerificationGrant /\ st'.extra = st.extra + ExtraSteps)
    BY DEF SameBudget, VerificationGrant
  <2>3. disk'.st \in {disk.st, NoFile.st, st'}
    BY <1>1, FailedWriteCosts DEF Checkpoints
  <2> QED
    BY <2>1, <2>2, <2>3
<1>10. Grants(Accounted', st'.extra)
  <2>1. CASE st'.extra = st.extra
    <3> DEFINE n == IF at = "review_retry" THEN Accounted + 1 ELSE Accounted
    <3>1. Grants(n, st.extra)
      BY DEF BudgetAccounted
    <3>2. n \in Nat /\ n <= Accounted'
      BY <1>8
    <3>3. st.extra \in Int
      BY <1>1, NumberTypes
    <3> HIDE DEF n
    <3>4. Grants(Accounted', st.extra)
      BY <1>8, <3>1, <3>2, <3>3, GrantsMore
    <3> QED
      BY <2>1, <3>4
  <2>2. CASE VerificationGrant /\ st'.extra = st.extra + ExtraSteps
    <3>1. Grants(Accounted, st.extra)
      BY <2>2 DEF BudgetAccounted, VerificationGrant
    <3>2. Grants(Accounted + 1, st'.extra)
      BY <1>1, <2>2, <3>1, GrantsOneMore, NumberTypes
    <3> QED
      BY <1>1, <1>8, <2>2, <3>2, GrantsMore, NumberTypes, NumberTypesAfter
  <2> QED
    BY <1>9, <2>1, <2>2
<1>11. Grants(Accounted', ManifestExtra')
  BY <1>1, <1>8, <1>9, GrantsMore, NumberTypes DEF BudgetAccounted
<1>12. Grants(Accounted', disk'.st.extra)
  <2>1. CASE disk'.st = disk.st
    BY <1>1, <1>8, <2>1, GrantsMore, NumberTypes DEF BudgetAccounted
  <2>2. CASE disk'.st = NoFile.st
    BY <1>2, <1>8, <2>2, GrantsNothing
  <2>3. CASE disk'.st = st'
    BY <1>10, <2>3
  <2> QED
    BY <1>9, <2>1, <2>2, <2>3
<1> QED
  BY <1>3, <1>4, <1>5, <1>10, <1>11, <1>12 DEF BudgetAccounted

-----------------------------------------------------------------------------
(* Which steps are of which kind.                                          *)

\* The steps of the loop without a kernel event.
LEMMA ModelStepsAreSteady ==
  ASSUME TypeOK,
         \/ InitializeSession \/ AbortedAtStepStart \/ ModelRetries \/ ModelFails
         \/ CompleteWithoutReview \/ (\E verdict \in Verdicts : CompleteAfterReview(verdict))
         \/ (\E text \in BOOLEAN : SummaryArrives(text)) \/ SummaryFails
  PROVE  Steady
<1>1. st \in RunStates /\ manifest \in Manifests
  BY DEF TypeOK
<1>2. CASE InitializeSession \/ ModelRetries
  BY <1>1, <1>2 DEF InitializeSession, ModelRetries, Steady, SameBudget, Quiet, GoTo, SetStatus,
    WorkPoints, CaughtByHandler, Manifests
<1>3. CASE AbortedAtStepStart \/ (\E text \in BOOLEAN : SummaryArrives(text)) \/ SummaryFails
  BY <1>3 DEF AbortedAtStepStart, SummaryArrives, SummaryFails, Steady, SameBudget, Quiet, Fail,
    Finish, WorkPoints, CaughtByHandler
<1>4. CASE ModelFails
  BY <1>1, <1>4 DEF ModelFails, ManifestBeforeEvent, Steady, SameBudget, Quiet, Fail, Finish,
    WorkPoints, CaughtByHandler, Manifests
<1>5. CASE CompleteWithoutReview \/ (\E verdict \in Verdicts : CompleteAfterReview(verdict))
  BY <1>1, <1>5 DEF CompleteWithoutReview, CompleteAfterReview, CloseWith, Steady, SameBudget,
    Quiet, Finish, GoTo, WorkPoints, CaughtByHandler, RunStates
<1> QED
  BY <1>2, <1>3, <1>4, <1>5

\* The steps of a tool call without a kernel event.
LEMMA ToolStepsAreSteady ==
  ASSUME TypeOK,
         \/ UsePlanModeTool \/ PolicyAllows \/ HooksContinue \/ Deny \/ AbortedWhileAwaiting
         \/ (\E evidence \in BOOLEAN : RunOtherTool(evidence)) \/ RunEditTool
         \/ (\E tool \in {"shell", "test"}, success, changed, found \in BOOLEAN :
               RunShell(tool, success, changed, found))
         \/ SaveVerification \/ ContinueBatch \/ StartCompaction \/ FinishCompaction
         \/ RecoverAfterBatch
  PROVE  Steady
<1>1. st \in RunStates /\ manifest \in Manifests
  BY DEF TypeOK
<1>2. CASE UsePlanModeTool \/ PolicyAllows \/ HooksContinue \/ SaveVerification \/ RecoverAfterBatch
  BY <1>2 DEF UsePlanModeTool, PolicyAllows, HooksContinue, SaveVerification, RecoverAfterBatch,
    Steady, SameBudget, Quiet, GoTo, WorkPoints, CaughtByHandler
<1>3. CASE Deny \/ AbortedWhileAwaiting
  BY <1>3 DEF Deny, AbortedWhileAwaiting, Steady, SameBudget, Quiet, Fail, Finish, WorkPoints,
    CaughtByHandler
<1>4. CASE (\E evidence \in BOOLEAN : RunOtherTool(evidence)) \/ RunEditTool
  BY <1>1, <1>4 DEF RunOtherTool, RunEditTool, FoundChanges, Steady, SameBudget, Quiet, GoTo,
    WorkPoints, CaughtByHandler, RunStates
<1>5. CASE \E tool \in {"shell", "test"}, success, changed, found \in BOOLEAN :
             RunShell(tool, success, changed, found)
  BY <1>1, <1>5 DEF RunShell, FoundChanges, Steady, SameBudget, Quiet, GoTo,
    WorkPoints, CaughtByHandler, RunStates
<1>6. CASE ContinueBatch \/ StartCompaction \/ FinishCompaction
  BY <1>1, <1>6 DEF ContinueBatch, StartCompaction, FinishCompaction, NextToolCall, SetStatus,
    Steady, SameBudget, Quiet, GoTo, WorkPoints, CaughtByHandler, Manifests
<1> QED
  BY <1>2, <1>3, <1>4, <1>5, <1>6

\* The steps of a completion that write no file, and the failures outside a write.
LEMMA OtherStepsAreSteady ==
  ASSUME TypeOK,
         \/ PublishEnd \/ RunSessionEndHooks \/ StepThrows \/ CompletionStepThrows
         \/ (BusThrows /\ ~result.isolated)
  PROVE  Steady
<1>1. CASE PublishEnd \/ RunSessionEndHooks
  BY <1>1 DEF PublishEnd, RunSessionEndHooks, Steady, SameBudget, Quiet, GoTo, WorkPoints,
    CaughtByHandler
<1>2. used \in Counters
  BY DEF TypeOK
<1>3. Fault => used'.faults = used.faults + 1 /\ used'.runs = used.runs /\ used'.torn = used.torn
  BY <1>2 DEF Fault, Counters
<1>4. CASE StepThrows
  BY <1>3, <1>4 DEF StepThrows, Fail, Finish, Steady, SameBudget, WorkPoints, CaughtByHandler,
    CompletionPoints
<1>5. CASE CompletionStepThrows
  BY <1>3, <1>5 DEF CompletionStepThrows, CompletionThrows, GoTo, Fail, Finish, Steady, SameBudget,
    WorkPoints, CaughtByHandler, CompletionPoints
<1>6. CASE BusThrows /\ ~result.isolated
  BY <1>3, <1>6 DEF BusThrows, Fail, Finish, Steady, SameBudget, WorkPoints, CaughtByHandler,
    CompletionPoints
<1> QED
  BY <1>1, <1>4, <1>5, <1>6

\* The kernel throws on no request for recovery.
LEMMA RecoveryIsAccepted ==
  ASSUME IInv'
  PROVE  rejected'.event # "recovery_requested"
BY DEF IInv, RejectionKnown, OnlyKnownRejections, NoRejection

\* The steps with a kernel event.
LEMMA EventsCheckpoint ==
  ASSUME IInv, IInv',
         \/ LoopHead \/ AssemblePrompt \/ (\E n \in BatchSizes : ModelAsksForTools(n))
         \/ (\E text \in BOOLEAN : ModelAnswers(text)) \/ RequestReviewRecovery
         \/ AskUser \/ (\E approved \in BOOLEAN : UserAnswers(approved)) \/ StartVerification
         \/ (\E outcome \in {"passed", "failed"} : FinishVerification(outcome))
         \/ HandledToolCalls \/ (\E verdict \in Verdicts : EndKernel(verdict))
  PROVE  Checkpoints /\ SameBudget
<1>1. st \in RunStates /\ manifest \in Manifests
  BY DEF IInv, TypeOK
<1> USE <1>1 DEF Checkpoints, SameBudget, Raise, Fail, Finish, GoTo, SetStatus,
    ManifestBeforeEvent, Manifests, CompletionPoints
<1>2. CASE LoopHead
  BY <1>2 DEF LoopHead, IInv, StepAgrees
<1>3. CASE AssemblePrompt
  BY <1>3 DEF AssemblePrompt, RunStates
<1>4. CASE \E n \in BatchSizes : ModelAsksForTools(n)
  BY <1>4 DEF ModelAsksForTools
<1>5. CASE \E text \in BOOLEAN : ModelAnswers(text)
  BY <1>5 DEF ModelAnswers
<1>6. CASE RequestReviewRecovery
  BY <1>6, RecoveryIsAccepted DEF RequestReviewRecovery, RunStates
<1>7. CASE AskUser
  BY <1>7 DEF AskUser
<1>8. CASE \E approved \in BOOLEAN : UserAnswers(approved)
  BY <1>8 DEF UserAnswers
<1>9. CASE StartVerification
  BY <1>9 DEF StartVerification
<1>10. CASE \E outcome \in {"passed", "failed"} : FinishVerification(outcome)
  BY <1>10 DEF FinishVerification, RunStates
<1>11. CASE HandledToolCalls
  BY <1>11 DEF HandledToolCalls
<1>12. CASE \E verdict \in Verdicts : EndKernel(verdict)
  BY <1>12 DEF EndKernel, CompletionThrows, RunStates
<1> QED
  BY <1>2, <1>3, <1>4, <1>5, <1>6, <1>7, <1>8, <1>9, <1>10, <1>11, <1>12

\* A verification that failed grants steps before the kernel hears of it.
LEMMA RecoveryCheckpoints ==
  ASSUME IInv, IInv', BInv, RequestVerificationRecovery
  PROVE  Checkpoints /\ VerificationGrant
<1>1. st \in RunStates /\ manifest \in Manifests /\ used \in Counters
  BY DEF IInv, TypeOK
<1>2. MaxRecoveryAttempts(loop.mode) <= 2
  BY DEF MaxRecoveryAttempts
<1>3. st' = [st EXCEPT !.verAttempts = @ + 1, !.extra = @ + ExtraSteps]
  BY DEF RequestVerificationRecovery, Raise
<1>4. /\ st'.extra = st.extra + ExtraSteps /\ st'.verAttempts = st.verAttempts + 1
      /\ st'.revAttempts = st.revAttempts /\ st'.verAttempts <= 2
  BY <1>1, <1>2, <1>3 DEF RunStates, RequestVerificationRecovery, VerificationRecovers,
    MaxRecoveryAttempts
<1>5. Checkpoints
  BY <1>1, RecoveryIsAccepted
     DEF Checkpoints, RequestVerificationRecovery, Raise, Fail, Finish, GoTo, CompletionPoints,
     ManifestBeforeEvent, Manifests
<1>6. \/ disk' = [saved |-> TRUE, kernel |-> kernel', st |-> st']
      \/ FailedWrite
  BY RecoveryIsAccepted DEF RequestVerificationRecovery, Raise
<1>7. disk.st.verAttempts = st.verAttempts
  BY DEF BInv, AttemptsAgree, RequestVerificationRecovery, WorkPoints, CaughtByHandler
<1>8. ~UNCHANGED <<disk, used>>
  BY <1>1, <1>4, <1>6, <1>7, FailedWriteCosts DEF RunStates, Counters
<1> QED
  BY <1>4, <1>5, <1>8 DEF VerificationGrant, RequestVerificationRecovery, WorkPoints, CaughtByHandler

-----------------------------------------------------------------------------
(* The other steps.                                                        *)

\* Nothing is left of the run in memory, and the checkpoint stays or is torn.
LEMMA ForgetAccounted ==
  ASSUME IInv, IInv', BInv, Forget, at # "idle", manifest'.budget = manifest.budget,
         used'.runs = used.runs,
         \/ disk' = disk /\ used'.torn = used.torn /\ used'.faults >= used.faults
         \/ disk' = NoFile /\ used'.torn = used.torn + 1 /\ used'.faults = used.faults
  PROVE  BInv'
<1> USE DEF BInv
<1>1. /\ TypeOK /\ TypeOK' /\ used' \in Counters /\ used \in Counters /\ disk.st \in RunStates
  BY DEF IInv, TypeOK, Files
<1>2. /\ at' = "idle" /\ st' = FreshState
      /\ st'.verAttempts = 0 /\ st'.revAttempts = 0 /\ st'.extra = 0
      /\ NoFile.st = FreshState /\ NoFile.st.verAttempts = 0 /\ NoFile.st.revAttempts = 0
      /\ NoFile.st.extra = 0 /\ Attempts(NoFile.st) = 0 /\ ~NoFile.saved
  BY DEF Forget, FreshState, NoFile, Attempts
<1>3. AttemptsBounded' /\ AttemptsAgree'
  BY <1>2 DEF AttemptsBounded, AttemptsAgree, WorkPoints, CaughtByHandler
<1>4. Accounted \in Nat /\ Accounted' \in Nat /\ Attempts(disk.st) \in Nat
  BY <1>1, NumberTypes, NumberTypesAfter
<1>5. Accounted <= Accounted'
  <2>1. Accounted' = Attempts(disk'.st) + 4 * used'.torn + used'.faults
    BY DEF Accounted, Attempts
  <2>2. CASE disk' = disk /\ used'.torn = used.torn /\ used'.faults >= used.faults
    <3>1. Accounted' = Attempts(disk.st) + 4 * used.torn + used'.faults
      BY <2>1, <2>2
    <3> QED
      BY <1>1, <1>4, <2>2, <3>1 DEF Accounted, Counters
  <2>3. CASE disk' = NoFile /\ used'.torn = used.torn + 1 /\ used'.faults = used.faults
    <3>1. Accounted' = 0 + 4 * (used.torn + 1) + used.faults
      BY <1>2, <2>1, <2>3
    <3>2. Attempts(disk.st) <= 4
      BY <1>1 DEF AttemptsBounded, Attempts, RunStates
    <3> QED
      BY <1>1, <1>4, <3>1, <3>2 DEF Accounted, Counters
  <2> QED
    BY <2>2, <2>3
<1>6. Grants(Accounted', st'.extra)
  BY <1>2, <1>4, GrantsNothing
<1>7. Grants(Accounted', ManifestExtra')
  <2>1. ManifestExtra' = ManifestExtra
    BY DEF ManifestExtra
  <2> QED
    BY <1>1, <1>4, <1>5, <2>1, GrantsMore, NumberTypes DEF BudgetAccounted
<1>8. Grants(Accounted', disk'.st.extra)
  BY <1>1, <1>2, <1>4, <1>5, GrantsMore, GrantsNothing, NumberTypes DEF BudgetAccounted
<1> QED
  BY <1>2, <1>3, <1>6, <1>7, <1>8 DEF BudgetAccounted

\* A run begins with what checkpoint and manifest remember.
LEMMA StartAccounted ==
  ASSUME IInv, IInv', BInv, NEW mode \in Modes, StartRun(mode)
  PROVE  BInv'
<1> USE DEF BInv
<1>1. /\ TypeOK /\ TypeOK' /\ used \in Counters /\ disk.st \in RunStates /\ st \in RunStates
      /\ manifest \in Manifests
  BY DEF IInv, TypeOK, Files
<1>2. /\ at' = "init" /\ at = "idle" /\ UNCHANGED disk
      /\ used'.runs = used.runs + 1 /\ used'.torn = used.torn /\ used'.faults = used.faults
  BY <1>1 DEF StartRun, GoTo, Counters
<1>3. Accounted' = Accounted
  BY <1>2 DEF Accounted, Attempts
<1>4. FreshState.verAttempts = 0 /\ FreshState.revAttempts = 0 /\ FreshState.extra = 0
      /\ NoFile.st = FreshState
  BY DEF FreshState, NoFile
<1>5. CASE used.runs = 0
  <2>1. UNCHANGED st /\ manifest'.budget = 0 /\ disk = NoFile /\ st = FreshState
    BY <1>2, <1>5 DEF StartRun, AttemptsAgree, IInv, BeforeFirstStep
  <2>2. AttemptsBounded' /\ AttemptsAgree'
    BY <1>1, <1>2, <1>4, <2>1 DEF AttemptsBounded, AttemptsAgree, Counters, Attempts
  <2>3. ManifestExtra' = 0 - BaseMaxSteps
    BY <2>1, LoopAssumption DEF ManifestExtra
  <2>4. Grants(Accounted', ManifestExtra')
    BY <1>1, <1>3, <2>3, LoopAssumption, GrantsNothing, NumberTypes
  <2> QED
    BY <1>2, <1>3, <2>1, <2>2, <2>4 DEF BudgetAccounted
<1>6. CASE used.runs # 0
  <2>1. UNCHANGED manifest /\ Restore
    BY <1>6 DEF StartRun
  <2>2. /\ st'.verAttempts = disk.st.verAttempts /\ st'.revAttempts = disk.st.revAttempts
        /\ st'.extra \in {ManifestExtra, disk.st.extra}
    <3>1. CASE disk.saved
      BY <1>1, <2>1, <3>1 DEF Restore, RestoredState, RunStates
    <3>2. CASE ~disk.saved
      <4>1. disk.st = FreshState
        BY <1>4, <3>2 DEF AttemptsAgree
      <4>2. st' = RestoredState([FreshState EXCEPT !.lastVer = verFile])
        BY <2>1, <3>2 DEF Restore
      <4> QED
        BY <4>1, <4>2 DEF RestoredState, FreshState
    <3> QED
      BY <3>1, <3>2
  <2>3. AttemptsBounded'
    BY <1>2, <2>2 DEF AttemptsBounded
  <2>4. AttemptsAgree'
    <3>1. Attempts(st') = Attempts(disk.st) /\ Attempts(disk.st) \in Nat
      BY <1>1, <2>2, NumberTypes DEF Attempts
    <3> QED
      BY <1>1, <1>2, <2>2, <3>1 DEF AttemptsAgree, Attempts, Counters
  <2>5. ManifestExtra' = ManifestExtra
    BY <2>1 DEF ManifestExtra
  <2> QED
    BY <1>2, <1>3, <2>2, <2>3, <2>4, <2>5 DEF BudgetAccounted
<1> QED
  BY <1>5, <1>6

\* A review grants the steps of one more recovery, which the checkpoint does not know yet.
LEMMA ReviewAccounted ==
  ASSUME IInv, IInv', BInv, ReviewGrantsSteps
  PROVE  BInv'
<1> USE DEF BInv
<1>1. TypeOK /\ st \in RunStates
  BY DEF IInv, TypeOK
<1>2. /\ at = "complete" /\ at' = "review_retry" /\ UNCHANGED <<disk, used, manifest>>
      /\ st'.extra = st.extra + ExtraSteps /\ st'.verAttempts = st.verAttempts
      /\ st'.revAttempts = st.revAttempts + 1
  BY <1>1 DEF ReviewGrantsSteps, GoTo, RunStates
<1>3. disk.st.verAttempts = st.verAttempts /\ disk.st.revAttempts = st.revAttempts /\ disk.saved
  BY <1>2 DEF AttemptsAgree, WorkPoints, CaughtByHandler, IInv, KernelIsDurable
<1>4. st.revAttempts < 2
  BY <1>1 DEF ReviewGrantsSteps, ReviewAttemptsLeft, MaxRecoveryAttempts, RunStates
<1>5. AttemptsBounded' /\ AttemptsAgree'
  BY <1>1, <1>2, <1>3, <1>4
     DEF AttemptsBounded, AttemptsAgree, Attempts, RunStates, WorkPoints, CaughtByHandler
<1>6. Accounted' = Accounted /\ ManifestExtra' = ManifestExtra
  BY <1>2 DEF Accounted, Attempts, ManifestExtra
<1>7. Grants(Accounted + 1, st.extra + ExtraSteps)
  BY <1>1, <1>2, GrantsOneMore, NumberTypes DEF BudgetAccounted
<1> QED
  BY <1>2, <1>5, <1>6, <1>7 DEF BudgetAccounted

\* The manifest takes over the budget of the run.
LEMMA ManifestAccounted ==
  ASSUME IInv, IInv', BInv, WriteFinalManifest
  PROVE  BInv'
<1> USE DEF BInv
<1>1. TypeOK /\ st \in RunStates
  BY DEF IInv, TypeOK
<1>2. /\ at = "manifest_end" /\ at' = "kernel_end" /\ UNCHANGED <<disk, used, st>>
      /\ manifest'.budget = EffectiveMaxSteps(st)
  BY DEF WriteFinalManifest, GoTo, Quiet
<1>3. AttemptsBounded' /\ AttemptsAgree'
  BY <1>2 DEF AttemptsBounded, AttemptsAgree, Attempts, WorkPoints, CaughtByHandler
<1>4. Accounted' = Accounted /\ ManifestExtra' = st.extra
  BY <1>1, <1>2, LoopAssumption DEF Accounted, Attempts, ManifestExtra, EffectiveMaxSteps, RunStates
<1> QED
  BY <1>2, <1>3, <1>4 DEF BudgetAccounted

\* Nothing is granted when the session begins.
LEMMA InitAccounted == Init => BInv
<1> SUFFICES ASSUME Init PROVE BInv
  OBVIOUS
<1>1. TypeOK
  BY InitHolds DEF IInv
<1>2. /\ st = FreshState /\ disk = NoFile /\ NoFile.st = FreshState /\ ~NoFile.saved /\ at = "idle"
      /\ FreshState.verAttempts = 0 /\ FreshState.revAttempts = 0 /\ FreshState.extra = 0
      /\ manifest.budget = 0
  BY DEF Init, FreshState, NoFile
<1>3. AttemptsBounded /\ AttemptsAgree
  BY <1>2 DEF AttemptsBounded, AttemptsAgree, WorkPoints, CaughtByHandler
<1>4. ManifestExtra <= 0 /\ ManifestExtra \in Int
  BY <1>2, LoopAssumption DEF ManifestExtra
<1>5. BudgetAccounted
  BY <1>1, <1>2, <1>4, GrantsNothing, NumberTypes DEF BudgetAccounted
<1> QED
  BY <1>3, <1>5 DEF BInv

\* Every step keeps the budget accounted for.
LEMMA NextAccounted ==
  ASSUME IInv, IInv', BInv, [Next]_vars
  PROVE  BInv'
<1>1. TypeOK /\ used \in Counters
  BY DEF IInv, TypeOK
<1>2. CASE UNCHANGED vars \/ UserAborts
  <2>1. UNCHANGED <<st, disk, manifest, at, used>>
    BY <1>2 DEF vars, UserAborts
  <2> QED
    BY <2>1 DEF BInv, AttemptsBounded, AttemptsAgree, BudgetAccounted, Grants, Accounted, Attempts,
      ManifestExtra
<1>3. ASSUME NEW mode \in Modes, StartRun(mode) PROVE BInv'
  BY <1>3, StartAccounted
<1>4. CASE ModelStep
  BY <1>1, <1>4, ModelStepsAreSteady, SteadyKeeps, EventsCheckpoint, CheckpointsKeep,
    ReviewAccounted DEF ModelStep
<1>5. CASE ToolStep \/ Answer
  BY <1>1, <1>5, ToolStepsAreSteady, SteadyKeeps, EventsCheckpoint, CheckpointsKeep,
    RecoveryCheckpoints DEF ToolStep, Answer
<1>6. CASE Return \/ Crash \/ (BusThrows /\ result.isolated)
  <2>1. /\ Forget /\ at # "idle" /\ manifest'.budget = manifest.budget
        /\ used'.runs = used.runs
        /\ \/ disk' = disk /\ used'.torn = used.torn /\ used'.faults >= used.faults
           \/ disk' = NoFile /\ used'.torn = used.torn + 1 /\ used'.faults = used.faults
    <3>1. CASE Return
      BY <1>1, <3>1 DEF Return, Counters
    <3>2. CASE Crash /\ UNCHANGED disk /\ used' = [used EXCEPT !.crashes = @ + 1]
      <4>1. used'.runs = used.runs /\ used'.torn = used.torn /\ used'.faults = used.faults
        BY <1>1, <3>2 DEF Counters
      <4> QED
        BY <1>1, <3>2, <4>1 DEF Crash, Counters
    <3>3. CASE Crash /\ disk' = NoFile /\ used' = [used EXCEPT !.crashes = @ + 1, !.torn = @ + 1]
      <4>1. used'.runs = used.runs /\ used'.torn = used.torn + 1 /\ used'.faults = used.faults
        BY <1>1, <3>3 DEF Counters
      <4> QED
        BY <1>1, <3>3, <4>1 DEF Crash, Counters
    <3>4. CASE BusThrows /\ result.isolated
      <4>1. Fault /\ Forget /\ UNCHANGED <<disk, manifest>> /\ at # "idle"
        BY <3>4 DEF BusThrows
      <4>2. used'.runs = used.runs /\ used'.torn = used.torn /\ used'.faults = used.faults + 1
        BY <1>1, <4>1 DEF Fault, Counters
      <4> QED
        BY <1>1, <4>1, <4>2 DEF Counters
    <3> QED
      BY <1>6, <3>1, <3>2, <3>3, <3>4 DEF Crash
  <2> QED
    BY <2>1, ForgetAccounted
<1>7. CASE InitializeSession \/ LoopHead \/ AbortedAtStepStart \/ AssemblePrompt
  BY <1>1, <1>7, ModelStepsAreSteady, SteadyKeeps, EventsCheckpoint, CheckpointsKeep
<1>8. CASE PublishEnd \/ RunSessionEndHooks \/ StepThrows \/ CompletionStepThrows
             \/ (BusThrows /\ ~result.isolated)
  BY <1>1, <1>8, OtherStepsAreSteady, SteadyKeeps
<1>9. CASE WriteFinalManifest \/ (\E verdict \in Verdicts : EndKernel(verdict))
  BY <1>9, ManifestAccounted, EventsCheckpoint, CheckpointsKeep
<1> QED
  BY <1>2, <1>3, <1>4, <1>5, <1>6, <1>7, <1>8, <1>9 DEF Next, RunStep, CompletionStep, Environment

\* The recoveries of a session are accounted for in every state.
LEMMA AccountedAlways == Spec => []BInv
<1>1. Init => BInv
  BY InitAccounted
<1>2. IInv /\ IInv' /\ BInv /\ [Next]_vars => BInv'
  BY NextAccounted
<1> QED
  BY <1>1, <1>2, Invariance, PTL DEF Spec

\* The step budget of a session stays bounded, however often runs are resumed, fail, or lose
\* their checkpoint.
THEOREM BudgetIsBounded == Spec => []BudgetBound
<1>1. IInv /\ BInv => BudgetBound
  <2> SUFFICES ASSUME IInv, BInv PROVE BudgetBound
    OBVIOUS
  <2>1. TypeOK /\ st \in RunStates /\ disk.st \in RunStates
    BY DEF IInv, TypeOK, Files
  <2> DEFINE n == 4 * (1 + used.torn) + used.faults
  <2>2. /\ n \in Nat
        /\ (IF at = "review_retry" THEN Accounted + 1 ELSE Accounted) \in Nat
        /\ (IF at = "review_retry" THEN Accounted + 1 ELSE Accounted) <= n
    <3>1. Attempts(disk.st) <= 4 /\ (at = "review_retry" => Attempts(disk.st) + 1 <= 4)
      BY <2>1 DEF BInv, AttemptsBounded, AttemptsAgree, Attempts, RunStates, WorkPoints
    <3> QED
      BY <2>1, <3>1, NumberTypes DEF Accounted
  <2>3. Grants(n, st.extra)
    BY <2>1, <2>2, GrantsMore, NumberTypes DEF BInv, BudgetAccounted
  <2> QED
    BY <2>3 DEF Grants, BudgetBound
<1> QED
  BY <1>1, Invariance, AccountedAlways, PTL

-----------------------------------------------------------------------------
(* Verified edits.                                                         *)

\* Only verified work has a result that says so.
Concludes ==
  at' \in CompletionPoints /\ result'.verified =>
    \/ st'.lastVer = "passed"
    \/ at \in CompletionPoints /\ result.verified /\ st'.lastVer = st.lastVer

\* A step that edits and verifies nothing: unless something fails, the checkpoint stays or is
\* written as it should.
LeavesEdits ==
  /\ Concludes
  /\ at # "idle" /\ at' # "idle" /\ used'.runs = used.runs
  /\ Undisturbed' =>
       /\ st'.lastVer = st.lastVer /\ at \notin {"verify", "verifying"}
       /\ dirty' = "edit" => dirty = "edit"
       /\ \/ UNCHANGED disk /\ (at \in {"init", "loop"} => at' = "loop" \/ disk.saved)
          \/ disk' = [saved |-> TRUE, kernel |-> kernel', st |-> st']

\* Nothing that has crashed or failed is undone.
LEMMA DisturbanceStays ==
  ASSUME TypeOK, [Next]_vars, Undisturbed'
  PROVE  Undisturbed /\ ~Crash /\ ~Fault /\ ~FailedWrite
<1>1. used \in Counters
  BY DEF TypeOK
<1>2. ~FailedWrite
  BY <1>1, FailedWriteCosts DEF Counters, Undisturbed
<1>3. ~Fault
  BY <1>1 DEF Fault, Counters, Undisturbed
<1>4. ~Crash
  <2>1. Crash => used'.crashes = used.crashes + 1
    BY <1>1 DEF Crash, Counters
  <2> QED
    BY <1>1, <2>1 DEF Counters, Undisturbed
<1>5. UNCHANGED used \/ used' = [used EXCEPT !.runs = @ + 1]
  BY <1>2, <1>3, <1>4 DEF Next, RunStep, ModelStep, ToolStep, CompletionStep, Environment, Answer, vars,
    StartRun, InitializeSession, LoopHead, AbortedAtStepStart, AssemblePrompt, ModelRetries,
    ModelFails, ModelAsksForTools, ModelAnswers, CompleteWithoutReview, CompleteAfterReview,
    ReviewGrantsSteps, RequestReviewRecovery, SummaryArrives, SummaryFails, UsePlanModeTool,
    PolicyAllows, HooksContinue, Deny, AskUser, AbortedWhileAwaiting, RunOtherTool, RunEditTool,
    RunShell, StartVerification, FinishVerification, RequestVerificationRecovery,
    SaveVerification, ContinueBatch, StartCompaction, FinishCompaction, HandledToolCalls,
    RecoverAfterBatch, PublishEnd, WriteFinalManifest, EndKernel, RunSessionEndHooks, Return,
    UserAnswers, StepThrows, CompletionStepThrows, BusThrows, UserAborts, Raise, Quiet
<1> QED
  BY <1>1, <1>2, <1>3, <1>4, <1>5 DEF Undisturbed, Counters

\* What a result says is then true.
LEMMA ConcludesKeeps ==
  ASSUME VInv, Concludes
  PROVE  VerifiedResults'
BY DEF VInv, Concludes, VerifiedResults

\* Such a step keeps verifications and edits in agreement.
LEMMA LeavesEditsKeeps ==
  ASSUME TypeOK, VInv, LeavesEdits, Undisturbed' => Undisturbed
  PROVE  VInv'
<1>1. VerifiedResults'
  BY ConcludesKeeps DEF LeavesEdits
<1>2. ASSUME Undisturbed' PROVE VerificationAgrees'
  <2>1. VerificationAgrees
    BY <1>2 DEF VInv
  <2> QED
    BY <1>2, <2>1 DEF VerificationAgrees, LeavesEdits
<1> QED
  BY <1>1, <1>2 DEF VInv

\* A result finalized from a run state says verified only if its last verification passed.
LEMMA FinishConcludes ==
  ASSUME NEW status, NEW s, NEW isolated, Finish(status, s, isolated), s.lastVer = st'.lastVer
  PROVE  Concludes /\ at' = "publish_end"
BY DEF Finish, Concludes, WorkVerified

\* The same of a run that no exception has ended.
LEMMA StopConcludes ==
  ASSUME NEW status, NEW s, Finish(status, s, FALSE), s.lastVer = st'.lastVer
  PROVE  Concludes /\ at' = "publish_end"
BY FinishConcludes

\* The same of an exception.
LEMMA FailConcludes ==
  ASSUME NEW s, Fail(s), s.lastVer = st'.lastVer
  PROVE  Concludes /\ at' = "publish_end"
BY FinishConcludes DEF Fail

\* A run that goes on has no result.
LEMMA GoToConcludes ==
  ASSUME NEW point, GoTo(point), point \notin CompletionPoints
  PROVE  Concludes /\ at' = point
BY DEF GoTo, Concludes

\* A result that is kept says what it said.
LEMMA GoToKeepsResult ==
  ASSUME NEW point, GoTo(point), at \in CompletionPoints, st'.lastVer = st.lastVer
  PROVE  Concludes /\ at' = point
BY DEF GoTo, Concludes

\* An event that is persisted, or fails to be, or is rejected, leaves the edits alone if it
\* does not change the verification.
LEMMA EventLeavesEdits ==
  ASSUME TypeOK, st'.lastVer = st.lastVer, UNCHANGED dirty, Concludes, at' # "idle",
         at \notin {"idle", "init", "loop", "verify", "verifying"},
         \/ UNCHANGED used /\ disk' = [saved |-> TRUE, kernel |-> kernel', st |-> st']
         \/ FailedWrite
         \/ UNCHANGED <<disk, used>>
  PROVE  LeavesEdits
<1>1. used \in Counters
  BY DEF TypeOK
<1>2. CASE FailedWrite
  BY <1>1, <1>2, FailedWriteCosts DEF LeavesEdits, Undisturbed, Counters
<1> QED
  BY <1>2 DEF LeavesEdits

\* The events of the loop.
LEMMA ModelEventsLeaveEdits ==
  ASSUME TypeOK,
         \/ AssemblePrompt \/ (\E n \in BatchSizes : ModelAsksForTools(n))
         \/ (\E text \in BOOLEAN : ModelAnswers(text)) \/ RequestReviewRecovery
  PROVE  LeavesEdits
<1>1. st \in RunStates
  BY DEF TypeOK
<1> USE DEF Raise, CompletionPoints
<1> USE StopConcludes, FailConcludes, GoToConcludes
<1>2. CASE AssemblePrompt
  <2>1. st'.lastVer = st.lastVer /\ UNCHANGED dirty /\ at = "assemble"
    BY <1>1, <1>2 DEF AssemblePrompt, RunStates
  <2>2. Concludes /\ at' # "idle"
    BY <1>1, <1>2 DEF AssemblePrompt, RunStates
  <2> QED
    BY <1>2, <2>1, <2>2, EventLeavesEdits DEF AssemblePrompt
<1>3. CASE \E n \in BatchSizes : ModelAsksForTools(n)
  <2>1. PICK n \in BatchSizes : ModelAsksForTools(n)
    BY <1>3
  <2>2. st' = st /\ UNCHANGED dirty /\ at = "model" /\ Concludes /\ at' # "idle"
    BY <2>1 DEF ModelAsksForTools
  <2> QED
    BY <2>1, <2>2, EventLeavesEdits DEF ModelAsksForTools
<1>4. CASE \E text \in BOOLEAN : ModelAnswers(text)
  <2>1. PICK text \in BOOLEAN : ModelAnswers(text)
    BY <1>4
  <2>2. st' = st /\ UNCHANGED dirty /\ at = "model" /\ Concludes /\ at' # "idle"
    BY <2>1 DEF ModelAnswers
  <2> QED
    BY <2>1, <2>2, EventLeavesEdits DEF ModelAnswers
<1>5. CASE RequestReviewRecovery
  <2>1. st'.lastVer = st.lastVer /\ UNCHANGED dirty /\ at = "review_retry"
    BY <1>1, <1>5 DEF RequestReviewRecovery, RunStates
  <2>2. Concludes /\ at' # "idle"
    BY <1>1, <1>5 DEF RequestReviewRecovery, RunStates
  <2> QED
    BY <1>5, <2>1, <2>2, EventLeavesEdits DEF RequestReviewRecovery
<1> QED
  BY <1>2, <1>3, <1>4, <1>5

\* The events of the tool calls, but for those of a verification.
LEMMA ToolEventsLeaveEdits ==
  ASSUME TypeOK,
         \/ AskUser \/ (\E approved \in BOOLEAN : UserAnswers(approved))
         \/ RequestVerificationRecovery \/ HandledToolCalls
  PROVE  LeavesEdits
<1>1. st \in RunStates
  BY DEF TypeOK
<1> USE DEF Raise, CompletionPoints
<1> USE StopConcludes, FailConcludes, GoToConcludes
<1>2. CASE AskUser
  <2>1. st' = st /\ UNCHANGED dirty /\ at \in {"tool", "prehook"} /\ Concludes /\ at' # "idle"
    BY <1>2 DEF AskUser
  <2> QED
    BY <1>2, <2>1, EventLeavesEdits DEF AskUser
<1>3. CASE \E approved \in BOOLEAN : UserAnswers(approved)
  <2>1. PICK approved \in BOOLEAN : UserAnswers(approved)
    BY <1>3
  <2>2. \/ GoTo("exec") \/ GoTo("prehook") \/ Finish("user_rejected", st, FALSE) \/ Fail(st)
    BY <2>1 DEF UserAnswers
  <2>3. st' = st /\ UNCHANGED dirty /\ at = "await"
    BY <2>1 DEF UserAnswers
  <2>4. Concludes /\ at' # "idle"
    <3>1. CASE Finish("user_rejected", st, FALSE)
      BY <2>3, <3>1, StopConcludes, Zenon
    <3>2. CASE GoTo("exec") \/ GoTo("prehook") \/ Fail(st)
      BY <2>3, <3>2
    <3> QED
      BY <2>2, <3>1, <3>2, Zenon
  <2> QED
    BY <2>1, <2>3, <2>4, EventLeavesEdits DEF UserAnswers
<1>4. CASE RequestVerificationRecovery
  <2>1. st'.lastVer = st.lastVer /\ UNCHANGED dirty /\ at = "verified"
    BY <1>1, <1>4 DEF RequestVerificationRecovery, RunStates
  <2>2. GoTo("save") \/ Fail(st')
    BY <1>4 DEF RequestVerificationRecovery
  <2>3. Concludes /\ at' # "idle"
    BY <2>2
  <2> QED
    BY <1>4, <2>1, <2>3, EventLeavesEdits DEF RequestVerificationRecovery
<1>5. CASE HandledToolCalls
  <2>1. st' = st /\ UNCHANGED dirty /\ at = "batch_done"
    BY <1>5 DEF HandledToolCalls
  <2>2. GoTo("loop") \/ Finish("stopped_by_limit", st, FALSE) \/ Fail(st)
    BY <1>5 DEF HandledToolCalls
  <2>3. Concludes /\ at' # "idle"
    <3>1. CASE Finish("stopped_by_limit", st, FALSE)
      BY <2>1, <3>1, StopConcludes, Zenon
    <3>2. CASE GoTo("loop") \/ Fail(st)
      BY <2>1, <3>2
    <3> QED
      BY <2>2, <3>1, <3>2, Zenon
  <2> QED
    BY <1>5, <2>1, <2>3, EventLeavesEdits DEF HandledToolCalls
<1> QED
  BY <1>2, <1>3, <1>4, <1>5

\* The terminal event: the result keeps what it says of the verification.
LEMMA EndLeavesEdits ==
  ASSUME TypeOK, NEW verdict \in Verdicts, EndKernel(verdict)
  PROVE  LeavesEdits
<1>1. st \in RunStates /\ result \in Results
  BY DEF TypeOK
<1>2. st'.lastVer = st.lastVer /\ UNCHANGED dirty /\ at = "kernel_end"
  BY <1>1 DEF EndKernel, RunStates
<1>3. at' # "idle"
  BY DEF EndKernel, CompletionThrows, GoTo, Fail, Finish
<1>4. Concludes
  BY <1>1, <1>2 DEF EndKernel, CompletionThrows, GoTo, Fail, Finish, Concludes, CompletionPoints,
    WorkVerified, Results, RunStates
<1> QED
  BY <1>2, <1>3, <1>4, EventLeavesEdits DEF EndKernel

\* The steps of the loop and of its model calls without a kernel event.
LEMMA ModelStepsLeaveEdits ==
  ASSUME TypeOK,
         \/ InitializeSession \/ AbortedAtStepStart \/ ModelRetries \/ ModelFails
         \/ CompleteWithoutReview \/ (\E verdict \in Verdicts : CompleteAfterReview(verdict))
         \/ (\E text \in BOOLEAN : SummaryArrives(text)) \/ SummaryFails \/ ReviewGrantsSteps
  PROVE  LeavesEdits
<1>1. st \in RunStates
  BY DEF TypeOK
<1> USE DEF LeavesEdits, Quiet, CompletionPoints
<1> USE StopConcludes, FailConcludes, GoToConcludes
<1>2. CASE InitializeSession \/ ModelRetries
  BY <1>2 DEF InitializeSession, ModelRetries
<1>3. CASE AbortedAtStepStart \/ (\E text \in BOOLEAN : SummaryArrives(text)) \/ SummaryFails
  BY <1>3 DEF AbortedAtStepStart, SummaryArrives, SummaryFails
<1>4. CASE ModelFails
  BY <1>4 DEF ModelFails
<1>5. CASE CompleteWithoutReview \/ (\E verdict \in Verdicts : CompleteAfterReview(verdict))
  <2>1. /\ st'.lastVer = st.lastVer /\ UNCHANGED <<disk, dirty, used>> /\ at = "complete"
        /\ \/ GoTo("summary")
           \/ Finish("success", st', FALSE) \/ Finish("incomplete", st', FALSE)
    BY <1>1, <1>5 DEF CompleteWithoutReview, CompleteAfterReview, CloseWith, RunStates
  <2>2. Concludes /\ at' # "idle"
    <3>1. CASE Finish("success", st', FALSE)
      BY <3>1, StopConcludes, Zenon
    <3>2. CASE Finish("incomplete", st', FALSE)
      BY <3>2, StopConcludes, Zenon
    <3>3. CASE GoTo("summary")
      BY <3>3
    <3> QED
      BY <2>1, <3>1, <3>2, <3>3, Zenon
  <2> QED
    BY <2>1, <2>2
<1>6. CASE ReviewGrantsSteps
  BY <1>1, <1>6 DEF ReviewGrantsSteps, RunStates
<1> QED
  BY <1>2, <1>3, <1>4, <1>5, <1>6

\* The steps of a tool call without a kernel event, but for an edit.
LEMMA ToolStepsLeaveEdits ==
  ASSUME TypeOK,
         \/ UsePlanModeTool \/ PolicyAllows \/ HooksContinue \/ Deny \/ AbortedWhileAwaiting
         \/ (\E evidence \in BOOLEAN : RunOtherTool(evidence))
         \/ (\E tool \in {"shell", "test"}, success, changed, found \in BOOLEAN :
               RunShell(tool, success, changed, found))
         \/ SaveVerification \/ ContinueBatch \/ StartCompaction \/ FinishCompaction
         \/ RecoverAfterBatch
  PROVE  LeavesEdits
<1>1. st \in RunStates
  BY DEF TypeOK
<1> USE DEF LeavesEdits, Quiet, CompletionPoints
<1> USE StopConcludes, FailConcludes, GoToConcludes
<1>2. CASE UsePlanModeTool \/ PolicyAllows \/ HooksContinue \/ SaveVerification \/ RecoverAfterBatch
  BY <1>2 DEF UsePlanModeTool, PolicyAllows, HooksContinue, SaveVerification, RecoverAfterBatch
<1>3. CASE Deny \/ AbortedWhileAwaiting
  BY <1>3 DEF Deny, AbortedWhileAwaiting
<1>4. CASE \E evidence \in BOOLEAN : RunOtherTool(evidence)
  BY <1>1, <1>4 DEF RunOtherTool, RunStates
<1>5. CASE \E tool \in {"shell", "test"}, success, changed, found \in BOOLEAN :
             RunShell(tool, success, changed, found)
  BY <1>1, <1>5 DEF RunShell, FoundChanges, RunStates
<1>6. CASE ContinueBatch \/ StartCompaction \/ FinishCompaction
  BY <1>6 DEF ContinueBatch, StartCompaction, FinishCompaction, NextToolCall
<1> QED
  BY <1>2, <1>3, <1>4, <1>5, <1>6

\* The steps of a completion that write no checkpoint, the failures that end no process, and
\* the user's abort.
LEMMA OtherStepsLeaveEdits ==
  ASSUME TypeOK,
         \/ PublishEnd \/ RunSessionEndHooks \/ WriteFinalManifest \/ StepThrows
         \/ CompletionStepThrows \/ (BusThrows /\ ~result.isolated)
  PROVE  LeavesEdits
<1>1. used \in Counters
  BY DEF TypeOK
<1>2. Fault => ~Undisturbed' /\ used'.runs = used.runs
  BY <1>1 DEF Fault, Undisturbed, Counters
<1> USE DEF LeavesEdits, Quiet, CompletionPoints
<1> USE StopConcludes, FailConcludes, GoToConcludes
<1>3. CASE PublishEnd \/ RunSessionEndHooks \/ WriteFinalManifest
  BY <1>3, GoToKeepsResult DEF PublishEnd, RunSessionEndHooks, WriteFinalManifest
<1>4. CASE StepThrows
  BY <1>2, <1>4 DEF StepThrows, WorkPoints, CaughtByHandler
<1>5. CASE CompletionStepThrows \/ (BusThrows /\ ~result.isolated)
  BY <1>2, <1>5, GoToKeepsResult DEF CompletionStepThrows, CompletionThrows, BusThrows
<1> QED
  BY <1>3, <1>4, <1>5

\* The head of the loop: a first step that is rejected is that of a resumed run.
LEMMA HeadKeeps ==
  ASSUME IInv, IInv', VInv, LoopHead, Undisturbed' => Undisturbed
  PROVE  VInv'
<1>1. /\ st' = st /\ UNCHANGED dirty /\ at = "loop" /\ at' # "idle" /\ Concludes
      /\ UNCHANGED used \/ FailedWrite
  <2>1. /\ st' = st /\ UNCHANGED dirty /\ at = "loop" /\ (UNCHANGED used \/ FailedWrite)
        /\ GoTo("assemble") \/ Fail(st)
    BY DEF LoopHead, IInv, StepAgrees, Raise
  <2> QED
    BY <2>1, FailConcludes, GoToConcludes DEF CompletionPoints
<1>2. TypeOK /\ used \in Counters
  BY DEF IInv, TypeOK
<1>3. FailedWrite => ~Undisturbed' /\ used'.runs = used.runs
  BY <1>2, FailedWriteCosts DEF Undisturbed, Counters
<1>4. ASSUME Undisturbed'
      PROVE  \/ UNCHANGED disk /\ (at' = "loop" \/ disk.saved)
             \/ disk' = [saved |-> TRUE, kernel |-> kernel', st |-> st']
  <2>1. CASE rejected'.event = "step_started" /\ UNCHANGED <<disk, used>>
    <3>1. used.runs > 1
      BY <2>1 DEF IInv, RejectionKnown, OnlyKnownRejections, NoRejection
    <3>2. disk.saved
      BY <1>2, <1>4, <3>1 DEF VInv, VerificationAgrees, Counters
    <3> QED
      BY <2>1, <3>2
  <2>2. loop.step < EffectiveMaxSteps(st)
    BY <1>1 DEF IInv, StepAgrees
  <2>3. \/ disk' = [saved |-> TRUE, kernel |-> kernel', st |-> st']
        \/ FailedWrite
        \/ rejected' = [event |-> "step_started", phase |-> kernel.phase] /\ UNCHANGED <<disk, used>>
    BY <2>2 DEF LoopHead, Raise
  <2> QED
    BY <1>3, <1>4, <2>1, <2>3
<1> QED
  BY <1>1, <1>2, <1>3, <1>4, LeavesEditsKeeps DEF LeavesEdits

\* A verification that is rejected leaves a failed one behind.
LEMMA StartVerificationAgrees ==
  ASSUME IInv, IInv', VInv, StartVerification, Undisturbed' => Undisturbed
  PROVE  VInv'
<1>1. /\ st' = st /\ UNCHANGED dirty /\ at = "verify" /\ at' # "idle" /\ Concludes
  BY FailConcludes, GoToConcludes DEF StartVerification, Raise, CompletionPoints
<1>2. TypeOK /\ used \in Counters
  BY DEF IInv, TypeOK
<1>3. FailedWrite => ~Undisturbed'
  BY <1>2, FailedWriteCosts DEF Undisturbed, Counters
<1>4. ASSUME Undisturbed' PROVE VerificationAgrees'
  <2>1. VerificationAgrees
    BY <1>4 DEF VInv
  <2>2. CASE disk' = [saved |-> TRUE, kernel |-> kernel', st |-> st'] /\ at' = "verifying"
    BY <1>1, <2>1, <2>2 DEF VerificationAgrees
  <2>3. CASE rejected'.event = "verification_started" /\ UNCHANGED <<disk, used>>
    <3>1. st'.lastVer = "failed"
      BY <2>3 DEF IInv, RejectionKnown, OnlyKnownRejections, NoRejection
    <3> QED
      BY <1>1, <2>1, <2>3, <3>1 DEF VerificationAgrees
  <2> QED
    BY <1>3, <1>4, <2>2, <2>3 DEF StartVerification, Raise, GoTo
<1>5. VerifiedResults'
  BY <1>1, ConcludesKeeps
<1> QED
  BY <1>4, <1>5 DEF VInv

\* A verification that ends leaves nothing unverified, and is never rejected.
LEMMA FinishVerificationAgrees ==
  ASSUME IInv, IInv', VInv, NEW outcome \in {"passed", "failed"}, FinishVerification(outcome)
  PROVE  VInv'
<1>1. TypeOK /\ used \in Counters /\ st \in RunStates
  BY DEF IInv, TypeOK
<1>2. /\ st'.lastVer = outcome /\ dirty' = "clean" /\ at = "verifying" /\ at' # "idle"
  BY <1>1 DEF FinishVerification, Raise, Fail, Finish, GoTo, RunStates
<1>3. Concludes
  BY <1>1, FailConcludes, GoToConcludes DEF FinishVerification, Raise, CompletionPoints, RunStates
<1>4. FailedWrite => ~Undisturbed'
  BY <1>1, FailedWriteCosts DEF Undisturbed, Counters
<1>5. ASSUME Undisturbed' PROVE VerificationAgrees'
  <2>1. rejected'.event # "verification_finished"
    BY DEF IInv, RejectionKnown, OnlyKnownRejections, NoRejection
  <2>2. disk' = [saved |-> TRUE, kernel |-> kernel', st |-> st']
    BY <1>4, <1>5, <2>1 DEF FinishVerification, Raise
  <2> QED
    BY <1>2, <2>2 DEF VerificationAgrees
<1>6. VerifiedResults'
  BY <1>3, ConcludesKeeps
<1> QED
  BY <1>5, <1>6 DEF VInv

\* A verification follows an edit at once.
LEMMA EditKeeps ==
  ASSUME IInv, VInv, RunEditTool
  PROVE  VInv'
<1>1. st \in RunStates
  BY DEF IInv, TypeOK
<1>2. /\ at = "exec" /\ at' = "verify" /\ st'.lastVer = st.lastVer /\ UNCHANGED <<disk, used>>
  BY <1>1 DEF RunEditTool, GoTo, Quiet, VerificationDue, AutoVerify, FoundChanges, RunStates
<1> QED
  BY <1>2 DEF VInv, VerifiedResults, VerificationAgrees, Undisturbed, CompletionPoints

\* A run begins with the verification its checkpoint remembers.
LEMMA StartKeepsVerification ==
  ASSUME IInv, BInv, VInv, NEW mode \in Modes, StartRun(mode)
  PROVE  VInv'
<1>1. used \in Counters /\ disk.st \in RunStates
  BY DEF IInv, TypeOK, Files
<1>2. /\ at = "idle" /\ at' = "init" /\ UNCHANGED <<disk, dirty>>
      /\ used'.runs = used.runs + 1
      /\ Undisturbed' => Undisturbed
  BY <1>1 DEF StartRun, GoTo, Counters, Undisturbed
<1>3. ASSUME Undisturbed' PROVE VerificationAgrees'
  <2>1. VerificationAgrees
    BY <1>2, <1>3 DEF VInv
  <2>2. CASE used.runs = 0
    <3>1. st' = FreshState /\ disk = NoFile /\ NoFile.st = FreshState
      BY <1>2, <2>2 DEF StartRun, BInv, AttemptsAgree, IInv, BeforeFirstStep, NoFile
    <3> QED
      BY <1>1, <1>2, <2>1, <2>2, <3>1 DEF VerificationAgrees, Counters
  <2>3. CASE used.runs # 0
    <3>1. disk.saved
      BY <1>2, <2>1, <2>3 DEF VerificationAgrees
    <3>2. st'.lastVer = disk.st.lastVer
      BY <1>1, <2>3, <3>1 DEF StartRun, Restore, RestoredState, RunStates
    <3> QED
      BY <1>2, <2>1, <3>1, <3>2 DEF VerificationAgrees
  <2> QED
    BY <2>2, <2>3
<1> QED
  BY <1>2, <1>3 DEF VInv, VerifiedResults, CompletionPoints

\* A run that returns leaves what its checkpoint says.
LEMMA ReturnKeeps ==
  ASSUME BInv, VInv, Return
  PROVE  VInv'
<1>1. at = "bus_finish" /\ at' = "idle" /\ UNCHANGED <<disk, dirty, used>>
  BY DEF Return, Forget
<1> QED
  BY <1>1 DEF VInv, VerifiedResults, VerificationAgrees, Undisturbed, CompletionPoints, BInv, AttemptsAgree

\* Every step keeps verifications and edits in agreement.
LEMMA NextVerified ==
  ASSUME IInv, IInv', BInv, VInv, [Next]_vars
  PROVE  VInv'
<1>1. TypeOK /\ (Undisturbed' => Undisturbed /\ ~Crash /\ ~Fault)
  BY DisturbanceStays DEF IInv
<1>2. CASE UNCHANGED vars \/ UserAborts
  <2>1. UNCHANGED <<st, disk, at, used, dirty, result>>
    BY <1>2 DEF vars, UserAborts
  <2> QED
    BY <2>1 DEF VInv, VerifiedResults, VerificationAgrees, Undisturbed
<1>3. ASSUME NEW mode \in Modes, StartRun(mode) PROVE VInv'
  BY <1>3, StartKeepsVerification
<1>4. CASE InitializeSession \/ AbortedAtStepStart \/ AssemblePrompt \/ ModelStep
  BY <1>1, <1>4, ModelStepsLeaveEdits, ModelEventsLeaveEdits, LeavesEditsKeeps DEF ModelStep
<1>5. CASE ToolStep \/ Answer
  BY <1>1, <1>5, ToolStepsLeaveEdits, ToolEventsLeaveEdits, LeavesEditsKeeps,
    StartVerificationAgrees, FinishVerificationAgrees, EditKeeps DEF ToolStep, Answer
<1>6. CASE LoopHead
  BY <1>1, <1>6, HeadKeeps
<1>7. CASE PublishEnd \/ RunSessionEndHooks \/ WriteFinalManifest \/ StepThrows
             \/ CompletionStepThrows \/ (BusThrows /\ ~result.isolated)
  BY <1>1, <1>7, OtherStepsLeaveEdits, LeavesEditsKeeps
<1>8. CASE \E verdict \in Verdicts : EndKernel(verdict)
  BY <1>1, <1>8, EndLeavesEdits, LeavesEditsKeeps
<1>9. CASE Crash \/ (BusThrows /\ result.isolated)
  <2>1. at' = "idle" /\ ~Undisturbed'
    BY <1>1, <1>9 DEF Crash, BusThrows, Forget
  <2> QED
    BY <2>1 DEF VInv, VerifiedResults, CompletionPoints
<1>10. CASE Return
  BY <1>10, ReturnKeeps
<1> QED
  BY <1>2, <1>3, <1>4, <1>5, <1>6, <1>7, <1>8, <1>9, <1>10
     DEF Next, RunStep, CompletionStep, Environment

\* A run that ends successfully and says it is verified has verified the last edit of the
\* session, over aborted, rejected and resumed runs, unless something crashed or failed.
THEOREM EditsVerified == Spec => []EditsAreVerified
<1>1. Init => VInv
  BY DEF Init, VInv, VerifiedResults, VerificationAgrees, CompletionPoints, NoResult, NoFile, FreshState
<1>2. IInv /\ IInv' /\ BInv /\ VInv /\ [Next]_vars => VInv'
  BY NextVerified
<1>3. VInv => EditsAreVerified
  BY DEF VInv, VerifiedResults, VerificationAgrees, Undisturbed, EditsAreVerified, CompletionPoints
<1> QED
  BY <1>1, <1>2, <1>3, Invariance, AccountedAlways, PTL DEF Spec
=============================================================================
