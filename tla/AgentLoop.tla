------------------------------ MODULE AgentLoop ------------------------------
(***************************************************************************)
(* One agent session: a sequence of runs of the agent loop over the same   *)
(* session directory (packages/core/src/agent/runtime).  A run creates or  *)
(* resumes the session, then repeats steps -- assemble the prompt, call    *)
(* the model, handle the batch of tool calls it asks for, or complete from *)
(* its text -- until completeRun has persisted the outcome.                *)
(*                                                                         *)
(* Every kernel event is applied to memory and checkpointed to             *)
(* run-state.json; the manifest is written separately.  The user may abort *)
(* at any time, a write or a listener may fail, the process may crash      *)
(* between any two steps, and a crash inside a checkpoint write leaves a   *)
(* file that cannot be parsed.                                             *)
(***************************************************************************)
EXTENDS RunKernel

CONSTANTS
  BaseMaxSteps,   \* task.maxSteps after applyRecommendedMaxSteps
  Modes,          \* the task modes a run may be started in
  MaxBatch,       \* bound: tool calls in one model response
  MaxRuns,        \* bound: runs of the session
  MaxCrashes,     \* bound: crashes of the process
  MaxFaults,      \* bound: failed writes and failing listeners
  ClosingTools    \* may a model answer a closing turn with tool calls?

AgentModes == {"ask", "plan", "edit", "agent"}

ASSUME LoopAssumption ==
  /\ BaseMaxSteps \in Nat \ {0}
  /\ Modes \subseteq AgentModes
  /\ MaxBatch \in Nat \ {0}
  /\ MaxRuns \in Nat /\ MaxCrashes \in Nat /\ MaxFaults \in Nat
  /\ ClosingTools \in BOOLEAN

VARIABLES
  kernel,    \* runState.kernel, in memory
  st,        \* the rest of runState the loop decides on, in memory
  disk,      \* run-state.json: saved is FALSE when it is absent or torn
  manifest,  \* session.json: status, and effectiveMaxSteps or 0
  verFile,   \* verification.json: its result, or none
  at,        \* the await the run is suspended at
  loop,      \* locals of the run: step, calls left, approval source, ...
  aborted,   \* input.abortSignal.aborted
  result,    \* the result being completed
  rejected,  \* history: the first event the kernel threw on in this run
  dirty,     \* history: last change of files not yet verified, and by what
  used       \* runs, crashes and faults so far, and torn checkpoints

vars == <<kernel, st, disk, manifest, verFile, at, loop, aborted, result,
          rejected, dirty, used>>

-----------------------------------------------------------------------------
(* Policy and budget (task-strategy.ts, run-state.ts).                     *)

EditMode(mode) == mode \in {"edit", "agent"}

AutoVerify(mode) == EditMode(mode)

MaxRecoveryAttempts(mode) == IF EditMode(mode) THEN 2 ELSE 0

AtLeast(a, b) == IF a >= b THEN a ELSE b
AtMost(a, b) == IF a <= b THEN a ELSE b

\* Steps granted by one recovery attempt.
ExtraSteps == AtMost(3, AtLeast(2, BaseMaxSteps \div 4))

ExplorationBudget(mode) ==
  LET capped == AtLeast(2, AtMost(4, (BaseMaxSteps * 2) \div 5))
  IN  IF EditMode(mode) THEN AtLeast(4, capped) ELSE capped

EffectiveMaxSteps(s) == BaseMaxSteps + s.extra

\* shouldEnterClosingTurn: evidence stands for hasEnoughExplorationEvidence.
ShouldEnterClosingTurn(mode, step, s) ==
  LET max == EffectiveMaxSteps(s) IN
  \/ step >= max
  \/ /\ step = max - 1
     /\ \/ ~s.modified
        \/ s.lastVer = "passed"
        \/ s.lastVer = "none" /\ ~AutoVerify(mode)
  \/ /\ step # max - 1
     /\ ~EditMode(mode)
     /\ ~s.modified
     /\ step >= ExplorationBudget(mode) \/ s.evidence

\* classifyCompletion and resolveEffectiveStatus.
ReviewFailed(s) == s.modified /\ s.lastVer = "passed" /\ s.lastRev = "again"

WorkVerified(s) == s.lastVer = "passed" /\ ~ReviewFailed(s)

Upgradable == {"stopped_by_limit", "permission_denied", "user_rejected"}

EffectiveStatus(status, s) ==
  IF status = "success" /\ ReviewFailed(s) THEN "stopped_by_limit"
  ELSE IF status \in Upgradable /\ WorkVerified(s) THEN "success"
  ELSE status

ResultStatuses == Upgradable \cup {"success", "incomplete", "cancelled", "failed"}

SessionStatuses == ResultStatuses \cup
  {"running", "retrying", "awaiting_approval", "compacting"}

TerminalPhaseOf(status) ==
  IF status \in {"cancelled", "failed"} THEN status ELSE "completed"

-----------------------------------------------------------------------------
(* Run state: creation, persistence and restoration.                       *)

FreshState ==
  [closing |-> FALSE, modified |-> FALSE, evidence |-> FALSE,
   lastVer |-> "none", verAttempts |-> 0, lastRev |-> "none",
   revAttempts |-> 0, extra |-> 0]

FreshKernel == CreateRunKernelState(BaseMaxSteps)

NoFile == [saved |-> FALSE, kernel |-> FreshKernel, st |-> FreshState]

\* Mutant: a terminal phase survives the resumption.
SanitizeKeepsTerminal(k) ==
  IF k.phase \in ToolPhases /\ k.pendingToolCalls < 1
  THEN [k EXCEPT !.phase = "assembling_prompt", !.pendingToolCalls = 0]
  ELSE k

\* sanitizeKernelStateForResume on a state the runtime wrote.
Sanitize(k) ==
  IF k.phase \in TerminalPhases
  THEN [k EXCEPT !.phase = "recovering", !.pendingToolCalls = 0]
  ELSE IF k.phase \in ToolPhases /\ k.pendingToolCalls < 1
  THEN [k EXCEPT !.phase = "assembling_prompt", !.pendingToolCalls = 0]
  ELSE IF k.pendingToolCalls > 0 /\ k.phase \notin ToolPhases
  THEN [k EXCEPT !.pendingToolCalls = 0]
  ELSE k

\* applyManifestBudget: the manifest's budget replaces the run state's.
ManifestExtra == manifest.budget - BaseMaxSteps

RestoredKernel(k) ==
  IF ManifestExtra > 0 THEN [k EXCEPT !.maxSteps = manifest.budget] ELSE k

\* Mutant: the attempts already made are not read back.
RestoredWithoutAttempts(s) == [s EXCEPT !.verAttempts = 0, !.revAttempts = 0]

RestoredState(s) ==
  IF ManifestExtra > 0 THEN [s EXCEPT !.extra = ManifestExtra] ELSE s

\* restoreRunStateForSession
Restore ==
  IF disk.saved
  THEN /\ kernel' = RestoredKernel(Sanitize(disk.kernel))
       /\ st' = RestoredState(disk.st)
  ELSE /\ kernel' = RestoredKernel(FreshKernel)
       /\ st' = RestoredState([FreshState EXCEPT !.lastVer = verFile])

NoRejection == [event |-> "none", phase |-> "none"]

NoResult == [status |-> "none", upgraded |-> FALSE, verified |-> FALSE,
             isolated |-> FALSE, ended |-> FALSE]

FreshLoop(mode) == [mode |-> mode, step |-> 0, left |-> 0, force |-> FALSE,
                    text |-> FALSE, source |-> "none"]

\* The run is over, or died: nothing of it is left in memory.
Forget ==
  /\ at' = "idle"
  /\ kernel' = FreshKernel /\ st' = FreshState
  /\ loop' = FreshLoop(loop.mode)
  /\ aborted' = FALSE
  /\ result' = NoResult
  /\ rejected' = NoRejection

Init ==
  /\ kernel = FreshKernel /\ st = FreshState
  /\ disk = NoFile
  /\ manifest = [status |-> "none", budget |-> 0]
  /\ verFile = "none"
  /\ at = "idle"
  /\ loop \in {FreshLoop(mode) : mode \in Modes}
  /\ aborted = FALSE
  /\ result = NoResult
  /\ rejected = NoRejection
  /\ dirty = "clean"
  /\ used = [runs |-> 0, crashes |-> 0, faults |-> 0, torn |-> 0]

-----------------------------------------------------------------------------
(* How a step of the run ends: it goes on, the run gets a result, or an    *)
(* exception reaches handleToolCall's or the controller's catch.           *)

\* Where an exception is caught by handleToolCall (or, for the second model
\* call, by the model step) when the run was aborted: the cancelled result
\* is then completed without isolating a failure of the completion.
CaughtByHandler == {"tool", "await", "prehook", "exec", "verify",
                    "verifying", "verified", "save", "post", "summary"}

WorkPoints == CaughtByHandler \cup
  {"init", "loop", "assemble", "model", "complete", "review_retry",
   "compacting", "batch_done"}

CompletionPoints ==
  {"publish_end", "manifest_end", "kernel_end", "hooks_end", "bus_finish"}

Points == WorkPoints \cup CompletionPoints \cup {"idle"}

\* A result is finalized from run state s and handed to completeRun.
Finish(status, s, isolated) ==
  /\ at' = "publish_end"
  /\ result' = [status |-> EffectiveStatus(status, s),
                upgraded |-> status # "success"
                             /\ EffectiveStatus(status, s) = "success",
                verified |-> status # "incomplete" /\ WorkVerified(s),
                isolated |-> isolated, ended |-> FALSE]

\* An exception: cancelled if the signal is aborted, failed otherwise.
Fail(s) == Finish(IF aborted THEN "cancelled" ELSE "failed", s,
                  ~(aborted /\ at \in CaughtByHandler))

Fault == used.faults < MaxFaults /\ used' = [used EXCEPT !.faults = @ + 1]

\* A write that fails may have truncated the file first.
FailedWrite ==
  /\ used.faults < MaxFaults
  /\ \/ UNCHANGED disk /\ used' = [used EXCEPT !.faults = @ + 1]
     \/ disk' = NoFile
        /\ used' = [used EXCEPT !.faults = @ + 1, !.torn = @ + 1]

SetStatus(status) == manifest' = [manifest EXCEPT !.status = status]

\* The model step sets the status back to running before its kernel event.
ManifestBeforeEvent ==
  IF at = "model" THEN [manifest EXCEPT !.status = "running"] ELSE manifest

\* applyRunKernelEventAndCheckpoint with run state s.  After says where the
\* run goes when the event is applied and persisted; it and the failure
\* branches fix at, result, loop and manifest.
Raise(type, next, command, s, After) ==
  /\ st' = s
  /\ \/ /\ Accepts(kernel, type, next, command)
        /\ kernel' = next
        /\ disk' = [saved |-> TRUE, kernel |-> next, st |-> s]
        /\ After
        /\ UNCHANGED <<rejected, used>>
     \/ /\ Accepts(kernel, type, next, command)
        /\ kernel' = next
        /\ FailedWrite
        /\ Fail(s)
        /\ manifest' = ManifestBeforeEvent
        /\ UNCHANGED <<loop, rejected>>
     \/ /\ ~Accepts(kernel, type, next, command)
        /\ rejected' = [event |-> type, phase |-> kernel.phase]
        /\ Fail(s)
        /\ manifest' = ManifestBeforeEvent
        /\ UNCHANGED <<kernel, disk, loop, used>>
  /\ UNCHANGED <<verFile, aborted>>

GoTo(point) == at' = point /\ UNCHANGED result

\* A step without a kernel event: the files of the session stay as they are.
Quiet == UNCHANGED <<kernel, disk, verFile, aborted, rejected, used>>

-----------------------------------------------------------------------------
(* Start of a run, and the head of the loop.                               *)

\* run(): the first run creates the session, later ones resume it.
StartRun(mode) ==
  /\ at = "idle"
  /\ used.runs < MaxRuns
  /\ used' = [used EXCEPT !.runs = @ + 1]
  /\ IF used.runs = 0
     THEN manifest' = [status |-> "running", budget |-> 0]
          /\ UNCHANGED <<kernel, st>>
     ELSE Restore /\ UNCHANGED manifest
  /\ GoTo("init")
  /\ loop' = FreshLoop(mode)
  /\ UNCHANGED <<disk, verFile, aborted, rejected, dirty>>

InitializeSession ==
  /\ at = "init"
  /\ SetStatus("running")
  /\ GoTo("loop")
  /\ Quiet /\ UNCHANGED <<st, loop, dirty>>

\* The loop condition: the event that opens the next step, or the end.
LoopHead ==
  /\ at = "loop"
  /\ IF loop.step < EffectiveMaxSteps(st)
     THEN Raise("step_started",
                StepStarted(kernel, loop.step + 1, EffectiveMaxSteps(st),
                            st.closing),
                "assemble_prompt", st,
                /\ GoTo("assemble")
                /\ loop' = [loop EXCEPT !.step = @ + 1]
                /\ UNCHANGED manifest)
     ELSE /\ Finish("stopped_by_limit", st, FALSE)
          /\ Quiet /\ UNCHANGED <<st, loop, manifest>>
  /\ UNCHANGED dirty

AbortedAtStepStart ==
  /\ at = "assemble"
  /\ aborted
  /\ Finish("cancelled", st, FALSE)
  /\ Quiet /\ UNCHANGED <<st, loop, manifest, dirty>>

\* buildStepAssembly decides whether this is the closing turn; the kernel's
\* own closingTurn is still the one of step_started.
AssemblePrompt ==
  /\ at = "assemble"
  /\ ~aborted
  /\ LET enter == ShouldEnterClosingTurn(loop.mode, loop.step, st)
     IN  Raise("prompt_assembled", PromptAssembled(kernel), "call_model",
               [st EXCEPT !.closing = @ \/ enter],
               /\ GoTo("model")
               /\ loop' = [loop EXCEPT !.force = enter]
               /\ UNCHANGED manifest)
  /\ UNCHANGED dirty

-----------------------------------------------------------------------------
(* The model call and completion from the model's text.                    *)

ModelRetries ==
  /\ at = "model"
  /\ manifest.status # "retrying"
  /\ SetStatus("retrying")
  /\ GoTo("model")
  /\ Quiet /\ UNCHANGED <<st, loop, dirty>>

\* The call throws: out of retries, or aborted in flight; or what follows it
\* does (hooks, listeners, the usage and summary files), with the status
\* already back to running.
ModelFails ==
  /\ at = "model"
  /\ Fail(st)
  /\ manifest' \in {manifest, ManifestBeforeEvent}
  /\ Quiet /\ UNCHANGED <<st, loop, dirty>>

ModelAsksForTools(n) ==
  /\ at = "model"
  /\ loop.force => ClosingTools
  /\ Raise("model_response_received", ToolCallsRequested(kernel, n),
           "handle_tool_calls", st,
           /\ GoTo("tool")
           /\ loop' = [loop EXCEPT !.left = n]
           /\ SetStatus("running"))
  /\ UNCHANGED dirty

ModelAnswers(text) ==
  /\ at = "model"
  /\ Raise("model_response_received", FinalTextReceived(kernel),
           "complete_from_model", st,
           /\ GoTo("complete")
           /\ loop' = [loop EXCEPT !.text = text]
           /\ SetStatus("running"))
  /\ UNCHANGED dirty

NeedsReview ==
  EditMode(loop.mode) /\ st.modified /\ st.lastVer # "failed"

\* resolveTerminalText up to its second model call.
CloseWith(s) ==
  /\ st' = s
  /\ IF loop.text THEN Finish("success", s, FALSE)
     ELSE IF loop.force THEN Finish("incomplete", s, FALSE)
     ELSE GoTo("summary")

CompleteWithoutReview ==
  /\ at = "complete"
  /\ ~NeedsReview
  /\ CloseWith([st EXCEPT !.closing = TRUE])
  /\ Quiet /\ UNCHANGED <<loop, manifest, dirty>>

ReviewAttemptsLeft == st.revAttempts < MaxRecoveryAttempts(loop.mode)

CompleteAfterReview(verdict) ==
  /\ at = "complete"
  /\ NeedsReview
  /\ verdict = "again" => ~ReviewAttemptsLeft
  /\ CloseWith([st EXCEPT !.closing = TRUE, !.lastRev = verdict])
  /\ Quiet /\ UNCHANGED <<loop, manifest, dirty>>

\* The review asks for another iteration and grants the steps for it.
ReviewGrantsSteps ==
  /\ at = "complete"
  /\ NeedsReview
  /\ ReviewAttemptsLeft
  /\ st' = [st EXCEPT !.closing = TRUE, !.lastRev = "again",
                      !.revAttempts = @ + 1, !.extra = @ + ExtraSteps]
  /\ kernel' = [kernel EXCEPT !.maxSteps = EffectiveMaxSteps(st')]
  /\ GoTo("review_retry")
  /\ UNCHANGED <<disk, verFile, aborted, rejected, used, loop, manifest,
                 dirty>>

RequestReviewRecovery ==
  /\ at = "review_retry"
  /\ Raise("recovery_requested", RecoveryRequested(kernel), "assemble_prompt",
           [st EXCEPT !.closing = FALSE],
           GoTo("loop") /\ UNCHANGED <<loop, manifest>>)
  /\ UNCHANGED dirty

\* The second model call, asking for a plain-text summary.
SummaryArrives(text) ==
  /\ at = "summary"
  /\ Finish(IF text THEN "success" ELSE "incomplete", st, FALSE)
  /\ Quiet /\ UNCHANGED <<st, loop, manifest, dirty>>

SummaryFails ==
  /\ at = "summary"
  /\ Fail(st)
  /\ Quiet /\ UNCHANGED <<st, loop, manifest, dirty>>

-----------------------------------------------------------------------------
(* Tool calls: authorization, hooks, approval.                             *)

\* enter_plan_mode and exit_plan_mode are handled without authorization.
UsePlanModeTool ==
  /\ at = "tool"
  /\ GoTo("post")
  /\ Quiet /\ UNCHANGED <<st, loop, manifest, dirty>>

PolicyAllows ==
  /\ at = "tool"
  /\ GoTo("prehook")
  /\ Quiet /\ UNCHANGED <<st, loop, manifest, dirty>>

HooksContinue ==
  /\ at = "prehook"
  /\ GoTo("exec")
  /\ Quiet /\ UNCHANGED <<st, loop, manifest, dirty>>

\* A deny by policy or hook, or an ask with nobody to answer it.
Deny ==
  /\ at \in {"tool", "prehook"}
  /\ Finish("permission_denied", st, FALSE)
  /\ Quiet /\ UNCHANGED <<st, loop, manifest, dirty>>

\* Mutant: the interrupt is not checkpointed before the user is asked.
AskUserUnsaved ==
  /\ at \in {"tool", "prehook"}
  /\ kernel' = ApprovalRequested(kernel)
  /\ GoTo("await")
  /\ loop' = [loop EXCEPT !.source =
                IF at = "tool" THEN "permission" ELSE "hook"]
  /\ SetStatus("awaiting_approval")
  /\ UNCHANGED <<st, disk, verFile, aborted, rejected, dirty, used>>

\* onAwaiting: the kernel event, then the manifest.
AskUser ==
  /\ at \in {"tool", "prehook"}
  /\ Raise("approval_requested", ApprovalRequested(kernel), "none", st,
           /\ GoTo("await")
           /\ loop' = [loop EXCEPT !.source =
                         IF at = "tool" THEN "permission" ELSE "hook"]
           /\ SetStatus("awaiting_approval"))
  /\ UNCHANGED dirty

\* onResolved: the kernel event, then the manifest (a rejection goes on to
\* completeRun, which writes the manifest again).
UserAnswers(approved) ==
  /\ at = "await"
  /\ ~aborted
  /\ Raise("approval_resolved", ApprovalResolved(kernel, approved), "none", st,
           /\ UNCHANGED loop
           /\ SetStatus("running")
           /\ IF approved
              THEN GoTo(IF loop.source = "hook" THEN "exec" ELSE "prehook")
              ELSE Finish("user_rejected", st, FALSE))
  /\ UNCHANGED dirty

\* Mutant: nobody listens to the abort signal while the user is asked.
AbortUnheardWhileAwaiting ==
  /\ at = "await" /\ aborted
  /\ UNCHANGED vars

\* waitWithAbortSignal rejects; the kernel stays in awaiting_approval.
AbortedWhileAwaiting ==
  /\ at = "await"
  /\ aborted
  /\ Fail(st)
  /\ Quiet /\ UNCHANGED <<st, loop, manifest, dirty>>

-----------------------------------------------------------------------------
(* Tool calls: execution and change tracking.                              *)

FoundChanges(s, found) == [s EXCEPT !.modified = @ \/ found]

\* Mutant: an edit after a passed verification is not verified.
VerificationDueOnce(tool, s) ==
  AutoVerify(loop.mode) /\ s.lastVer # "passed"

\* Verification follows an edit at once, a shell command when it may have
\* repaired a failed verification, and a test command when nothing was
\* modified or verified yet.
VerificationDue(tool, s) ==
  /\ AutoVerify(loop.mode)
  /\ \/ tool = "edit"
     \/ tool \in {"shell", "test"} /\ s.modified /\ s.lastVer = "failed"
     \/ tool = "test" /\ ~s.modified /\ s.lastVer = "none"

\* A tool that fails, or changes nothing; it may complete the evidence an
\* ask or plan run looks for.
RunOtherTool(evidence) ==
  /\ at = "exec"
  /\ st' = [st EXCEPT !.evidence = @ \/ (evidence /\ ~EditMode(loop.mode))]
  /\ GoTo("post")
  /\ Quiet /\ UNCHANGED <<loop, manifest, dirty>>

\* A file edit tool succeeds; the permission engine allows it in no other
\* mode.
RunEditTool ==
  /\ at = "exec"
  /\ EditMode(loop.mode)
  /\ st' = FoundChanges(st, TRUE)
  /\ dirty' = "edit"
  /\ GoTo(IF VerificationDue("edit", st') THEN "verify" ELSE "post")
  /\ Quiet /\ UNCHANGED <<loop, manifest>>

\* run_shell: whether it changed files, and whether git status then reports
\* changes (its own, or older ones), are independent; a failed command is
\* not followed by a look at git.
RunShell(tool, success, changed, found) ==
  /\ at = "exec"
  /\ tool \in {"shell", "test"}
  /\ found => success
  /\ st' = FoundChanges(st, found)
  /\ dirty' = IF changed /\ dirty = "clean" THEN "shell" ELSE dirty
  /\ GoTo(IF success /\ VerificationDue(tool, st') THEN "verify" ELSE "post")
  /\ Quiet /\ UNCHANGED <<loop, manifest>>

-----------------------------------------------------------------------------
(* Tool calls: automatic verification.                                     *)

StartVerification ==
  /\ at = "verify"
  /\ Raise("verification_started", VerificationStarted(kernel), "none", st,
           GoTo("verifying") /\ UNCHANGED <<loop, manifest>>)
  /\ UNCHANGED dirty

\* The verification ran and its result is recorded, then the kernel hears.
FinishVerification(outcome) ==
  /\ at = "verifying"
  /\ Raise("verification_finished", VerificationFinished(kernel), "none",
           [st EXCEPT !.lastVer = outcome],
           GoTo("verified") /\ UNCHANGED <<loop, manifest>>)
  /\ dirty' = "clean"

VerificationRecovers ==
  st.lastVer = "failed" /\ st.verAttempts < MaxRecoveryAttempts(loop.mode)

\* Another attempt and the steps for it, granted before the kernel event.
RequestVerificationRecovery ==
  /\ at = "verified"
  /\ VerificationRecovers
  /\ LET s == [st EXCEPT !.verAttempts = @ + 1, !.extra = @ + ExtraSteps]
     IN  Raise("recovery_requested",
               RecoveryRequested(
                 [kernel EXCEPT !.maxSteps = EffectiveMaxSteps(s)]),
               "assemble_prompt", s,
               GoTo("save") /\ UNCHANGED <<loop, manifest>>)
  /\ UNCHANGED dirty

SaveVerification ==
  /\ \/ at = "save"
     \/ at = "verified" /\ ~VerificationRecovers
  /\ verFile' = st.lastVer
  /\ GoTo("post")
  /\ UNCHANGED <<kernel, st, disk, manifest, loop, aborted, rejected, dirty,
                 used>>

-----------------------------------------------------------------------------
(* Between tool calls, and the end of the batch.                           *)

\* The for loop over the batch; no abort check between two calls.
NextToolCall ==
  /\ loop' = [loop EXCEPT !.left = @ - 1]
  /\ GoTo(IF loop.left > 1 THEN "tool" ELSE "batch_done")

ContinueBatch ==
  /\ at = "post"
  /\ NextToolCall
  /\ Quiet /\ UNCHANGED <<st, manifest, dirty>>

StartCompaction ==
  /\ at = "post"
  /\ SetStatus("compacting")
  /\ GoTo("compacting")
  /\ Quiet /\ UNCHANGED <<st, loop, dirty>>

\* The summary arrives, or fails and the failure is only published.
FinishCompaction ==
  /\ at = "compacting"
  /\ SetStatus("running")
  /\ NextToolCall
  /\ Quiet /\ UNCHANGED <<st, dirty>>

\* Mutant: a batch is always reported as handled.
AlwaysAcceptToolCallsHandled == TRUE

CanAcceptToolCallsHandled == kernel.phase \in {"handling_tools", "executing_tool"}

HandledToolCalls ==
  /\ at = "batch_done"
  /\ CanAcceptToolCallsHandled
  /\ Raise("tool_calls_handled", ToolCallsHandled(kernel),
           IF AtStepLimit(kernel) THEN "finalize" ELSE "assemble_prompt", st,
           /\ IF AtStepLimit(kernel) THEN Finish("stopped_by_limit", st, FALSE)
                                     ELSE GoTo("loop")
           /\ UNCHANGED <<loop, manifest>>)
  /\ UNCHANGED dirty

\* The batch left the kernel recovering: nothing is handed to it.
RecoverAfterBatch ==
  /\ at = "batch_done"
  /\ ~CanAcceptToolCallsHandled
  /\ GoTo("loop")
  /\ Quiet /\ UNCHANGED <<st, loop, manifest, dirty>>

-----------------------------------------------------------------------------
(* completeRun, step by step.                                              *)

PublishEnd ==
  /\ at = "publish_end"
  /\ GoTo("manifest_end")
  /\ Quiet /\ UNCHANGED <<st, loop, manifest, dirty>>

\* Mutant: the second completion keeps the manifest of the first.
WriteFinalManifestOnce ==
  /\ at = "manifest_end"
  /\ manifest' = IF result.isolated /\ manifest.status = "success" THEN manifest
                 ELSE [status |-> result.status,
                       budget |-> EffectiveMaxSteps(st)]
  /\ GoTo("kernel_end")
  /\ Quiet /\ UNCHANGED <<st, loop, dirty>>

WriteFinalManifest ==
  /\ at = "manifest_end"
  /\ manifest' = [status |-> result.status, budget |-> EffectiveMaxSteps(st)]
  /\ GoTo("kernel_end")
  /\ Quiet /\ UNCHANGED <<st, loop, dirty>>

\* An exception inside completeRun: completed again as failed or cancelled,
\* or, the second time, only logged.
CompletionThrows(s) ==
  IF result.isolated THEN GoTo("bus_finish") ELSE Fail(s)

\* saveRuntimeReview, then the terminal event.
EndKernel(verdict) ==
  LET s == IF EditMode(loop.mode) /\ st.modified /\ st.lastRev = "none"
           THEN [st EXCEPT !.lastRev = verdict] ELSE st
      next == RunEnded(kernel, TerminalPhaseOf(result.status))
  IN
  /\ at = "kernel_end"
  /\ st' = s
  /\ \/ /\ AcceptsEnd(next)
        /\ kernel' = next
        /\ disk' = [saved |-> TRUE, kernel |-> next, st |-> s]
        /\ at' = "hooks_end"
        /\ result' = [result EXCEPT !.ended = TRUE]
        /\ UNCHANGED <<rejected, used>>
     \/ /\ AcceptsEnd(next)
        /\ kernel' = next
        /\ FailedWrite
        /\ CompletionThrows(s)
        /\ UNCHANGED rejected
     \/ /\ ~AcceptsEnd(next)
        /\ rejected' = [event |-> "run_ended", phase |-> kernel.phase]
        /\ CompletionThrows(s)
        /\ UNCHANGED <<kernel, disk, used>>
  /\ UNCHANGED <<manifest, verFile, loop, aborted, dirty>>

RunSessionEndHooks ==
  /\ at = "hooks_end"
  /\ GoTo("bus_finish")
  /\ Quiet /\ UNCHANGED <<st, loop, manifest, dirty>>

\* eventBus.finish and flush, and run() returns.
Return ==
  /\ at = "bus_finish"
  /\ Forget
  /\ UNCHANGED <<disk, manifest, verFile, dirty, used>>

-----------------------------------------------------------------------------
(* Failures and the environment.                                           *)

\* A write, a listener or a port throws while the run is working.
StepThrows ==
  /\ at \in WorkPoints \ {"model", "summary"}
  /\ Fault
  /\ Fail(st)
  /\ UNCHANGED <<kernel, st, disk, manifest, verFile, loop, aborted, rejected,
                 dirty>>

CompletionStepThrows ==
  /\ at \in {"publish_end", "manifest_end", "hooks_end"}
  /\ Fault
  /\ CompletionThrows(st)
  /\ UNCHANGED <<kernel, st, disk, manifest, verFile, loop, aborted, rejected,
                 dirty>>

\* The event bus fails to finish: outside the isolated part, so the second
\* time it is run() itself that throws.
BusThrows ==
  /\ at = "bus_finish"
  /\ Fault
  /\ IF result.isolated
     THEN Forget
     ELSE Fail(st) /\ UNCHANGED <<kernel, st, loop, aborted, rejected>>
  /\ UNCHANGED <<disk, manifest, verFile, dirty>>

UserAborts ==
  /\ at # "idle"
  /\ ~aborted
  /\ aborted' = TRUE
  /\ UNCHANGED <<kernel, st, disk, manifest, verFile, at, loop, result,
                 rejected, dirty, used>>

\* Points whose next action writes run-state.json.
CheckpointPoints == {"loop", "assemble", "model", "review_retry", "tool",
  "prehook", "await", "verify", "verifying", "verified", "batch_done",
  "kernel_end"}

\* The process dies; in the middle of a checkpoint it leaves a torn file.
Crash ==
  /\ at # "idle"
  /\ used.crashes < MaxCrashes
  /\ \/ /\ UNCHANGED disk
        /\ used' = [used EXCEPT !.crashes = @ + 1]
     \/ /\ at \in CheckpointPoints
        /\ disk' = NoFile
        /\ used' = [used EXCEPT !.crashes = @ + 1, !.torn = @ + 1]
  /\ Forget
  /\ UNCHANGED <<manifest, verFile, dirty>>

-----------------------------------------------------------------------------
BatchSizes == 1 .. MaxBatch

Verdicts == {"ok", "again"}

ModelStep ==
  \/ ModelRetries
  \/ ModelFails
  \/ \E n \in BatchSizes : ModelAsksForTools(n)
  \/ \E text \in BOOLEAN : ModelAnswers(text)
  \/ CompleteWithoutReview
  \/ \E verdict \in Verdicts : CompleteAfterReview(verdict)
  \/ ReviewGrantsSteps
  \/ RequestReviewRecovery
  \/ \E text \in BOOLEAN : SummaryArrives(text)
  \/ SummaryFails

ToolStep ==
  \/ UsePlanModeTool
  \/ PolicyAllows
  \/ HooksContinue
  \/ Deny
  \/ AskUser
  \/ AbortedWhileAwaiting
  \/ \E evidence \in BOOLEAN : RunOtherTool(evidence)
  \/ RunEditTool
  \/ \E tool \in {"shell", "test"}, success, changed, found \in BOOLEAN :
       RunShell(tool, success, changed, found)
  \/ StartVerification
  \/ \E outcome \in {"passed", "failed"} : FinishVerification(outcome)
  \/ RequestVerificationRecovery
  \/ SaveVerification
  \/ ContinueBatch
  \/ StartCompaction
  \/ FinishCompaction
  \/ HandledToolCalls
  \/ RecoverAfterBatch

CompletionStep ==
  \/ PublishEnd
  \/ WriteFinalManifest
  \/ \E verdict \in Verdicts : EndKernel(verdict)
  \/ RunSessionEndHooks
  \/ Return

\* Everything the process does by itself once a run has started.
RunStep ==
  \/ InitializeSession
  \/ LoopHead
  \/ AbortedAtStepStart
  \/ AssemblePrompt
  \/ ModelStep
  \/ ToolStep
  \/ CompletionStep

Answer == \E approved \in BOOLEAN : UserAnswers(approved)

Environment == StepThrows \/ CompletionStepThrows \/ BusThrows \/ UserAborts \/ Crash

Next ==
  \/ \E mode \in Modes : StartRun(mode)
  \/ RunStep
  \/ Answer
  \/ Environment

Spec == Init /\ [][Next]_vars

\* The points at which the run awaits a model: its answer, the summary, a compaction's
\* summary, or a tool that runs a subagent.  Timer and abort listener of a model request
\* are dropped when the headers arrive: a server that then sends no body keeps the run
\* here, aborted or not.
ModelAwaits == {"model", "summary", "compacting", "exec"}

\* The event loop keeps running what is ready, commands, hooks and MCP requests end or
\* time out, and the user who is asked decides or aborts.  Nothing is assumed of the
\* model, of failures, crashes or new runs.  The weak fairness of one disjunction is
\* enough: elsewhere a run never waits.
Fairness == WF_vars(at \notin ModelAwaits /\ RunStep) /\ WF_vars(Answer)

FairSpec == Spec /\ Fairness

-----------------------------------------------------------------------------
(* Properties.                                                             *)

Verifications == {"none", "passed", "failed"}

RunStates ==
  [closing: BOOLEAN, modified: BOOLEAN, evidence: BOOLEAN,
   lastVer: Verifications, verAttempts: Nat, lastRev: {"none"} \cup Verdicts,
   revAttempts: Nat, extra: Nat]

RejectableEvents == {"none", "step_started", "prompt_assembled",
  "model_response_received", "tool_calls_handled", "approval_requested",
  "approval_resolved", "recovery_requested", "verification_started",
  "verification_finished", "run_ended"}

Files == [saved: BOOLEAN, kernel: KernelState, st: RunStates]

Manifests == [status: SessionStatuses \cup {"none"}, budget: Nat]

Loops == [mode: Modes, step: Nat, left: Nat, force: BOOLEAN, text: BOOLEAN,
          source: {"none", "permission", "hook"}]

Results == [status: ResultStatuses \cup {"none"}, upgraded: BOOLEAN,
            verified: BOOLEAN, isolated: BOOLEAN, ended: BOOLEAN]

Rejections == [event: RejectableEvents, phase: Phases \cup {"none"}]

DirtyStates == {"clean", "edit", "shell"}

Counters == [runs: Nat, crashes: Nat, faults: Nat, torn: Nat]

\* The type invariant: every variable stays in its domain.
TypeOK ==
  /\ kernel \in KernelState
  /\ st \in RunStates
  /\ disk \in Files
  /\ manifest \in Manifests
  /\ verFile \in Verifications
  /\ at \in Points
  /\ loop \in Loops
  /\ aborted \in BOOLEAN
  /\ result \in Results
  /\ rejected \in Rejections
  /\ dirty \in DirtyStates
  /\ used \in Counters

\* A phase the run can crash in although no step may start from it.
StuckPhases == ToolPhases \cup {"calling_model", "verifying"}

\* The kernel throws on a work event only when (1) a prompt is assembled in
\* a closing turn that an earlier step or an earlier run left behind, (2) the
\* first step of a resumed run starts from a phase that resumption does not
\* repair, (3) a batch goes on after a failed verification has put the
\* kernel in recovery; and on the end of a run only when (4) resumption has
\* cut the budget below the persisted step.  Everything else the runtime
\* sends is accepted, however runs, aborts, failures and crashes interleave.
OnlyKnownRejections ==
  \/ rejected = NoRejection
  \/ /\ rejected = [event |-> "prompt_assembled", phase |-> "assembling_prompt"]
     /\ kernel.closingTurn
     /\ loop.step > 1 \/ used.runs > 1
  \/ /\ rejected.event = "step_started"
     /\ rejected.phase \in StuckPhases
     /\ loop.step = 0 /\ used.runs > 1
  \/ /\ rejected.event \in {"approval_requested", "verification_started"}
     /\ rejected.phase = "recovering"
     /\ st.lastVer = "failed"
  \/ /\ rejected.event = "run_ended"
     /\ loop.step = 0 /\ used.runs > 1

\* Once the kernel has recorded the end of the run, the process only
\* completes: no step, model call or tool follows (completion.md, "finalize
\* cannot run tools"), not even in a later run of the session, which must
\* leave the terminal phase before it works.
NoWorkAfterTheEnd ==
  at \in WorkPoints => kernel.phase \notin TerminalPhases

\* While a step is under way run-state.json holds the very kernel state the
\* run is in, so a crash resumes from the phase it happened in.
KernelIsDurable ==
  at \in WorkPoints \ {"init", "loop", "review_retry"} =>
    disk.saved /\ disk.kernel = kernel

\* The loop condition never ends a run: at the limit tool_calls_handled
\* already has, and recovery always grants a step before it loops.
LoopBodyEntered == at = "loop" => loop.step < EffectiveMaxSteps(st)

\* The step budget stays bounded over the whole session: two recoveries for
\* verification, two for review, and as many again for each time a torn
\* run-state.json loses the attempts while session.json keeps the budget;
\* a failed write can lose one attempt.
BudgetBound ==
  st.extra <= ExtraSteps * (4 * (1 + used.torn) + used.faults)

\* A run that ends successfully and claims "Verification: passed" has
\* verified what the edit tools last wrote, over aborted, rejected and
\* resumed runs alike; crashes and failed writes can separate the two.
EditsAreVerified ==
  /\ at \in CompletionPoints
  /\ result.status = "success" /\ result.verified
  /\ used.crashes = 0 /\ used.faults = 0
  => dirty # "edit"

\* When completeRun has persisted the outcome, run-state.json, session.json
\* and the result handed to the caller tell the same, also when the run was
\* completed twice.
OutcomeIsAgreed ==
  at = "bus_finish" /\ result.ended =>
    /\ disk.saved
    /\ disk.kernel.phase = TerminalPhaseOf(result.status)
    /\ manifest = [status |-> result.status, budget |-> disk.kernel.maxSteps]

\* Every run ends, unless one model call never does: the budget is finite although
\* recovery extends it, no answer, rejection or failure leaves the run waiting, and a
\* run that goes on for ever hangs in a single await of the model.
RunEnds == []<>(at = "idle") \/ <>[](at \in ModelAwaits)

=============================================================================
