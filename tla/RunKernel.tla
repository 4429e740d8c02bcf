------------------------------ MODULE RunKernel ------------------------------
(***************************************************************************)
(* The run kernel: the pure state machine that decides what one agent run  *)
(* does next (packages/core/src/agent/kernel).  A kernel state is a record *)
(* of phase, step, maxSteps, closingTurn and pendingToolCalls;             *)
(* checkpointRequired is set by every transition and is left out.  Every   *)
(* event has an operator giving the next state.  The code throws when the  *)
(* phase may not receive the event or when the result breaks an assertion  *)
(* on the state and its commands: Accepts says when it does not throw.     *)
(***************************************************************************)
EXTENDS Integers

TerminalPhases == {"completed", "cancelled", "failed"}

\* Phases in which a tool call is being handled.
ToolPhases == {"handling_tools", "awaiting_approval", "executing_tool"}

Phases == ToolPhases \cup TerminalPhases \cup
  {"initializing", "assembling_prompt", "calling_model",
   "routing_model_response", "verifying", "recovering", "finalizing"}

KernelState == [phase: Phases, step: Nat, maxSteps: Nat,
                closingTurn: BOOLEAN, pendingToolCalls: Nat]

\* The phases a work event is accepted in.  Terminal events are accepted
\* everywhere; run_started exists in the kernel but nothing sends it.
EventAllowedPhases(type) ==
  CASE type = "step_started" ->
         {"initializing", "assembling_prompt", "recovering", "finalizing"}
    [] type = "prompt_assembled" -> {"assembling_prompt", "recovering"}
    [] type = "model_response_received" ->
         {"calling_model", "routing_model_response"}
    [] type \in {"tool_calls_handled", "approval_requested",
                 "verification_started"} -> {"handling_tools", "executing_tool"}
    [] type = "approval_resolved" -> {"awaiting_approval"}
    [] type = "recovery_requested" ->
         {"finalizing", "executing_tool", "handling_tools"}
    [] type = "verification_finished" -> {"verifying"}

CreateRunKernelState(maxSteps) ==
  [phase |-> "initializing", step |-> 0, maxSteps |-> maxSteps,
   closingTurn |-> FALSE, pendingToolCalls |-> 0]

-----------------------------------------------------------------------------
(* The next state of each event, and the work command it emits: "none"    *)
(* stands for a transition whose only command is the checkpoint.          *)

StepStarted(k, step, maxSteps, closingTurn) ==
  [k EXCEPT !.phase = "assembling_prompt", !.step = step,
            !.maxSteps = maxSteps, !.closingTurn = closingTurn]

PromptAssembled(k) == [k EXCEPT !.phase = "calling_model"]

ToolCallsRequested(k, n) ==
  [k EXCEPT !.phase = "handling_tools", !.pendingToolCalls = n]

FinalTextReceived(k) ==
  [k EXCEPT !.phase = "finalizing", !.closingTurn = TRUE,
            !.pendingToolCalls = 0]

\* Mutant: the step limit is noticed one step late.
LateStepLimit(k) == k.step > k.maxSteps

AtStepLimit(k) == k.step >= k.maxSteps

ToolCallsHandled(k) ==
  [k EXCEPT !.phase = IF AtStepLimit(k) THEN "finalizing"
                                        ELSE "assembling_prompt",
            !.pendingToolCalls = 0]

ApprovalRequested(k) == [k EXCEPT !.phase = "awaiting_approval"]

ApprovalResolved(k, approved) ==
  [k EXCEPT !.phase = IF approved THEN "executing_tool" ELSE "recovering",
            !.pendingToolCalls = IF approved THEN @ ELSE 0]

RecoveryRequested(k) ==
  [k EXCEPT !.phase = "recovering", !.closingTurn = FALSE,
            !.pendingToolCalls = 0]

VerificationStarted(k) == [k EXCEPT !.phase = "verifying"]

VerificationFinished(k) == [k EXCEPT !.phase = "executing_tool"]

\* run_completed, run_cancelled and run_failed.
RunEnded(k, phase) == [k EXCEPT !.phase = phase, !.pendingToolCalls = 0]

-----------------------------------------------------------------------------
(* The assertions checked after every transition.                         *)

\* Pending tool calls exist exactly while a tool phase needs them; a
\* verification keeps those of the batch it interrupts.
PendingMatchesPhase(k) ==
  /\ k.pendingToolCalls > 0 => k.phase \in ToolPhases \cup {"verifying"}
  /\ k.phase \in ToolPhases => k.pendingToolCalls >= 1

StepWithinBudget(k) == k.maxSteps >= 1 /\ k.step <= k.maxSteps

RunKernelInvariants(k, command) ==
  /\ k.step >= 0
  /\ StepWithinBudget(k)
  /\ k.phase \in TerminalPhases =>
       command \notin {"assemble_prompt", "call_model", "handle_tool_calls",
                       "complete_from_model"}
  /\ k.closingTurn => command \notin {"handle_tool_calls", "call_model"}
  /\ PendingMatchesPhase(k)

\* The transition from k to next by a work event does not throw.
Accepts(k, type, next, command) ==
  /\ k.phase \notin TerminalPhases
  /\ k.phase \in EventAllowedPhases(type)
  /\ RunKernelInvariants(next, command)

\* A terminal event is accepted from every phase, terminal ones included.
AcceptsEnd(next) == RunKernelInvariants(next, "finalize")
=============================================================================
