------------------------------ MODULE ToolOffer ------------------------------
(***************************************************************************)
(* Which tools a step shows its model before skills limit them:            *)
(* tool-schema-selection.ts, the registry's modes (registry.ts), the tools *)
(* plan mode brings (plan-mode.ts), and the gate that hides the tools that *)
(* change files until the run has looked round (task-strategy.ts and       *)
(* exploration-evidence.ts).  Pure definitions; Questions uses them.       *)
(*                                                                         *)
(* A registered tool has its name and modes (none: the modes that edit).   *)
(* A call has its tool and, instead of its path or command, what the       *)
(* patterns find in it: entry, source, manifest, verifies, or no path.     *)
(***************************************************************************)
EXTENDS Naturals, FiniteSets

EditModes == {"edit", "agent"}

\* registry.isToolAvailableInMode
AvailableIn(tool, mode) == IF tool.modes = {} THEN mode \in EditModes ELSE mode \in tool.modes

\* getCollaborationToolSchemas: plan mode is entered from the modes that edit, and in it the
\* draft is written, subagents explore, and the model may leave it.
CollaborationTools(tools, mode, planning) ==
  LET brought == IF planning THEN {"apply_patch", "run_subagent", "exit_plan_mode"}
                 ELSE IF mode \in EditModes THEN {"enter_plan_mode"} ELSE {} IN
    {tool.name : tool \in {t \in tools :
       \/ AvailableIn(t, IF planning THEN "plan" ELSE mode)
       \/ t.name \in brought}}

-----------------------------------------------------------------------------
(* Evidence: what the successful calls of a run have shown so far          *)

PathEvidence(found) ==
  (IF "entry" \in found THEN {"entryFileRead"} ELSE {})
    \cup (IF "source" \in found THEN {"candidateFileLocated"} ELSE {})
    \cup (IF "manifest" \in found THEN {"verificationCommandKnown"} ELSE {})

CommandEvidence(found) ==
  (IF "verifies" \in found THEN {"verificationCommandKnown"} ELSE {})
    \cup (IF "source" \in found THEN {"candidateFileLocated"} ELSE {})

\* updateExplorationEvidence
EvidenceOf(call) ==
  CASE call.tool = "list_dir" -> {"projectRootConfirmed"}
    [] call.tool = "read_file" -> PathEvidence(call.found)
    [] call.tool \in {"grep", "glob"} -> {"candidateFileLocated"}
    [] call.tool \in {"lsp_symbols", "lsp_definition", "lsp_references"} ->
         IF "nopath" \in call.found THEN {"candidateFileLocated"} ELSE PathEvidence(call.found)
    [] call.tool = "run_shell" -> CommandEvidence(call.found)
    [] OTHER -> {}

\* No call takes evidence away.
Evidence(calls) == UNION {EvidenceOf(call) : call \in calls}

HasEnoughExplorationEvidence(evidence, mode) ==
  /\ "projectRootConfirmed" \in evidence
  /\ IF mode \in {"ask", "plan"}
     THEN {"entryFileRead", "candidateFileLocated"} \cap evidence # {}
     ELSE {"candidateFileLocated", "verificationCommandKnown"} \subseteq evidence

-----------------------------------------------------------------------------
(* The gate                                                                *)

\* A vague repair names neither a path nor a command (isVagueRepairTask).
IsVagueRepairTask(task) == task.vague /\ ~task.specific

\* needsScopeControl: tasks about the root of a repository that name neither, too.
NeedsScopeControl(task, mode, subagent) ==
  /\ mode \in EditModes
  /\ ~subagent
  /\ IsVagueRepairTask(task) \/ (task.broad /\ ~task.specific)

FileMutationTools == {"apply_patch", "search_replace", "write_file", "delete_file", "move_file"}

\* shouldGateFileMutations: a file that was changed ends the gate, whatever was seen.
ShouldGateFileMutations(task, mode, subagent, evidence, modified) ==
  /\ NeedsScopeControl(task, mode, subagent)
  /\ ~modified
  /\ ~HasEnoughExplorationEvidence(evidence, mode)

\* selectToolSchemasForModel: the gate is the task's mode's, in plan mode too.
SelectTools(tools, mode, planning, closing, gated) ==
  IF closing THEN {}
  ELSE CollaborationTools(tools, mode, planning) \ (IF gated THEN FileMutationTools ELSE {})
=============================================================================
