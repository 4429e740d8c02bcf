---------------------------- MODULE Permissions ----------------------------
(***************************************************************************)
(* What a tool call may do: the rules of the permission engine and of the  *)
(* safety guard (packages/security), the modes a tool is registered for    *)
(* and the tools a subagent is made of.                                    *)
(***************************************************************************)
EXTENDS Integers, FiniteSets, SequencesExt

CONSTANTS
  Paths,      \* files of the workspace: sequences of names, "/" and "__"
  Draft,      \* plan-draft.md of the session
  PathClass,  \* how the file policy sees a path
  Lines,      \* lines files are made of
  Asked,      \* bound: the calls models make
  Agents      \* definitions of subagents by name

AgentModes == {"ask", "plan", "edit", "agent"}

\* file_policy: "auto" is edited without asking in agent mode; "asked" stands
\* for the configuration files and for everything outside the allowlist.
PathClasses == {"denied", "asked", "auto"}

\* One name for each group of tools the rules treat alike.
EditTools == {"apply_patch", "search_replace", "write_file"}
FileTools == EditTools \cup {"delete_file", "move_file"}
CommandTools == {"run_shell", "git_restore_file"}
PlanModeTools == {"enter_plan_mode", "exit_plan_mode"}
McpTools == {"mcp__read", "mcp__create", "mcp__delete"}
ToolNames == {"read_file", "run_subagent"}
               \cup FileTools \cup CommandTools \cup PlanModeTools \cup McpTools

WriteToolsModes == {"edit", "agent"}

\* Tool.availableInModes and its default, which MCP tools get.
AvailableInModes(tool) ==
  IF tool = "read_file" THEN AgentModes
  ELSE IF tool \in {"exit_plan_mode", "run_subagent"} THEN WriteToolsModes \cup {"plan"}
  ELSE WriteToolsModes

Texts == {<<>>} \cup {<<line>> : line \in Lines}

Definitions ==
  [mode: AgentModes \cup {"unset"}, role: {"explore", "plan", "general", "unset"},
   tools: SUBSET ToolNames]

ASSUME PermissionsAssumption ==
  /\ Paths \subseteq Seq(STRING) /\ Draft \in Paths
  /\ PathClass \in [Paths -> PathClasses]
  /\ PathClass[Draft] = "asked"
  /\ DOMAIN Agents \subseteq STRING /\ \A name \in DOMAIN Agents : Agents[name] \in Definitions

-----------------------------------------------------------------------------
(* A call: its file, the file it is moved to, the text an edit looks for   *)
(* and the text it puts there, and what the rules read off its other       *)
(* arguments: the command, the size of a deletion, the name of an agent.   *)

ShellKinds == {"forbidden", "readonly", "safe", "other", "upload", "dryrun"}
EditKinds == {"small", "large"}
Calls ==
  [tool: ToolNames, path: Paths, to: Paths, old: Texts, new: Texts,
   kind: ShellKinds \cup EditKinds \cup {"all", "plain", "unknown"} \cup DOMAIN Agents]

NoCall == [tool |-> "read_file", path |-> Draft, to |-> Draft, old |-> <<>>, new |-> <<>>,
           kind |-> "plain"]

ASSUME CallsAssumption ==
  /\ Asked \subseteq Calls
  /\ \A call \in Asked : call.tool = "run_subagent" =>
       call.kind \in (DOMAIN Agents \cup {"unknown"}) \ (ShellKinds \cup EditKinds)

-----------------------------------------------------------------------------
(* The permission engine.                                                  *)

Strictest(decisions) ==
  IF "deny" \in decisions THEN "deny" ELSE IF "ask" \in decisions THEN "ask" ELSE "allow"

\* Where neither asking nor planning goes on, by mode only.
PatchDecision(mode) ==
  IF mode \in {"ask", "plan"} THEN "deny" ELSE IF mode = "edit" THEN "ask" ELSE "allow"

WritePathDecision(path, mode) ==
  IF PathClass[path] = "denied" THEN "deny"
  ELSE IF mode = "agent" /\ PathClass[path] = "asked" THEN "ask"
  ELSE PatchDecision(mode)

\* parsePatch finds no changed line.
Malformed(call) == call.tool = "apply_patch" /\ call.old = <<>> /\ call.new = <<>>

\* matchesPlanDraftPath: the draft of the session, or any file of that name.
IsPlanDraft(path) == path = Draft \/ IsSuffix(<<"/", "plan-draft.md">>, path)

PlanModeWriteDecision(path) == IF IsPlanDraft(path) THEN "allow" ELSE "deny"

EditDecision(call, mode, planning) ==
  IF Malformed(call) THEN "deny"
  ELSE IF planning THEN PlanModeWriteDecision(call.path)
  ELSE WritePathDecision(call.path, mode)

ShellDecision(kind, mode) ==
  IF mode = "plan" THEN IF kind = "dryrun" THEN "allow" ELSE "deny"
  ELSE IF kind = "forbidden" THEN "deny"
  ELSE IF kind = "readonly" THEN "allow"
  ELSE IF mode = "ask" THEN "deny"
  ELSE IF kind = "safe" /\ mode = "agent" THEN "allow"
  ELSE "ask"

SubagentWriteTools == FileTools \cup CommandTools \cup {"run_subagent"}

\* isBuiltinReadOnlySubagent: by its name or by its role.
IsReadOnlySubagent(name) ==
  name \in {"explore", "plan"} \/ Agents[name].role \in {"explore", "plan"}

\* Mutant: the mode of the caller is not asked for.
WriteSubagentDecision(name, mode, planning, nested) ==
  IF nested \/ name \notin DOMAIN Agents THEN "deny"
  ELSE IF Agents[name].tools # {}
       THEN IF Agents[name].tools \cap SubagentWriteTools = {} THEN "allow" ELSE "ask"
  ELSE IF IsReadOnlySubagent(name) THEN "allow" ELSE "ask"

\* What an agent's tools are is looked up in a fixed set: those of MCP servers are not in it.
SubagentDecision(name, mode, planning, nested) ==
  IF nested \/ name \notin DOMAIN Agents THEN "deny"
  ELSE IF Agents[name].tools # {}
       THEN IF Agents[name].tools \cap SubagentWriteTools = {} THEN "allow"
            ELSE IF planning \/ mode = "plan" THEN "deny" ELSE "ask"
  ELSE IF IsReadOnlySubagent(name) THEN "allow" ELSE "ask"

McpDecision(tool) ==
  IF tool = "mcp__delete" THEN "deny" ELSE IF tool = "mcp__create" THEN "ask" ELSE "allow"

\* PermissionEngine.check; the modes it is asked about are permission modes.
EngineDecision(call, mode, planning, nested) ==
  CASE call.tool \in EditTools -> EditDecision(call, mode, planning)
    [] call.tool = "read_file" -> IF PathClass[call.path] = "denied" THEN "deny" ELSE "allow"
    [] call.tool = "delete_file" ->
         IF planning THEN "deny" ELSE WritePathDecision(call.path, mode)
    [] call.tool = "move_file" ->
         IF planning THEN "deny"
         ELSE Strictest({WritePathDecision(call.path, mode), WritePathDecision(call.to, mode)})
    [] call.tool = "run_shell" -> ShellDecision(call.kind, mode)
    [] call.tool = "git_restore_file" -> "ask"
    [] call.tool = "run_subagent" ->
         SubagentDecision(call.kind, mode, planning, nested)
    [] call.tool \in McpTools -> McpDecision(call.tool)
    [] OTHER -> "allow"

\* SafetyGuard.check
SafetyDecision(call) ==
  IF call.tool \in {"apply_patch", "search_replace"} /\ call.kind = "large" THEN "ask"
  ELSE IF call.tool = "run_shell" /\ call.kind = "upload" THEN "deny"
  ELSE "allow"

PermissionDecision(call, mode, planning, nested) ==
  Strictest({EngineDecision(call, mode, planning, nested), SafetyDecision(call)})
=============================================================================
