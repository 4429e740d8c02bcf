------------------------------ MODULE MCTools ------------------------------
(***************************************************************************)
(* Two sessions, or a session and its subagent, on a small workspace with  *)
(* two files whose snapshots have one name.                                *)
(***************************************************************************)
EXTENDS Tools

CONSTANTS s1, s2

Source == <<"src", "/", "a">>
Twin == <<"src", "__", "a">>
Config == <<"tsconfig.json">>
MCDraft == <<".agent", "/", "plan-draft.md">>
OtherDraft == <<"docs", "/", "plan-draft.md">>

MCPaths == {Source, Twin, Config, MCDraft, OtherDraft}
MCPresent == {Source, Config}
MCPathClass ==
  [p \in Paths |-> IF p = OtherDraft THEN "denied" ELSE IF p \in {Source, Twin} THEN "auto" ELSE "asked"]

Call(tool, path, kind) ==
  [tool |-> tool, path |-> path, to |-> Config, old |-> <<>>, new |-> <<>>, kind |-> kind]
Edit(tool, path, old, new, kind) == [Call(tool, path, kind) EXCEPT !.old = old, !.new = new]

MCAsked ==
  {Call("read_file", Source, "plain"), Call("delete_file", Source, "plain"),
   Call("move_file", Source, "plain"), [Call("move_file", Source, "plain") EXCEPT !.to = Twin],
   Call("git_restore_file", Source, "plain"),
   Edit("write_file", Twin, <<>>, <<"b">>, "plain"),
   Edit("write_file", OtherDraft, <<>>, <<"b">>, "plain"),
   Edit("apply_patch", Source, <<>>, <<>>, "small"),
   Edit("search_replace", Source, <<"a">>, <<>>, "all"),
   Edit("apply_patch", Source, <<"a">>, <<"b">>, "large")}
    \cup {Call("run_shell", Source, k) : k \in ShellKinds}
    \cup {Call("run_subagent", MCDraft, a) : a \in DOMAIN Agents \cup {"unknown"}}
    \cup {Call(t, MCDraft, "plain") : t \in {"mcp__read", "mcp__delete"}}

Definition(mode, role, tools) == [mode |-> mode, role |-> role, tools |-> tools]

\* A built-in agent and three a workspace may define.
MCAgents ==
  "plan" :> Definition("plan", "plan", {"read_file"})
    @@ "explore" :> Definition("unset", "unset", {})
    @@ "writer" :> Definition("agent", "unset", FileTools)
    @@ "helper" :> Definition("agent", "general", McpTools)

Symmetric == Permutations({s1, s2})
=============================================================================
