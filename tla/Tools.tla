------------------------------- MODULE Tools -------------------------------
(***************************************************************************)
(* Sessions that use tools on one workspace: a call is judged, maybe asked *)
(* about, passed through the hooks and carried out step by step, by a run  *)
(* or by the subagent it waits for.  Runs of one server share the          *)
(* workspace with each other, with its user and with MCP servers.  Files   *)
(* are changed after a snapshot was taken, and `session revert` puts the   *)
(* snapshots back.                                                         *)
(***************************************************************************)
EXTENDS Permissions

CONSTANTS
  Sessions,
  Present,      \* files there are at first
  RunModes,     \* bound: modes users start runs in
  Special,      \* lines String.replace gives a meaning to in a replacement ("$&")
  MaxCalls,     \* bound: calls of all sessions that get past the rules
  MaxOutside,   \* bound: changes of files by anybody but the file tools
  MaxUnsaved    \* bound: files whose content could not be read or saved

ASSUME ToolsAssumption ==
  /\ Special \subseteq Lines /\ Present \subseteq Paths /\ RunModes \subseteq AgentModes
  /\ MaxCalls \in Nat /\ MaxOutside \in Nat /\ MaxUnsaved \in Nat
  /\ Lines \ Special # {} /\ "missing" \notin Lines
  /\ Sessions \cap {"nobody", "other"} = {}

VARIABLES
  run,        \* [Sessions -> run state of the session and the call it handles]
  files,      \* [Paths -> text, or Missing]
  snapshots,  \* [Sessions -> snapshots of the session directory, oldest first]
  changedBy,  \* [Paths -> sessions whose file tools changed the file, Other]
  unsaved,    \* files of a session whose content could not be read or saved
  reverting,  \* baselines `session revert` has still to write
  server,     \* number of requests MCP servers may be at work on
  calls,      \* calls so far
  outside     \* changes by others so far

vars == <<run, files, snapshots, changedBy, unsaved, reverting, server, calls, outside>>

Missing == <<"missing">>
NoSession == "nobody"
Other == "other"

Stages == {"new", "free", "asking", "permitted", "hookAsks", "running",
           "computed", "read", "moving", "found", "replaced", "saved",
           "delegating", "polling", "planAsks", "over"}

\* before: what the tool read of its file; after: what it will write, or what
\* it read at the destination of a move.
NewRun == [stage |-> "new", mode |-> "ask", planning |-> FALSE, tools |-> {},
           parent |-> NoSession, call |-> NoCall, before |-> Missing, after |-> Missing]

Written(t) == t = Missing \/ DOMAIN t = {} \/ \A i \in DOMAIN t : t[i] \in Lines

TypeOK ==
  /\ \A s \in Sessions :
       /\ run[s].stage \in Stages
       /\ run[s].mode \in AgentModes
       /\ run[s].planning \in BOOLEAN
       /\ run[s].tools \subseteq ToolNames
       /\ run[s].parent \in Sessions \cup {NoSession}
       /\ run[s].call \in Calls
       /\ Written(run[s].before) /\ Written(run[s].after)
  /\ \A p \in Paths : Written(files[p])
  /\ \A s \in Sessions : \A i \in DOMAIN snapshots[s] :
       snapshots[s][i].path \in Paths /\ Written(snapshots[s][i].content)
  /\ changedBy \in [Paths -> SUBSET (Sessions \cup {Other})]
  /\ unsaved \subseteq Sessions \X Paths
  /\ \A baseline \in reverting : Written(baseline.content)
  /\ server \in 0 .. MaxCalls
  /\ calls \in 0 .. MaxCalls
  /\ outside \in 0 .. MaxOutside

Original == <<CHOOSE l \in Lines \ Special : TRUE>>

Init ==
  /\ run = [s \in Sessions |-> NewRun]
  /\ files = [p \in Paths |-> IF p \in Present THEN Original ELSE Missing]
  /\ snapshots = [s \in Sessions |-> <<>>]
  /\ changedBy = [p \in Paths |-> {}]
  /\ unsaved = {} /\ reverting = {}
  /\ server = 0 /\ calls = 0 /\ outside = 0

-----------------------------------------------------------------------------
(* Runs, subagents and the modes they are in.                              *)

PermissionMode(s) == IF run[s].planning THEN "plan" ELSE run[s].mode

Nested(s) == run[s].parent # NoSession

\* Another call of the session: where it is, everything else as it was.
Goes(s, stage) == run' = [run EXCEPT ![s].stage = stage]
Rested(s, stage) ==
  [run[s] EXCEPT !.stage = stage, !.call = NoCall, !.before = Missing, !.after = Missing]
Idle(s) == run' = [run EXCEPT ![s] = Rested(s, "free")]
KeepsFiles == UNCHANGED <<files, snapshots, changedBy, unsaved, reverting, outside>>

Changed(paths, by) ==
  changedBy' = [p \in Paths |-> changedBy[p] \cup (IF p \in paths THEN {by} ELSE {})]

\* A run of the session, the first or a later one.
StartRun(s, mode) ==
  /\ run[s].stage \in {"new", "over"}
  /\ ~Nested(s)
  /\ calls < MaxCalls
  /\ run' = [run EXCEPT ![s] = [NewRun EXCEPT !.stage = "free", !.mode = mode, !.tools = ToolNames]]
  /\ KeepsFiles /\ UNCHANGED <<server, calls>>

\* A run ends, between two calls or at one that was rejected.
Ended(s) == [NewRun EXCEPT !.stage = "over", !.parent = run[s].parent]

Over(s) ==
  run' = [t \in Sessions |->
            IF t = s THEN Ended(s)
            ELSE IF t = run[s].parent THEN Rested(t, "free") ELSE run[t]]

EndRun(s) ==
  /\ run[s].stage = "free"
  /\ Over(s)
  /\ KeepsFiles /\ UNCHANGED <<server, calls>>

\* The process dies with its runs; MCP servers may still be at work.
Crash ==
  /\ \E s \in Sessions : run[s].stage \notin {"new", "over"}
  /\ run' = [s \in Sessions |->
               IF run[s].stage = "new" THEN NewRun
               ELSE Ended(s)]
  /\ KeepsFiles /\ UNCHANGED <<server, calls>>

-----------------------------------------------------------------------------
(* Authorization: the rules, the approval, the hooks.                      *)

Decision(s, call) == PermissionDecision(call, PermissionMode(s), run[s].planning, Nested(s))

\* The arguments only the rules look at are not kept.
Judged(call) ==
  IF call.kind \in ShellKinds \cup EditKinds THEN [call EXCEPT !.kind = "plain"] ELSE call

Propose(s, call) ==
  /\ run[s].stage = "free"
  /\ call.tool \notin PlanModeTools
  /\ calls < MaxCalls
  /\ Decision(s, call) # "deny"
  /\ calls' = calls + 1
  /\ run' = [run EXCEPT
       ![s].stage = IF Decision(s, call) = "ask" THEN "asking" ELSE "permitted",
       ![s].call = Judged(call)]
  /\ KeepsFiles /\ UNCHANGED server

\* A call the rules deny ends the run.
ProposeDenied(s, call) ==
  /\ run[s].stage = "free"
  /\ call.tool \notin PlanModeTools
  /\ Decision(s, call) = "deny"
  /\ Over(s)
  /\ KeepsFiles /\ UNCHANGED <<server, calls>>

\* ToolRegistry.execute, with the mode of createToolContext: a tool the session
\* does not have, or not in its mode, fails; reading is not looked at further.
Execute(s) ==
  LET call == run[s].call
      available == call.tool \in run[s].tools
                   /\ PermissionMode(s) \in AvailableInModes(call.tool)
  IN  IF available /\ call.tool # "read_file" THEN Goes(s, "running") ELSE Idle(s)

Approve(s) ==
  /\ \/ run[s].stage = "asking" /\ Goes(s, "permitted")
     \/ run[s].stage = "hookAsks" /\ Execute(s)
  /\ KeepsFiles /\ UNCHANGED <<server, calls>>

Reject(s) ==
  /\ run[s].stage \in {"asking", "hookAsks"}
  /\ Over(s)
  /\ KeepsFiles /\ UNCHANGED <<server, calls>>

\* PreToolUse hooks: the first that denies or asks decides.
RunPreToolUseHooks(s, action) ==
  /\ run[s].stage = "permitted"
  /\ \/ action = "continue" /\ Execute(s)
     \/ action = "ask" /\ Goes(s, "hookAsks")
     \/ action = "deny" /\ Over(s)
  /\ KeepsFiles /\ UNCHANGED <<server, calls>>

-----------------------------------------------------------------------------
(* Collaboration plan mode.                                                *)

EnterPlanMode(s) ==
  /\ run[s].stage = "free"
  /\ ~run[s].planning /\ ~Nested(s) /\ run[s].mode \in {"edit", "agent"}
  /\ run' = [run EXCEPT ![s].planning = TRUE]
  /\ KeepsFiles /\ UNCHANGED <<server, calls>>

\* A plan is shown to the user.
AskForPlan(s) ==
  /\ run[s].stage = "free"
  /\ run[s].planning
  /\ Goes(s, "planAsks")
  /\ KeepsFiles /\ UNCHANGED <<server, calls>>

\* The plan and its draft are written before plan mode is left.
ExitPlanMode(s) ==
  /\ run[s].stage = "planAsks"
  /\ run' = [run EXCEPT ![s].stage = "free", ![s].planning = FALSE]
  /\ files' = [files EXCEPT ![Draft] = <<CHOOSE l \in Lines : TRUE>>]
  /\ Changed({Draft}, Other)
  /\ UNCHANGED <<snapshots, unsaved, reverting, server, outside, calls>>

PlanRefused(s) ==
  /\ run[s].stage = "planAsks"
  /\ Goes(s, "free")
  /\ KeepsFiles /\ UNCHANGED <<server, calls>>

-----------------------------------------------------------------------------
(* Subagents: a session of its own with the tools of its definition.       *)

ModeOf(definition, callerMode) ==
  IF definition.mode # "unset" THEN definition.mode
  ELSE IF definition.role = "plan" THEN "plan"
  ELSE IF definition.role = "explore" THEN "ask"
  ELSE callerMode

RunSubagent(s, child) ==
  LET definition == Agents[run[s].call.kind]
  IN  /\ run[s].stage = "running"
      /\ run[s].call.tool = "run_subagent"
      /\ run[child].stage = "new"
      /\ run' = [run EXCEPT
           ![s].stage = "delegating",
           ![child] = [NewRun EXCEPT
              !.stage = "free", !.parent = s,
              !.mode = ModeOf(definition, PermissionMode(s)),
              !.tools = definition.tools \cap run[s].tools]]
      /\ KeepsFiles /\ UNCHANGED <<server, calls>>

-----------------------------------------------------------------------------
(* Edits.  A tool reads the file, saves what it read as a snapshot and     *)
(* then writes; the patch is recorded in between or afterwards.            *)

\* Positions at which an edit finds its old text.
Occurrences(old, before) ==
  IF old = <<>> THEN {} ELSE {i \in DOMAIN before : before[i] = old[1]}

\* What String.replace puts in for the old text.
Expanded(old, new) == IF new # <<>> /\ new[1] \in Special THEN old ELSE new

\* String.replace: the first occurrence; an empty text is found at the start.
Replaced(before, old, new) ==
  LET i == CHOOSE i \in 1 .. Len(before) + 1 :
             /\ i \in Occurrences(old, before) \cup {1}
             /\ \A j \in Occurrences(old, before) : i <= j
      at == IF old = <<>> THEN 1 ELSE i
  IN  SubSeq(before, 1, at - 1) \o Expanded(old, new)
        \o SubSeq(before, at + Len(old), Len(before))

\* split(old).join(new)
ReplacedEverywhere(before, old, new) ==
  FlattenSeq([i \in DOMAIN before |-> IF i \in Occurrences(old, before) THEN new
                                      ELSE <<before[i]>>])

\* The call finds what it needs in the file.
Applies(call, before) ==
  CASE call.tool = "apply_patch" ->
         before # Missing /\ (call.old = <<>> \/ Occurrences(call.old, before) # {})
    [] call.tool = "search_replace" ->
         /\ before # Missing
         /\ LET n == Cardinality(Occurrences(call.old, before))
            IN  IF call.kind = "all" THEN n > 0 ELSE n = 1
    [] OTHER -> before # Missing

Result(call, before) ==
  CASE call.tool = "delete_file" -> Missing
    [] call.kind = "all" -> ReplacedEverywhere(before, call.old, call.new)
    [] OTHER -> Replaced(before, call.old, call.new)

\* A missing file is saved as an empty one.
Text(t) == IF t = Missing THEN <<>> ELSE t

\* The name of a snapshot spells its file's path with "__" for "/", and is read
\* back with "/" for every "__".
SafeName(path) == [i \in DOMAIN path |-> IF path[i] = "/" THEN "__" ELSE path[i]]
RelativePath(name) == [i \in DOMAIN name |-> IF name[i] = "__" THEN "/" ELSE name[i]]

\* captureFileSnapshot; nobody but the properties looks at the path itself.
Snapshot(s, path, content) ==
  snapshots' = [snapshots EXCEPT ![s] =
    Append(@, [name |-> SafeName(path), path |-> path, content |-> Text(content)])]

\* Reading or saving a file of the session fails, and the session goes on.
Loses(s, path) ==
  /\ unsaved' = unsaved \cup {<<s, path>>}
  /\ Cardinality(unsaved') <= MaxUnsaved

\* The tool gives up, or fails at a file operation.
ToolFails(s) ==
  /\ run[s].stage \in {"running", "computed", "read", "moving", "found", "replaced", "saved"}
  /\ Idle(s)
  /\ KeepsFiles /\ UNCHANGED <<server, calls>>

\* Reads the file and works out what is to be written.
ReadAndCompute(s) ==
  LET call == run[s].call
  IN  /\ run[s].stage = "running"
      /\ call.tool \in FileTools \ {"write_file", "move_file"}
      /\ Applies(call, files[call.path])
      /\ run' = [run EXCEPT
           ![s].stage = IF call.tool = "search_replace" THEN "computed" ELSE "read",
           ![s].before = files[call.path],
           ![s].after = Result(call, files[call.path])]
      /\ KeepsFiles /\ UNCHANGED <<server, calls>>

\* writeWorkspaceFileChange reads the file, for search_replace a second time, and
\* takes one it cannot read for a new one.
ReadBefore(s) ==
  LET call == run[s].call
  IN  /\ \/ run[s].stage = "running" /\ call.tool = "write_file"
         \/ run[s].stage = "computed"
      /\ \E before \in {Text(files[call.path]), <<>>} :
           /\ run' = [run EXCEPT
                ![s].stage = "read", ![s].before = before,
                ![s].after = IF call.tool = "write_file" THEN call.new ELSE @]
           /\ IF before = Text(files[call.path]) THEN UNCHANGED unsaved ELSE Loses(s, call.path)
      /\ UNCHANGED <<files, snapshots, changedBy, reverting, server, outside, calls>>

\* captureFileSnapshot of the content read.
CaptureSnapshot(s) ==
  /\ run[s].stage = "read"
  /\ Snapshot(s, run[s].call.path, run[s].before)
  /\ Goes(s, "saved")
  /\ UNCHANGED <<files, changedBy, unsaved, reverting, server, outside, calls>>

\* A snapshot is begun, and its content is not written.
SaveFails(s) ==
  /\ run[s].stage \in {"read", "replaced"}
  /\ Snapshot(s, run[s].call.path, <<>>)
  /\ Loses(s, run[s].call.path)
  /\ Idle(s)
  /\ UNCHANGED <<files, changedBy, reverting, server, outside, calls>>

\* writeFile, unlink
WriteBack(s) ==
  LET call == run[s].call
  IN  /\ run[s].stage = "saved"
      /\ call.tool # "move_file"
      /\ call.tool = "delete_file" => files[call.path] # Missing
      /\ files' = [files EXCEPT ![call.path] = run[s].after]
      /\ Changed({call.path}, s)
      /\ Idle(s)
      /\ UNCHANGED <<snapshots, unsaved, reverting, server, outside, calls>>

\* moveWorkspaceFile: the source is read,
BeginMove(s) ==
  /\ run[s].stage = "running"
  /\ run[s].call.tool = "move_file"
  /\ files[run[s].call.path] # Missing
  /\ run' = [run EXCEPT ![s].stage = "moving", ![s].before = files[run[s].call.path]]
  /\ KeepsFiles /\ UNCHANGED <<server, calls>>

\* then the destination, if there is one; an error is taken for its absence,
ReadReplaced(s) ==
  LET replaced == files[run[s].call.to]
  IN  /\ run[s].stage = "moving"
      /\ \/ /\ replaced # Missing /\ UNCHANGED unsaved
            /\ run' = [run EXCEPT ![s].stage = "found", ![s].after = replaced]
         \/ /\ IF replaced = Missing THEN UNCHANGED unsaved ELSE Loses(s, run[s].call.to)
            /\ Goes(s, "replaced")
      /\ UNCHANGED <<files, snapshots, changedBy, reverting, server, outside, calls>>

\* and saved; an error is ignored here too, and the snapshot may be overwritten
\* by that of the source, if both have one name and are of the same millisecond,
SaveReplaced(s) ==
  LET call == run[s].call
  IN  /\ run[s].stage = "found"
      /\ \/ Snapshot(s, call.to, run[s].after) /\ UNCHANGED unsaved
         \/ Loses(s, call.to) /\ (Snapshot(s, call.to, <<>>) \/ UNCHANGED snapshots)
      /\ Goes(s, "replaced")
      /\ UNCHANGED <<files, changedBy, reverting, server, outside, calls>>

\* the source is saved,
SaveMoved(s) ==
  /\ run[s].stage = "replaced"
  /\ Snapshot(s, run[s].call.path, run[s].before)
  /\ Goes(s, "saved")
  /\ UNCHANGED <<files, changedBy, unsaved, reverting, server, outside, calls>>

\* rename: whatever is at the source by now takes the place of whatever is at
\* the destination.
Rename(s) ==
  LET call == run[s].call
  IN  /\ run[s].stage = "saved"
      /\ call.tool = "move_file"
      /\ files[call.path] # Missing
      /\ files' = [files EXCEPT ![call.to] = files[call.path], ![call.path] = Missing]
      /\ Changed({call.path, call.to}, s)
      /\ Idle(s)
      /\ UNCHANGED <<snapshots, unsaved, reverting, server, outside, calls>>

-----------------------------------------------------------------------------
(* Commands, MCP servers and the user.                                     *)

\* What others do to a file: it is removed or emptied.
FileTexts == {Missing, <<>>}

\* A shell command or git changes a file, or not; nothing is saved.
RunCommand(s, text) ==
  /\ run[s].stage = "running"
  /\ run[s].call.tool \in CommandTools
  /\ files' = [files EXCEPT ![run[s].call.path] = text]
  /\ Idle(s)
  /\ Changed({run[s].call.path}, Other)
  /\ UNCHANGED <<snapshots, unsaved, reverting, server, outside, calls>>

\* Somebody outside the process changes a file.
Edited(path, text) ==
  /\ outside < MaxOutside
  /\ outside' = outside + 1
  /\ files' = [files EXCEPT ![path] = text]
  /\ Changed({path}, Other)
  /\ UNCHANGED <<run, snapshots, unsaved, reverting, server, calls>>

UserEdits(path, text) == Edited(path, text)

\* McpClient.send, to a process that was started in the workspace.
SendRequest(s) ==
  /\ run[s].stage = "running"
  /\ run[s].call.tool \in McpTools
  /\ server' = server + 1
  /\ Goes(s, "polling")
  /\ KeepsFiles /\ UNCHANGED calls

\* What a tool of an MCP server does to a file of the workspace.
ServerWrites(path, text) == server > 0 /\ Edited(path, text)

\* The client of a run waits for one request at a time, whose id is the time it was
\* made at: the answer it takes is the one to its request.
TakeAnswer(s) ==
  /\ run[s].stage = "polling"
  /\ server' = server - 1
  /\ Idle(s)
  /\ KeepsFiles /\ UNCHANGED calls

\* The request stays with the server; an answer that comes late stays in the buffer.
TimeOut(s) ==
  /\ run[s].stage = "polling"
  /\ Idle(s)
  /\ KeepsFiles /\ UNCHANGED <<server, calls>>

-----------------------------------------------------------------------------
(* session revert.                                                         *)

\* Mutant: the last snapshot of a file is taken for its baseline.
LatestBaseline(s, path) ==
  LET of == SelectSeq(snapshots[s], LAMBDA f : RelativePath(f.name) = path)
  IN  IF of = <<>> THEN {} ELSE {[path |-> path, content |-> Last(of).content]}

\* The oldest of the snapshots whose name reads as the path.
Baseline(s, path) ==
  {[path |-> path, content |-> snapshots[s][i].content] : i \in
     {i \in DOMAIN snapshots[s] :
        /\ RelativePath(snapshots[s][i].name) = path
        /\ \A j \in 1 .. i - 1 : RelativePath(snapshots[s][j].name) # path}}

\* The baselines are listed first and written one after the other, by a
\* process of its own that looks at no run.
RevertSession(s) ==
  /\ reverting = {}
  /\ snapshots[s] # <<>>
  /\ outside < MaxOutside
  /\ outside' = outside + 1
  /\ reverting' = UNION {Baseline(s, RelativePath(snapshots[s][i].name)) : i \in DOMAIN snapshots[s]}
  /\ UNCHANGED <<run, files, snapshots, changedBy, unsaved, server, calls>>

\* writeFile, which may make a file nobody has had before.
RevertFile(baseline) ==
  /\ files' = [p \in Paths |-> IF p = baseline.path THEN baseline.content ELSE files[p]]
  /\ reverting' = reverting \ {baseline}
  /\ Changed({baseline.path}, Other)
  /\ UNCHANGED <<run, snapshots, unsaved, server, outside, calls>>

\* A file cannot be written, or the process dies.
RevertStops ==
  /\ reverting # {}
  /\ reverting' = {}
  /\ UNCHANGED <<run, files, snapshots, changedBy, unsaved, server, outside, calls>>

-----------------------------------------------------------------------------
Step(s) ==
  \/ \E mode \in RunModes : StartRun(s, mode)
  \/ EndRun(s)
  \/ \E call \in Asked : Propose(s, call) \/ ProposeDenied(s, call)
  \/ Approve(s) \/ Reject(s)
  \/ \E action \in {"continue", "ask", "deny"} : RunPreToolUseHooks(s, action)
  \/ EnterPlanMode(s) \/ AskForPlan(s) \/ ExitPlanMode(s) \/ PlanRefused(s)
  \/ \E child \in Sessions : RunSubagent(s, child)
  \/ ToolFails(s) \/ ReadAndCompute(s) \/ ReadBefore(s) \/ CaptureSnapshot(s)
  \/ SaveFails(s) \/ WriteBack(s)
  \/ BeginMove(s) \/ ReadReplaced(s) \/ SaveReplaced(s) \/ SaveMoved(s) \/ Rename(s)
  \/ \E text \in FileTexts : RunCommand(s, text)
  \/ SendRequest(s) \/ TakeAnswer(s) \/ TimeOut(s)
  \/ RevertSession(s)

Next ==
  \/ \E s \in Sessions : Step(s)
  \/ Crash
  \/ \E path \in Present, text \in FileTexts : UserEdits(path, text)
  \/ \E path \in Present, text \in FileTexts : ServerWrites(path, text)
  \/ \E baseline \in reverting : RevertFile(baseline)
  \/ RevertStops

Spec == Init /\ [][Next]_vars

-----------------------------------------------------------------------------
\* The path of a file survives the name of its snapshots, and no other file of
\* the session has snapshots whose names read the same.
ReadsBack(s, p) ==
  /\ RelativePath(SafeName(p)) = p
  /\ \A i \in DOMAIN snapshots[s] :
       RelativePath(snapshots[s][i].name) = p => snapshots[s][i].path = p

(* If nothing but the file tools of one session changed a file, then       *)
(* however often they did, and whatever failed, was rejected or died in    *)
(* between, `session revert` would give it its original text back: unless  *)
(* reading or saving this very file failed and the session went on, or the *)
(* names of snapshots confuse it with another.                             *)
BaselinesAreKept ==
  \A s \in Sessions, p \in Present :
    changedBy[p] = {s} /\ <<s, p>> \notin unsaved /\ ReadsBack(s, p)
      => Baseline(s, p) = {[path |-> p, content |-> Original]}

\* While a session is in ask or plan mode, or in collaboration plan mode, no
\* tool of it or of its subagents changes a file, whatever was approved, and it
\* sends no MCP server a request.  (A subagent of it that has a mode of its own
\* may: its MCP tools are no write tools to the rules.)
ReadOnlyModesKeepFiles ==
  [][\A s \in Sessions : run'[s] # run[s] =>
       /\ (\E p \in Paths \ {Draft} : files'[p] # files[p])
            => \A t \in {s, run[s].parent} \ {NoSession} : PermissionMode(t) \in WriteToolsModes
       /\ server' > server => PermissionMode(s) \in WriteToolsModes]_vars
=============================================================================
