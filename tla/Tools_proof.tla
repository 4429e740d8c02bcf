---------------------------- MODULE Tools_proof ----------------------------
(***************************************************************************)
(* Proofs about Tools: what `session revert` would write back, and which   *)
(* mode a session is in when one of its tools changes a file or asks an    *)
(* MCP server, for every set of sessions, files, agents and calls.         *)
(***************************************************************************)
EXTENDS Tools, TLAPS

(* The contents of files are not typed: what a replacement makes of a text *)
(* is nothing the properties depend on.  There is some set T of texts that *)
(* holds all that files, snapshots and tools have.                         *)

\* What an exit from plan mode writes to the draft.
DraftText == <<CHOOSE l \in Lines : TRUE>>

RunsWith(T) ==
  [stage: Stages, mode: AgentModes, planning: BOOLEAN, tools: SUBSET ToolNames,
   parent: Sessions \cup {NoSession}, call: Calls, before: T, after: T]

\* A snapshot, and a baseline: its path is what its snapshot's name reads as.
Entry(path, content) == [name |-> SafeName(path), path |-> path, content |-> Text(content)]

Saved(T) ==
  {e \in [name: {SafeName(p) : p \in Paths}, path: Paths, content: T] : e.name = SafeName(e.path)}
Restored(T) == [path: {RelativePath(SafeName(p)) : p \in Paths}, content: T]

TypedWith(T) ==
  /\ {Missing, <<>>, Original, DraftText} \subseteq T
  /\ run \in [Sessions -> RunsWith(T)]
  /\ files \in [Paths -> T]
  /\ snapshots \in [Sessions -> Seq(Saved(T))]
  /\ changedBy \in [Paths -> SUBSET (Sessions \cup {Other})]
  /\ reverting \subseteq Restored(T)
  /\ server \in Int

\* What the calls in progress may write is in T, too.
Wide(T) ==
  \A s \in Sessions : Result(run[s].call, files[run[s].call.path]) \in T /\ run[s].call.new \in T

WellTyped == \E T : TypedWith(T)

(* Modes.                                                                  *)

Active(s) == run[s].stage \notin {"new", "over"}

Executing == {"running", "computed", "read", "moving", "found", "replaced", "saved",
              "delegating", "polling"}

\* A call that is carried out is one of a tool of the session, in a mode it is for.
CallFits(s) ==
  /\ run[s].stage \in Executing =>
       /\ run[s].call.tool \in run[s].tools
       /\ PermissionMode(s) \in AvailableInModes(run[s].call.tool)
       /\ run[s].call.tool # "read_file"
  /\ run[s].stage \in {"computed", "read", "saved"} => run[s].call.tool \in FileTools
  /\ run[s].stage \in {"computed", "read"} => run[s].call.tool # "move_file"
  /\ run[s].stage \in {"moving", "found", "replaced"} => run[s].call.tool = "move_file"

\* An agent with tools that write was not allowed to a session that plans.
DelegationJudged(s) ==
  /\ run[s].stage \in {"asking", "permitted", "hookAsks", "running"}
  /\ run[s].call.tool = "run_subagent"
  => /\ run[s].call.kind \in DOMAIN Agents
     /\ Agents[run[s].call.kind].tools \cap SubagentWriteTools = {} \/ PermissionMode(s) # "plan"

\* A subagent that is at work is waited for, and writes only for a session that may.
Covered(s) ==
  LET parent == run[s].parent IN
  Active(s) /\ parent # NoSession =>
    /\ run[parent].stage = "delegating"
    /\ run[s].tools \cap SubagentWriteTools = {} \/ PermissionMode(parent) \in WriteToolsModes

OneChild ==
  \A s, t \in Sessions :
    Active(s) /\ Active(t) /\ run[s].parent = run[t].parent /\ run[s].parent # NoSession => s = t

ModesAgree ==
  /\ \A s \in Sessions : /\ CallFits(s) /\ DelegationJudged(s) /\ Covered(s)
                         /\ run[s].stage = "new" => run[s].parent = NoSession
  /\ OneChild

(* Snapshots.                                                              *)

\* The i-th snapshot of a session is the oldest of file p.
IsFirst(s, p, i) ==
  /\ i \in DOMAIN snapshots[s] /\ snapshots[s][i].path = p
  /\ \A j \in 1 .. i - 1 : snapshots[s][j].path # p

\* The session would revert the file to its original text.
Kept(s, p) == \E i \in DOMAIN snapshots[s] : IsFirst(s, p, i) /\ snapshots[s][i].content = Original

\* Nobody has changed the file, and a call that may is still to save it.
Untouched(s, p) ==
  /\ \A i \in DOMAIN snapshots[s] : snapshots[s][i].path # p
  /\ changedBy[p] = {} /\ files[p] = Original
  /\ run[s].stage \in {"read", "moving", "found", "replaced"} /\ run[s].call.path = p
       => run[s].before = Original
  /\ run[s].stage = "found" /\ run[s].call.to = p => run[s].after = Original
  /\ run[s].stage = "replaced" => run[s].call.to # p
  /\ run[s].stage = "saved" => run[s].call.path # p
  /\ run[s].stage = "saved" /\ run[s].call.tool = "move_file" => run[s].call.to # p

BaselinesSafe ==
  \A s \in Sessions, p \in Present :
    changedBy[p] \subseteq {s} /\ <<s, p>> \notin unsaved => Kept(s, p) \/ Untouched(s, p)

IInv == WellTyped /\ ModesAgree /\ BaselinesSafe

-----------------------------------------------------------------------------
(* What steps do to runs.                                                  *)

\* Everything of a run but where its call is.
SameSession(r, q) == r.mode = q.mode /\ r.planning = q.planning /\ r.tools = q.tools /\ r.parent = q.parent

OthersKeep(s) == \A t \in Sessions \ {s} : run'[t] = run[t]

\* A call and a run that are not there are well-typed, and so are the sentinels.
LEMMA Constants ==
  /\ NoCall \in Calls /\ NoCall.tool = "read_file"
  /\ NoSession \notin Sessions /\ Other \notin Sessions
  /\ Original # Missing /\ Text(Original) = Original
<1>1. NoCall \in Calls /\ NoCall.tool = "read_file"
  BY PermissionsAssumption DEF NoCall, Calls, ToolNames, Texts
<1>2. NoSession \notin Sessions /\ Other \notin Sessions
  BY ToolsAssumption DEF NoSession, Other
<1>3. PICK l \in Lines : Original = <<l>>
  BY ToolsAssumption DEF Original
<1>4. Original # Missing
  BY <1>3, ToolsAssumption DEF Missing
<1> QED
  BY <1>1, <1>2, <1>4 DEF Text

\* The runs that steps make are well-typed.
LEMMA RunTypes ==
  ASSUME NEW T, TypedWith(T), NEW s \in Sessions
  PROVE  /\ run[s] \in RunsWith(T)
         /\ NewRun \in RunsWith(T) /\ Ended(s) \in RunsWith(T)
         /\ \A stage \in Stages : Rested(s, stage) \in RunsWith(T)
<1>1. run[s] \in RunsWith(T) /\ Missing \in T
  BY DEF TypedWith
<1>2. NewRun \in RunsWith(T)
  BY <1>1, Constants DEF NewRun, RunsWith, Stages, AgentModes
<1>3. Ended(s) \in RunsWith(T)
  BY <1>1, <1>2 DEF Ended, RunsWith, Stages
<1>4. \A stage \in Stages : Rested(s, stage) \in RunsWith(T)
  BY <1>1, Constants DEF Rested, RunsWith
<1> QED
  BY <1>1, <1>2, <1>3, <1>4

\* A call goes on.
LEMMA GoesRun ==
  ASSUME NEW T, TypedWith(T), NEW s \in Sessions, NEW stage \in Stages, Goes(s, stage)
  PROVE  /\ run' \in [Sessions -> RunsWith(T)]
         /\ run'[s].stage = stage /\ SameSession(run'[s], run[s])
         /\ run'[s].call = run[s].call /\ run'[s].before = run[s].before
         /\ run'[s].after = run[s].after /\ OthersKeep(s)
<1>1. run[s] \in RunsWith(T) /\ run \in [Sessions -> RunsWith(T)]
  BY DEF TypedWith
<1>2. run' = [run EXCEPT ![s] = [run[s] EXCEPT !.stage = stage]]
  BY DEF Goes
<1>3. [run[s] EXCEPT !.stage = stage] \in RunsWith(T)
  BY <1>1 DEF RunsWith
<1>4. run'[s] = [run[s] EXCEPT !.stage = stage]
  BY <1>1, <1>2
<1> QED
  BY <1>1, <1>2, <1>3, <1>4 DEF RunsWith, SameSession, OthersKeep

\* A call is over.
LEMMA IdleRun ==
  ASSUME NEW T, TypedWith(T), NEW s \in Sessions, Idle(s)
  PROVE  /\ run' \in [Sessions -> RunsWith(T)]
         /\ run'[s].stage = "free" /\ SameSession(run'[s], run[s]) /\ OthersKeep(s)
<1>1. run[s] \in RunsWith(T) /\ run \in [Sessions -> RunsWith(T)]
  BY DEF TypedWith
<1>2. Rested(s, "free") \in RunsWith(T)
  BY RunTypes DEF Stages
<1>3. run' = [run EXCEPT ![s] = Rested(s, "free")] /\ run'[s] = Rested(s, "free")
  BY <1>1 DEF Idle
<1> QED
  BY <1>1, <1>2, <1>3 DEF Rested, RunsWith, SameSession, OthersKeep

\* A run is over, and whoever waits for it goes on.
LEMMA OverRun ==
  ASSUME NEW T, TypedWith(T), NEW s \in Sessions, Over(s)
  PROVE  /\ run' \in [Sessions -> RunsWith(T)]
         /\ run'[s].stage = "over" /\ run'[s].parent = run[s].parent
         /\ \A t \in Sessions \ {s} :
              IF t = run[s].parent THEN run'[t].stage = "free" /\ SameSession(run'[t], run[t])
              ELSE run'[t] = run[t]
<1>1. \A t \in Sessions : /\ run[t] \in RunsWith(T) /\ Ended(t) \in RunsWith(T)
                          /\ Rested(t, "free") \in RunsWith(T)
  BY RunTypes DEF Stages
<1>2. \A t \in Sessions :
        run'[t] = IF t = s THEN Ended(s)
                  ELSE IF t = run[s].parent THEN Rested(t, "free") ELSE run[t]
  BY DEF Over
<1>3. run' \in [Sessions -> RunsWith(T)]
  BY <1>1 DEF Over
<1>4. Ended(s).stage = "over" /\ Ended(s).parent = run[s].parent
  BY DEF Ended, NewRun
<1>5. \A t \in Sessions : Rested(t, "free").stage = "free" /\ SameSession(Rested(t, "free"), run[t])
  BY <1>1 DEF Rested, RunsWith, SameSession
<1> QED
  BY <1>2, <1>3, <1>4, <1>5

\* A tool is executed, or the call is over.
LEMMA ExecuteRun ==
  ASSUME NEW T, TypedWith(T), NEW s \in Sessions, Execute(s)
  PROVE  \/ /\ Goes(s, "running")
            /\ run[s].call.tool \in run[s].tools /\ run[s].call.tool # "read_file"
            /\ PermissionMode(s) \in AvailableInModes(run[s].call.tool)
         \/ Idle(s)
BY DEF Execute

\* A snapshot is one of its file, with the content given.
LEMMA EntryTypes ==
  ASSUME NEW T, TypedWith(T), NEW path \in Paths, NEW content \in T
  PROVE  /\ Entry(path, content) \in Saved(T) /\ Entry(path, content).path = path
         /\ Entry(path, content).content = Text(content)
<1>1. Text(content) \in T
  BY DEF TypedWith, Text
<1>2. SafeName(path) \in {SafeName(p) : p \in Paths}
  OBVIOUS
<1> HIDE DEF SafeName
<1> QED
  BY <1>1, <1>2 DEF Entry, Saved

\* A snapshot is put at the end.
LEMMA SnapshotAdded ==
  ASSUME NEW T, TypedWith(T), NEW s \in Sessions, NEW path \in Paths, NEW content \in T,
         Snapshot(s, path, content)
  PROVE  /\ snapshots' \in [Sessions -> Seq(Saved(T))]
         /\ snapshots'[s] = Append(snapshots[s], Entry(path, content))
         /\ \A t \in Sessions \ {s} : snapshots'[t] = snapshots[t]
<1>1. snapshots \in [Sessions -> Seq(Saved(T))]
  BY DEF TypedWith
<1>2. PICK e : e = Entry(path, content)
  OBVIOUS
<1>3. snapshots' = [snapshots EXCEPT ![s] = Append(snapshots[s], e)]
  BY <1>2 DEF Snapshot, Entry
<1>4. e \in Saved(T)
  BY <1>2, EntryTypes
<1>5. Append(snapshots[s], e) \in Seq(Saved(T))
  BY <1>1, <1>4
<1> QED
  BY <1>1, <1>2, <1>3, <1>5

\* Marking files as changed keeps them marked.
LEMMA MarksAdded ==
  ASSUME NEW T, TypedWith(T), NEW paths, NEW by \in Sessions \cup {Other}, Changed(paths, by)
  PROVE  /\ changedBy' \in [Paths -> SUBSET (Sessions \cup {Other})]
         /\ \A p \in Paths : changedBy'[p] = IF p \in paths THEN changedBy[p] \cup {by} ELSE changedBy[p]
<1>1. changedBy \in [Paths -> SUBSET (Sessions \cup {Other})]
  BY DEF TypedWith
<1> QED
  BY <1>1 DEF Changed

\* A call that is asked about and one that is judged are calls.
LEMMA CallTypes ==
  ASSUME NEW call \in Asked
  PROVE  /\ call \in Calls /\ Judged(call) \in Calls /\ Judged(call).tool = call.tool
         /\ call.tool = "run_subagent" => Judged(call).kind = call.kind
<1>1. call \in Calls
  BY CallsAssumption
<1>2. Judged(call) \in Calls /\ Judged(call).tool = call.tool
  BY <1>1 DEF Judged, Calls
<1>3. CASE call.tool = "run_subagent"
  BY <1>1, <1>2, <1>3, CallsAssumption DEF Judged
<1> QED
  BY <1>1, <1>2, <1>3

\* A proposed call waits for the user or for the hooks.
LEMMA ProposeRun ==
  ASSUME NEW T, TypedWith(T), NEW s \in Sessions, NEW call \in Asked, Propose(s, call)
  PROVE  /\ run' \in [Sessions -> RunsWith(T)]
         /\ run'[s].stage \in {"asking", "permitted"} /\ SameSession(run'[s], run[s])
         /\ run'[s].call = Judged(call) /\ OthersKeep(s)
<1>1. run[s] \in RunsWith(T) /\ run \in [Sessions -> RunsWith(T)]
  BY DEF TypedWith
<1> DEFINE stage == IF Decision(s, call) = "ask" THEN "asking" ELSE "permitted"
<1>2. /\ stage \in {"asking", "permitted"}
      /\ run' = [run EXCEPT ![s].stage = stage, ![s].call = Judged(call)]
  BY <1>1 DEF Propose
<1> HIDE DEF stage
<1> DEFINE r == [run[s] EXCEPT !.stage = stage, !.call = Judged(call)]
<1>3. run' = [run EXCEPT ![s] = r]
  BY <1>1, <1>2
<1>4. r \in RunsWith(T)
  BY <1>1, <1>2, CallTypes DEF RunsWith, Stages
<1>5. r.stage = stage /\ r.call = Judged(call) /\ SameSession(r, run[s])
  BY <1>1 DEF RunsWith, SameSession
<1>6. run'[s] = r
  BY <1>1, <1>3
<1> HIDE DEF r
<1> QED
  BY <1>1, <1>2, <1>3, <1>4, <1>5, <1>6 DEF OthersKeep

\* A tool that is not over reads or saves a file.
LEMMA ReadRun ==
  ASSUME NEW T, TypedWith(T), NEW s \in Sessions, NEW stage \in Stages, NEW before \in T,
         NEW after \in T,
         run' = [run EXCEPT ![s] = [run[s] EXCEPT !.stage = stage, !.before = before, !.after = after]]
  PROVE  /\ run' \in [Sessions -> RunsWith(T)]
         /\ run'[s].stage = stage /\ run'[s].before = before /\ run'[s].after = after
         /\ SameSession(run'[s], run[s]) /\ run'[s].call = run[s].call /\ OthersKeep(s)
<1>1. run[s] \in RunsWith(T) /\ run \in [Sessions -> RunsWith(T)]
  BY DEF TypedWith
<1> DEFINE r == [run[s] EXCEPT !.stage = stage, !.before = before, !.after = after]
<1>2. run' = [run EXCEPT ![s] = r]
  OBVIOUS
<1>3. r \in RunsWith(T)
  BY <1>1 DEF RunsWith
<1>4. /\ r.stage = stage /\ r.before = before /\ r.after = after
      /\ SameSession(r, run[s]) /\ r.call = run[s].call
  BY <1>1 DEF RunsWith, SameSession
<1>5. run'[s] = r
  BY <1>1, <1>2
<1> HIDE DEF r
<1> QED
  BY <1>1, <1>2, <1>3, <1>4, <1>5 DEF OthersKeep

\* What the steps that read and save a file make of the run.
FileStep(s) ==
  \/ ReadAndCompute(s) \/ ReadBefore(s) \/ CaptureSnapshot(s)
  \/ BeginMove(s) \/ ReadReplaced(s) \/ SaveReplaced(s) \/ SaveMoved(s)

Reads(s, stage, before, after) ==
  /\ run'[s].stage = stage /\ run'[s].before = before /\ run'[s].after = after
  /\ SameSession(run'[s], run[s]) /\ run'[s].call = run[s].call /\ OthersKeep(s)

\* Stage by stage, with the content of the file that is kept.
LEMMA FileStepRun ==
  ASSUME NEW T, TypedWith(T), Wide(T), NEW s \in Sessions, FileStep(s)
  PROVE  /\ run' \in [Sessions -> RunsWith(T)]
         /\ \/ /\ ReadAndCompute(s) /\ run[s].stage = "running"
               /\ run[s].call.tool \in FileTools \ {"write_file", "move_file"}
               /\ \E stage \in {"computed", "read"} :
                    Reads(s, stage, files[run[s].call.path], Result(run[s].call, files[run[s].call.path]))
            \/ /\ ReadBefore(s)
               /\ run[s].stage = "computed" \/ (run[s].stage = "running" /\ run[s].call.tool = "write_file")
               /\ \E before, after \in T :
                    /\ Reads(s, "read", before, after)
                    /\ before = Text(files[run[s].call.path]) \/ Loses(s, run[s].call.path)
            \/ /\ CaptureSnapshot(s) /\ run[s].stage = "read"
               /\ Reads(s, "saved", run[s].before, run[s].after)
            \/ /\ BeginMove(s) /\ run[s].stage = "running" /\ run[s].call.tool = "move_file"
               /\ Reads(s, "moving", files[run[s].call.path], run[s].after)
            \/ /\ ReadReplaced(s) /\ run[s].stage = "moving"
               /\ \/ Reads(s, "found", run[s].before, files[run[s].call.to])
                  \/ /\ Reads(s, "replaced", run[s].before, run[s].after)
                     /\ files[run[s].call.to] = Missing \/ Loses(s, run[s].call.to)
            \/ /\ SaveReplaced(s) /\ run[s].stage = "found"
               /\ Reads(s, "replaced", run[s].before, run[s].after)
            \/ /\ SaveMoved(s) /\ run[s].stage = "replaced"
               /\ Reads(s, "saved", run[s].before, run[s].after)
<1> DEFINE path == run[s].call.path
           to == run[s].call.to
           result == Result(run[s].call, files[path])
<1>1. /\ run[s] \in RunsWith(T) /\ run \in [Sessions -> RunsWith(T)]
      /\ files[path] \in T /\ files[to] \in T /\ run[s].before \in T /\ run[s].after \in T
      /\ {Missing, <<>>} \subseteq T /\ Text(files[path]) \in T
  BY DEF TypedWith, RunsWith, Calls, Text
<1>2. result \in T /\ run[s].call.new \in T
  BY DEF Wide
<1>3. ASSUME NEW stage \in Stages, Goes(s, stage)
      PROVE  run' \in [Sessions -> RunsWith(T)] /\ Reads(s, stage, run[s].before, run[s].after)
  BY <1>3, GoesRun DEF Reads
<1>4. ASSUME NEW stage \in Stages, NEW before \in T, NEW after \in T,
             run' = [run EXCEPT ![s] = [run[s] EXCEPT !.stage = stage, !.before = before, !.after = after]]
      PROVE  run' \in [Sessions -> RunsWith(T)] /\ Reads(s, stage, before, after)
  BY <1>4, ReadRun DEF Reads
<1> HIDE DEF Reads
<1>5. CASE ReadAndCompute(s)
  <2>1. /\ run[s].stage = "running" /\ run[s].call.tool \in FileTools \ {"write_file", "move_file"}
        /\ run' = [run EXCEPT
             ![s].stage = IF run[s].call.tool = "search_replace" THEN "computed" ELSE "read",
             ![s].before = files[path], ![s].after = result]
    BY <1>5 DEF ReadAndCompute
  <2>2. PICK stage \in {"computed", "read"} :
          stage = IF run[s].call.tool = "search_replace" THEN "computed" ELSE "read"
    OBVIOUS
  <2>3. PICK before \in T : before = files[path]
    BY <1>1
  <2>4. PICK after \in T : after = result
    BY <1>2
  <2>5. run' = [run EXCEPT ![s] = [run[s] EXCEPT !.stage = stage, !.before = before, !.after = after]]
    BY <1>1, <2>1, <2>2, <2>3, <2>4
  <2>6. stage \in Stages
    BY DEF Stages
  <2>7. run' \in [Sessions -> RunsWith(T)] /\ Reads(s, stage, before, after)
    BY <1>4, <2>5, <2>6
  <2> QED
    BY <1>5, <2>1, <2>3, <2>4, <2>7
<1>6. CASE ReadBefore(s)
  <2>1. run[s].stage = "computed" \/ (run[s].stage = "running" /\ run[s].call.tool = "write_file")
    BY <1>6 DEF ReadBefore
  <2>2. PICK before \in {Text(files[path]), <<>>} :
          /\ run' = [run EXCEPT
               ![s].stage = "read", ![s].before = before,
               ![s].after = IF run[s].call.tool = "write_file" THEN run[s].call.new ELSE @]
          /\ before = Text(files[path]) \/ Loses(s, path)
    BY <1>6 DEF ReadBefore
  <2>3. before \in T
    BY <1>1
  <2>4. PICK after \in T : after = IF run[s].call.tool = "write_file" THEN run[s].call.new ELSE run[s].after
    BY <1>1, <1>2
  <2>5. run' = [run EXCEPT ![s] = [run[s] EXCEPT !.stage = "read", !.before = before, !.after = after]]
    BY <1>1, <2>2, <2>4
  <2>6. run' \in [Sessions -> RunsWith(T)] /\ Reads(s, "read", before, after)
    BY <1>4, <2>3, <2>5 DEF Stages
  <2> QED
    BY <1>6, <2>1, <2>2, <2>3, <2>4, <2>6
<1>7. CASE BeginMove(s)
  <2>1. /\ run[s].stage = "running" /\ run[s].call.tool = "move_file"
        /\ run' = [run EXCEPT ![s].stage = "moving", ![s].before = files[path]]
    BY <1>7 DEF BeginMove
  <2>2. PICK before \in T, after \in T : before = files[path] /\ after = run[s].after
    BY <1>1
  <2>3. [run[s] EXCEPT !.stage = "moving", !.before = before]
          = [run[s] EXCEPT !.stage = "moving", !.before = before, !.after = after]
    BY <1>1, <2>2 DEF RunsWith
  <2>4. run' = [run EXCEPT ![s] = [run[s] EXCEPT !.stage = "moving", !.before = before, !.after = after]]
    BY <1>1, <2>1, <2>2, <2>3
  <2>5. run' \in [Sessions -> RunsWith(T)] /\ Reads(s, "moving", before, after)
    BY <1>4, <2>4 DEF Stages
  <2> QED
    BY <1>7, <2>1, <2>2, <2>5
<1>8. CASE ReadReplaced(s)
  <2>1. run[s].stage = "moving"
    BY <1>8 DEF ReadReplaced
  <2>2. CASE run' = [run EXCEPT ![s].stage = "found", ![s].after = files[to]]
    <3>1. PICK before \in T, after \in T : before = run[s].before /\ after = files[to]
      BY <1>1
    <3>2. [run[s] EXCEPT !.stage = "found", !.after = after]
            = [run[s] EXCEPT !.stage = "found", !.before = before, !.after = after]
      BY <1>1, <3>1 DEF RunsWith
    <3>3. run' = [run EXCEPT ![s] = [run[s] EXCEPT !.stage = "found", !.before = before, !.after = after]]
      BY <1>1, <2>2, <3>1, <3>2
    <3>4. run' \in [Sessions -> RunsWith(T)] /\ Reads(s, "found", before, after)
      BY <1>4, <3>3 DEF Stages
    <3> QED
      BY <1>8, <2>1, <3>1, <3>4
  <2>3. CASE Goes(s, "replaced") /\ (files[to] = Missing \/ Loses(s, to))
    <3>1. run' \in [Sessions -> RunsWith(T)] /\ Reads(s, "replaced", run[s].before, run[s].after)
      BY <1>3, <2>3 DEF Stages
    <3> QED
      BY <1>8, <2>1, <2>3, <3>1
  <2> QED
    BY <1>8, <2>2, <2>3 DEF ReadReplaced
<1>9. CASE CaptureSnapshot(s) \/ SaveMoved(s)
  <2>1. Goes(s, "saved") /\ "saved" \in Stages
    BY <1>9 DEF CaptureSnapshot, SaveMoved, Stages
  <2>2. run' \in [Sessions -> RunsWith(T)] /\ Reads(s, "saved", run[s].before, run[s].after)
    BY <1>3, <2>1
  <2>3. (CaptureSnapshot(s) /\ run[s].stage = "read") \/ (SaveMoved(s) /\ run[s].stage = "replaced")
    BY <1>9 DEF CaptureSnapshot, SaveMoved
  <2> QED
    BY <2>2, <2>3
<1>10. CASE SaveReplaced(s)
  <2>1. Goes(s, "replaced") /\ "replaced" \in Stages /\ run[s].stage = "found"
    BY <1>10 DEF SaveReplaced, Stages
  <2>2. run' \in [Sessions -> RunsWith(T)] /\ Reads(s, "replaced", run[s].before, run[s].after)
    BY <1>3, <2>1
  <2> QED
    BY <1>10, <2>1, <2>2
<1> QED
  BY <1>5, <1>6, <1>7, <1>8, <1>9, <1>10 DEF FileStep

\* The mode of a session is one of the agent modes.
LEMMA PermissionModes ==
  ASSUME NEW T, TypedWith(T), NEW s \in Sessions
  PROVE  PermissionMode(s) \in AgentModes
<1>1. run[s] \in RunsWith(T)
  BY DEF TypedWith
<1> QED
  BY <1>1 DEF PermissionMode, RunsWith, AgentModes

\* A subagent gets a session of its own, with tools its caller has.
LEMMA SubagentRun ==
  ASSUME NEW T, TypedWith(T), NEW s \in Sessions, NEW child \in Sessions, RunSubagent(s, child),
         run[s].call.kind \in DOMAIN Agents
  PROVE  /\ run' \in [Sessions -> RunsWith(T)] /\ child # s
         /\ run'[s].stage = "delegating" /\ SameSession(run'[s], run[s]) /\ run'[s].call = run[s].call
         /\ run'[child].stage = "free" /\ run'[child].parent = s
         /\ run'[child].tools \subseteq Agents[run[s].call.kind].tools
         /\ \A t \in Sessions \ {s, child} : run'[t] = run[t]
<1>1. run[s] \in RunsWith(T) /\ run \in [Sessions -> RunsWith(T)] /\ run[s].stage = "running"
      /\ run[child].stage = "new" /\ child # s
  BY DEF TypedWith, RunSubagent
<1> DEFINE definition == Agents[run[s].call.kind]
           r == [run[s] EXCEPT !.stage = "delegating"]
           c == [NewRun EXCEPT !.stage = "free", !.parent = s,
                   !.mode = ModeOf(definition, PermissionMode(s)),
                   !.tools = definition.tools \cap run[s].tools]
<1>2. definition \in Definitions
  BY PermissionsAssumption
<1>3. ModeOf(definition, PermissionMode(s)) \in AgentModes
  BY <1>2, PermissionModes DEF ModeOf, Definitions, AgentModes
<1>4. r \in RunsWith(T) /\ r.stage = "delegating" /\ SameSession(r, run[s]) /\ r.call = run[s].call
  BY <1>1 DEF RunsWith, SameSession, Stages
<1>5. NewRun \in RunsWith(T)
  BY RunTypes
<1>6. c \in RunsWith(T)
  BY <1>1, <1>2, <1>3, <1>5 DEF RunsWith, Stages, Definitions
<1>7. c.stage = "free" /\ c.parent = s /\ c.tools \subseteq definition.tools
  BY <1>5 DEF RunsWith
<1>8. run' = [run EXCEPT ![s].stage = "delegating", ![child] = c]
  BY DEF RunSubagent
<1>9. run'[s] = r /\ run'[child] = c /\ \A t \in Sessions \ {s, child} : run'[t] = run[t]
  BY <1>1, <1>8
<1>10. run' = [run EXCEPT ![s] = r, ![child] = c]
  BY <1>1, <1>8
<1> HIDE DEF r, c
<1>11. run' \in [Sessions -> RunsWith(T)]
  BY <1>1, <1>4, <1>6, <1>10
<1> QED
  BY <1>1, <1>4, <1>7, <1>9, <1>11

\* A run of a session begins.
LEMMA StartedRun ==
  ASSUME NEW T, TypedWith(T), NEW s \in Sessions, NEW mode \in RunModes, StartRun(s, mode)
  PROVE  /\ run' \in [Sessions -> RunsWith(T)]
         /\ run'[s].stage = "free" /\ run'[s].parent = NoSession /\ OthersKeep(s)
<1>1. run \in [Sessions -> RunsWith(T)] /\ NewRun \in RunsWith(T) /\ mode \in AgentModes
  BY RunTypes, ToolsAssumption DEF TypedWith
<1> DEFINE r == [NewRun EXCEPT !.stage = "free", !.mode = mode, !.tools = ToolNames]
<1>2. run' = [run EXCEPT ![s] = r]
  BY DEF StartRun
<1>3. r \in RunsWith(T)
  BY <1>1 DEF RunsWith, Stages
<1>4. r.stage = "free" /\ r.parent = NoSession
  BY <1>1 DEF NewRun
<1> HIDE DEF r
<1> QED
  BY <1>1, <1>2, <1>3, <1>4 DEF OthersKeep

\* Plan mode is entered or left between two calls.
LEMMA PlanningRun ==
  ASSUME NEW T, TypedWith(T), NEW s \in Sessions, EnterPlanMode(s) \/ ExitPlanMode(s)
  PROVE  /\ run' \in [Sessions -> RunsWith(T)]
         /\ run'[s].stage = "free" /\ run'[s].parent = run[s].parent /\ run'[s].tools = run[s].tools
         /\ OthersKeep(s)
<1>1. run \in [Sessions -> RunsWith(T)] /\ run[s] \in RunsWith(T)
  BY DEF TypedWith
<1>2. CASE EnterPlanMode(s)
  <2> DEFINE r == [run[s] EXCEPT !.planning = TRUE]
  <2>1. run' = [run EXCEPT ![s] = r]
    BY <1>1, <1>2 DEF EnterPlanMode
  <2>2. r \in RunsWith(T)
    BY <1>1 DEF RunsWith
  <2>3. r.stage = "free" /\ r.parent = run[s].parent /\ r.tools = run[s].tools
    BY <1>1, <1>2 DEF RunsWith, EnterPlanMode
  <2> HIDE DEF r
  <2> QED
    BY <1>1, <2>1, <2>2, <2>3 DEF OthersKeep
<1>3. CASE ExitPlanMode(s)
  <2> DEFINE r == [run[s] EXCEPT !.stage = "free", !.planning = FALSE]
  <2>1. run' = [run EXCEPT ![s] = r]
    BY <1>1, <1>3 DEF ExitPlanMode
  <2>2. r \in RunsWith(T)
    BY <1>1 DEF RunsWith, Stages
  <2>3. r.stage = "free" /\ r.parent = run[s].parent /\ r.tools = run[s].tools
    BY <1>1 DEF RunsWith
  <2> HIDE DEF r
  <2> QED
    BY <1>1, <2>1, <2>2, <2>3 DEF OthersKeep
<1> QED
  BY <1>2, <1>3

\* When the process dies every run that had begun is over.
LEMMA CrashedRuns ==
  ASSUME NEW T, TypedWith(T), Crash
  PROVE  /\ run' \in [Sessions -> RunsWith(T)]
         /\ \A s \in Sessions : /\ run'[s].stage \in {"new", "over"}
                                /\ run'[s].stage = "new" => run'[s].parent = NoSession
<1>1. \A s \in Sessions : NewRun \in RunsWith(T) /\ Ended(s) \in RunsWith(T)
  BY RunTypes
<1>2. run' \in [Sessions -> RunsWith(T)]
  BY <1>1 DEF Crash
<1>3. \A s \in Sessions : Ended(s).stage = "over" /\ NewRun.stage = "new" /\ NewRun.parent = NoSession
  BY DEF Ended, NewRun
<1>4. \A s \in Sessions : run'[s] = IF run[s].stage = "new" THEN NewRun ELSE Ended(s)
  BY DEF Crash
<1> QED
  BY <1>2, <1>3, <1>4

\* The steps that end a run.
Ends(s) ==
  \/ EndRun(s) \/ (\E call \in Asked : ProposeDenied(s, call)) \/ Reject(s)
  \/ RunPreToolUseHooks(s, "deny")

\* The steps with which a call, or the wait for a plan, goes on or is over without a change
\* of a file.
GoesOn(s) ==
  \/ Approve(s) \/ RunPreToolUseHooks(s, "continue") \/ RunPreToolUseHooks(s, "ask")
  \/ AskForPlan(s) \/ PlanRefused(s) \/ ToolFails(s) \/ SendRequest(s) \/ TakeAnswer(s) \/ TimeOut(s)

\* What such a step does, stage by stage.
LEMMA GoesOnRun ==
  ASSUME NEW s \in Sessions, GoesOn(s)
  PROVE  /\ UNCHANGED <<files, snapshots, changedBy, unsaved, reverting>>
         /\ server' \in {server - 1, server, server + 1}
         /\ ~SendRequest(s) => server' \in {server - 1, server}
         /\ \/ run[s].stage = "asking" /\ Goes(s, "permitted")
            \/ run[s].stage = "permitted" /\ Goes(s, "hookAsks")
            \/ run[s].stage \in {"permitted", "hookAsks"} /\ Execute(s)
            \/ run[s].stage = "free" /\ Goes(s, "planAsks")
            \/ run[s].stage = "planAsks" /\ Goes(s, "free")
            \/ run[s].stage = "running" /\ Goes(s, "polling")
            \/ /\ run[s].stage \in {"running", "computed", "read", "moving", "found", "replaced",
                                    "saved", "polling"}
               /\ Idle(s)
<1> USE DEF KeepsFiles
<1>1. CASE Approve(s)
  BY <1>1 DEF Approve
<1>2. CASE RunPreToolUseHooks(s, "continue") \/ RunPreToolUseHooks(s, "ask")
  BY <1>2 DEF RunPreToolUseHooks
<1>3. CASE AskForPlan(s) \/ PlanRefused(s)
  BY <1>3 DEF AskForPlan, PlanRefused
<1>4. CASE ToolFails(s) \/ SendRequest(s) \/ TakeAnswer(s) \/ TimeOut(s)
  BY <1>4 DEF ToolFails, SendRequest, TakeAnswer, TimeOut
<1> QED
  BY <1>1, <1>2, <1>3, <1>4 DEF GoesOn

\* The run of a call that goes on.
LEMMA GoesOnTyped ==
  ASSUME NEW T, TypedWith(T), NEW s \in Sessions, GoesOn(s)
  PROVE  /\ run' \in [Sessions -> RunsWith(T)] /\ SameSession(run'[s], run[s]) /\ OthersKeep(s)
<1>1. CASE Execute(s)
  BY <1>1, ExecuteRun, GoesRun, IdleRun DEF Stages
<1>2. CASE Idle(s)
  BY <1>2, IdleRun
<1>3. \A stage \in Stages : Goes(s, stage) =>
        run' \in [Sessions -> RunsWith(T)] /\ SameSession(run'[s], run[s]) /\ OthersKeep(s)
  BY GoesRun
<1> QED
  BY <1>1, <1>2, <1>3, GoesOnRun DEF Stages

\* The steps that are another session's, the user's or nobody's leave all runs alone.
LEMMA OutsideSteps ==
  ASSUME \/ (\E s \in Sessions : RevertSession(s))
         \/ (\E path \in Present, text \in FileTexts : UserEdits(path, text))
         \/ (\E path \in Present, text \in FileTexts : ServerWrites(path, text))
         \/ (\E baseline \in reverting : RevertFile(baseline))
         \/ RevertStops
  PROVE  UNCHANGED run
BY DEF RevertSession, UserEdits, ServerWrites, Edited, RevertFile, RevertStops

\* Next, by what a step does to the runs.
LEMMA NextCases ==
  ASSUME [Next]_vars
  PROVE  \/ UNCHANGED vars \/ Crash
         \/ (\E path \in Present, text \in FileTexts : UserEdits(path, text))
         \/ (\E path \in Present, text \in FileTexts : ServerWrites(path, text))
         \/ (\E baseline \in reverting : RevertFile(baseline))
         \/ RevertStops
         \/ \E s \in Sessions :
              \/ RevertSession(s) \/ Ends(s) \/ GoesOn(s)
              \/ (\E mode \in RunModes : StartRun(s, mode))
              \/ (\E call \in Asked : Propose(s, call))
              \/ EnterPlanMode(s) \/ ExitPlanMode(s)
              \/ (\E child \in Sessions : RunSubagent(s, child))
              \/ FileStep(s) \/ SaveFails(s) \/ WriteBack(s) \/ Rename(s)
              \/ (\E text \in FileTexts : RunCommand(s, text))
<1>1. ASSUME NEW s \in Sessions,
             \E action \in {"continue", "ask", "deny"} : RunPreToolUseHooks(s, action)
      PROVE  Ends(s) \/ GoesOn(s)
  BY <1>1 DEF Ends, GoesOn
<1> QED
  BY <1>1 DEF Next, Step, Ends, GoesOn, FileStep

-----------------------------------------------------------------------------
(* Types.                                                                  *)

\* A larger set of texts will do as well.
LEMMA MoreTexts ==
  ASSUME NEW T, NEW U, T \subseteq U, TypedWith(T)
  PROVE  TypedWith(U)
<1>1. RunsWith(T) \subseteq RunsWith(U) /\ Saved(T) \subseteq Saved(U) /\ Restored(T) \subseteq Restored(U)
  BY DEF RunsWith, Saved, Restored
<1>2. \A q \in Seq(Saved(T)) : q \in Seq(Saved(U))
  BY <1>1
<1> HIDE DEF RunsWith, Saved, Restored
<1>3. run \in [Sessions -> RunsWith(U)] /\ snapshots \in [Sessions -> Seq(Saved(U))]
  BY <1>1, <1>2 DEF TypedWith
<1>4. files \in [Paths -> U] /\ reverting \subseteq Restored(U)
  BY <1>1 DEF TypedWith
<1> QED
  BY <1>3, <1>4 DEF TypedWith

\* Every step leads to runs of the right form.
LEMMA RunsTyped ==
  ASSUME NEW T, TypedWith(T), Wide(T), ModesAgree, [Next]_vars
  PROVE  run' \in [Sessions -> RunsWith(T)]
<1>1. CASE UNCHANGED run
  BY <1>1 DEF TypedWith
<1>2. CASE Crash
  BY <1>2, CrashedRuns
<1>3. ASSUME NEW s \in Sessions, Ends(s)
      PROVE  Over(s)
  BY <1>3 DEF Ends, EndRun, ProposeDenied, Reject, RunPreToolUseHooks
<1>4. ASSUME NEW s \in Sessions,
             \/ Ends(s) \/ GoesOn(s)
             \/ (\E mode \in RunModes : StartRun(s, mode))
             \/ (\E call \in Asked : Propose(s, call))
             \/ EnterPlanMode(s) \/ ExitPlanMode(s)
      PROVE  run' \in [Sessions -> RunsWith(T)]
  BY <1>3, <1>4, OverRun, GoesOnTyped, StartedRun, ProposeRun, PlanningRun
<1>5. ASSUME NEW s \in Sessions, NEW child \in Sessions, RunSubagent(s, child)
      PROVE  run' \in [Sessions -> RunsWith(T)]
  <2>1. run[s].call.kind \in DOMAIN Agents
    BY <1>5 DEF ModesAgree, DelegationJudged, RunSubagent
  <2> QED
    BY <1>5, <2>1, SubagentRun
<1>6. ASSUME NEW s \in Sessions,
             \/ SaveFails(s) \/ WriteBack(s) \/ Rename(s) \/ (\E text \in FileTexts : RunCommand(s, text))
      PROVE  run' \in [Sessions -> RunsWith(T)]
  <2>1. Idle(s)
    BY <1>6 DEF SaveFails, WriteBack, Rename, RunCommand
  <2> QED
    BY <2>1, IdleRun
<1>7. ASSUME NEW s \in Sessions, FileStep(s)
      PROVE  run' \in [Sessions -> RunsWith(T)]
  BY <1>7, FileStepRun
<1>9. UNCHANGED vars => UNCHANGED run
  BY DEF vars
<1> QED
  BY <1>1, <1>2, <1>4, <1>5, <1>6, <1>7, <1>9, NextCases, OutsideSteps

\* What a snapshot would put back has a path that one of the files is read back as.
LEMMA BaselineTypes ==
  ASSUME NEW T, TypedWith(T), NEW s \in Sessions, NEW i \in DOMAIN snapshots[s]
  PROVE  Baseline(s, RelativePath(snapshots[s][i].name)) \subseteq Restored(T)
<1>1. snapshots[s] \in Seq(Saved(T))
  BY DEF TypedWith
<1>2. \A k \in DOMAIN snapshots[s] : /\ snapshots[s][k].content \in T /\ snapshots[s][k].path \in Paths
                                     /\ snapshots[s][k].name = SafeName(snapshots[s][k].path)
  BY <1>1 DEF Saved
<1> HIDE DEF RelativePath, SafeName
<1>3. PICK path : path = RelativePath(snapshots[s][i].name)
  OBVIOUS
<1>4. path \in {RelativePath(SafeName(p)) : p \in Paths}
  BY <1>2, <1>3
<1> QED
  BY <1>2, <1>3, <1>4 DEF Baseline, Restored

\* Every step leads to files, snapshots and marks of the right form.
LEMMA FilesTyped ==
  ASSUME NEW T, TypedWith(T), Wide(T), ModesAgree, [Next]_vars
  PROVE  /\ files' \in [Paths -> T]
         /\ snapshots' \in [Sessions -> Seq(Saved(T))]
         /\ changedBy' \in [Paths -> SUBSET (Sessions \cup {Other})]
         /\ reverting' \subseteq Restored(T)
         /\ server' \in Int
<1> DEFINE Typed == /\ files' \in [Paths -> T]
                    /\ snapshots' \in [Sessions -> Seq(Saved(T))]
                    /\ changedBy' \in [Paths -> SUBSET (Sessions \cup {Other})]
                    /\ reverting' \subseteq Restored(T)
                    /\ server' \in Int
<1>0. /\ files \in [Paths -> T] /\ snapshots \in [Sessions -> Seq(Saved(T))]
      /\ changedBy \in [Paths -> SUBSET (Sessions \cup {Other})] /\ reverting \subseteq Restored(T)
      /\ server \in Int /\ {Missing, <<>>, DraftText} \subseteq T
      /\ \A s \in Sessions : /\ run[s].call.path \in Paths /\ run[s].call.to \in Paths
                             /\ run[s].before \in T /\ run[s].after \in T
  BY DEF TypedWith, RunsWith, Calls
<1>1. KeepsFiles /\ server' = server => Typed
  BY <1>0 DEF KeepsFiles
<1>2. ASSUME NEW path \in Paths, NEW text \in T, NEW by \in Sessions \cup {Other},
             files' = [files EXCEPT ![path] = text], Changed({path}, by),
             UNCHANGED <<snapshots, reverting, server>>
      PROVE  Typed
  BY <1>0, <1>2, MarksAdded
<1>3. ASSUME NEW s \in Sessions, NEW path \in Paths, NEW content \in T,
             Snapshot(s, path, content) \/ UNCHANGED snapshots,
             UNCHANGED <<files, changedBy, reverting, server>>
      PROVE  Typed
  BY <1>0, <1>3, SnapshotAdded
<1> HIDE DEF Typed
<1>4. ASSUME NEW s \in Sessions, ExitPlanMode(s)
      PROVE  Typed
  BY <1>0, <1>2, <1>4, PermissionsAssumption DEF ExitPlanMode, DraftText
<1>5. ASSUME NEW s \in Sessions, CaptureSnapshot(s) \/ SaveMoved(s) \/ SaveFails(s)
      PROVE  Typed
  BY <1>0, <1>3, <1>5 DEF CaptureSnapshot, SaveMoved, SaveFails
<1>6. ASSUME NEW s \in Sessions, ReadBefore(s) \/ ReadReplaced(s) \/ SaveReplaced(s)
      PROVE  Typed
  BY <1>0, <1>3, <1>6 DEF ReadBefore, ReadReplaced, SaveReplaced
<1>7. ASSUME NEW s \in Sessions, WriteBack(s)
      PROVE  Typed
  BY <1>0, <1>2, <1>7 DEF WriteBack
<1>8. ASSUME NEW s \in Sessions, Rename(s)
      PROVE  Typed
  <2>1. /\ files' = [files EXCEPT ![run[s].call.to] = files[run[s].call.path],
                                  ![run[s].call.path] = Missing]
        /\ Changed({run[s].call.path, run[s].call.to}, s) /\ UNCHANGED <<snapshots, reverting, server>>
    BY <1>8 DEF Rename
  <2> QED
    BY <2>1, <1>0, MarksAdded DEF Typed
<1>9. ASSUME NEW s \in Sessions, NEW text \in FileTexts, RunCommand(s, text)
      PROVE  Typed
  BY <1>0, <1>2, <1>9 DEF RunCommand, FileTexts
<1>10. ASSUME NEW path \in Present, NEW text \in FileTexts, Edited(path, text)
       PROVE  Typed
  BY <1>0, <1>2, <1>10, ToolsAssumption DEF Edited, FileTexts
<1>11. ASSUME NEW s \in Sessions, RevertSession(s)
       PROVE  Typed
  <2>1. /\ reverting' = UNION {Baseline(s, RelativePath(snapshots[s][i].name)) : i \in DOMAIN snapshots[s]}
        /\ UNCHANGED <<files, snapshots, changedBy, server>>
    BY <1>11 DEF RevertSession
  <2>2. \A i \in DOMAIN snapshots[s] : Baseline(s, RelativePath(snapshots[s][i].name)) \subseteq Restored(T)
    BY BaselineTypes
  <2>3. reverting' \subseteq Restored(T)
    BY <2>1, <2>2
  <2> QED
    BY <2>1, <2>3, <1>0 DEF Typed
<1>12. ASSUME NEW baseline \in reverting, RevertFile(baseline)
       PROVE  Typed
  <2>1. baseline.content \in T
    BY <1>0 DEF Restored
  <2>2. /\ files' = [p \in Paths |-> IF p = baseline.path THEN baseline.content ELSE files[p]]
        /\ reverting' = reverting \ {baseline}
        /\ Changed({baseline.path}, Other) /\ UNCHANGED <<snapshots, server>>
    BY <1>12 DEF RevertFile
  <2>3. files' \in [Paths -> T] /\ reverting' \subseteq Restored(T)
    BY <1>0, <2>1, <2>2
  <2>4. changedBy' \in [Paths -> SUBSET (Sessions \cup {Other})]
    BY <2>2, MarksAdded
  <2> QED
    BY <2>2, <2>3, <2>4, <1>0 DEF Typed
<1>13. RevertStops => Typed
  BY <1>0 DEF RevertStops, Typed
<1>14. ASSUME NEW s \in Sessions,
              \/ Ends(s) \/ EnterPlanMode(s) \/ ReadAndCompute(s) \/ BeginMove(s)
              \/ (\E mode \in RunModes : StartRun(s, mode))
              \/ (\E call \in Asked : Propose(s, call))
              \/ (\E child \in Sessions : RunSubagent(s, child))
       PROVE  Typed
  <2>1. Ends(s) => KeepsFiles /\ server' = server
    BY DEF Ends, EndRun, ProposeDenied, Reject, RunPreToolUseHooks
  <2> QED
    BY <1>1, <1>14, <2>1 DEF EnterPlanMode, ReadAndCompute, BeginMove, StartRun, Propose, RunSubagent
<1>15. ASSUME NEW s \in Sessions, GoesOn(s)
       PROVE  Typed
  BY <1>0, <1>15, GoesOnRun DEF Typed
<1>16. Crash \/ UNCHANGED vars => Typed
  BY <1>1 DEF Crash, vars, KeepsFiles
<1>17. Typed
  BY <1>4, <1>5, <1>6, <1>7, <1>8, <1>9, <1>10, <1>11, <1>12, <1>13, <1>14, <1>15, <1>16, NextCases
     DEF UserEdits, ServerWrites, FileStep
<1> QED
  BY <1>17 DEF Typed

\* What the calls in progress may write can join the texts.
LEMMA WideTexts ==
  ASSUME WellTyped
  PROVE  \E T : TypedWith(T) /\ Wide(T)
<1>1. PICK T : TypedWith(T)
  BY DEF WellTyped
<1>2. PICK R : R = {Result(run[s].call, files[run[s].call.path]) : s \in Sessions}
  OBVIOUS
<1>3. PICK N : N = {run[s].call.new : s \in Sessions}
  OBVIOUS
<1>4. TypedWith(T \cup R \cup N)
  BY <1>1, MoreTexts
<1>5. Wide(T \cup R \cup N)
  BY <1>2, <1>3 DEF Wide
<1> QED
  BY <1>4, <1>5

\* States stay typed.
LEMMA NextTyped ==
  ASSUME NEW T, TypedWith(T), Wide(T), ModesAgree, [Next]_vars
  PROVE  WellTyped'
<1>1. TypedWith(T)'
  BY RunsTyped, FilesTyped DEF TypedWith
<1> QED
  BY <1>1 DEF WellTyped

-----------------------------------------------------------------------------
(* Modes.                                                                  *)

\* A session whose own step keeps its caller and its tools disturbs nobody.
LEMMA LocalModes ==
  ASSUME NEW T, TypedWith(T), ModesAgree, NEW s \in Sessions, OthersKeep(s),
         run[s].stage # "delegating", run'[s].stage # "new", run'[s].parent = run[s].parent,
         (Active(s) /\ run'[s].tools = run[s].tools) \/ run[s].parent = NoSession,
         CallFits(s)', DelegationJudged(s)'
  PROVE  ModesAgree'
<1>1. \A t \in Sessions : run[t].parent \in Sessions \cup {NoSession}
  BY DEF TypedWith, RunsWith
<1>2. \A t \in Sessions : Active(t) => run[t].parent # s
  BY Constants DEF ModesAgree, Covered
<1>3. ASSUME NEW t \in Sessions \ {s}
      PROVE  /\ CallFits(t)' /\ DelegationJudged(t)'
             /\ run'[t].stage = "new" => run'[t].parent = NoSession
  <2>1. run'[t] = run[t]
    BY DEF OthersKeep
  <2> QED
    BY <2>1 DEF ModesAgree, CallFits, DelegationJudged, PermissionMode
<1>4. ASSUME NEW t \in Sessions
      PROVE  Covered(t)'
  <2>1. CASE ~Active(t)' \/ run'[t].parent = NoSession
    BY <2>1 DEF Covered, Active
  <2>2. CASE Active(t)' /\ run'[t].parent # NoSession
    <3>1. Active(t) /\ run[t].parent = run'[t].parent /\ run'[t].tools = run[t].tools
      BY <2>2 DEF OthersKeep, Active
    <3>2. run'[t].parent \in Sessions \ {s}
      BY <1>1, <1>2, <2>2, <3>1
    <3>3. run'[run'[t].parent] = run[run[t].parent]
      BY <3>1, <3>2 DEF OthersKeep
    <3> QED
      BY <2>2, <3>1, <3>3 DEF ModesAgree, Covered, PermissionMode
  <2> QED
    BY <2>1, <2>2
<1>5. OneChild'
  <2>1. \A t \in Sessions : Active(t)' /\ run'[t].parent # NoSession => Active(t) /\ run'[t].parent = run[t].parent
    BY DEF OthersKeep, Active
  <2> QED
    BY <2>1 DEF ModesAgree, OneChild
<1> QED
  BY <1>3, <1>4, <1>5 DEF ModesAgree

\* The end of a subagent leaves its caller, which waited for nobody else, free.
LEMMA EndedModes ==
  ASSUME NEW T, TypedWith(T), ModesAgree, NEW s \in Sessions, Over(s), Active(s),
         run[s].stage # "delegating"
  PROVE  ModesAgree'
<1>1. \A t \in Sessions : run[t].parent \in Sessions \cup {NoSession}
  BY DEF TypedWith, RunsWith
<1>2. /\ run'[s].stage = "over" /\ run'[s].parent = run[s].parent
      /\ \A t \in Sessions \ {s} :
           IF t = run[s].parent THEN run'[t].stage = "free" /\ SameSession(run'[t], run[t])
           ELSE run'[t] = run[t]
  BY OverRun
<1>3. \A t \in Sessions : Active(t) /\ t # s => run[t].parent # s /\ (run[t].parent # NoSession => run[t].parent # run[s].parent)
  BY Constants DEF ModesAgree, Covered, OneChild
<1>4. ASSUME NEW t \in Sessions
      PROVE  /\ CallFits(t)' /\ DelegationJudged(t)'
             /\ run'[t].stage = "new" => run'[t].parent = NoSession
  <2>1. CASE t = s \/ t = run[s].parent
    <3>1. run'[t].stage \in {"free", "over"}
      BY <1>2, <2>1
    <3> QED
      BY <3>1 DEF CallFits, DelegationJudged, Executing
  <2>2. CASE ~(t = s \/ t = run[s].parent)
    <3>1. run'[t] = run[t]
      BY <1>2, <2>2
    <3> QED
      BY <3>1 DEF ModesAgree, CallFits, DelegationJudged, PermissionMode
  <2> QED
    BY <2>1, <2>2
<1>5. \A t \in Sessions : Active(t)' => /\ t # s /\ run'[t].parent = run[t].parent /\ run'[t].tools = run[t].tools
                                        /\ run[s].parent # NoSession \/ run'[t] = run[t]
                                        /\ Active(t)
  <2>1. run[s].parent \in Sessions => Active(run[s].parent)
    BY <1>1, Constants DEF ModesAgree, Covered, Active
  <2> QED
    BY <1>1, <1>2, <2>1, Constants DEF SameSession, Active
<1>6. ASSUME NEW t \in Sessions
      PROVE  Covered(t)'
  <2>1. CASE ~Active(t)' \/ run'[t].parent = NoSession
    BY <2>1 DEF Covered, Active
  <2>2. CASE Active(t)' /\ run'[t].parent # NoSession
    <3>1. t # s /\ Active(t) /\ run[t].parent = run'[t].parent /\ run'[t].tools = run[t].tools
      BY <1>5, <2>2
    <3>2. run[t].parent \in Sessions \ {s} /\ run[t].parent # run[s].parent
      BY <1>1, <1>3, <2>2, <3>1
    <3>3. run'[run'[t].parent] = run[run[t].parent]
      BY <1>2, <3>1, <3>2
    <3> QED
      BY <2>2, <3>1, <3>3 DEF ModesAgree, Covered, PermissionMode
  <2> QED
    BY <2>1, <2>2
<1>7. OneChild'
  BY <1>5 DEF ModesAgree, OneChild
<1> QED
  BY <1>4, <1>6, <1>7 DEF ModesAgree

\* A subagent with tools that write was asked for by a session that may write.
LEMMA SubagentModes ==
  ASSUME NEW T, TypedWith(T), ModesAgree, NEW s \in Sessions, NEW child \in Sessions,
         RunSubagent(s, child)
  PROVE  ModesAgree'
<1>1. \A t \in Sessions : run[t].parent \in Sessions \cup {NoSession}
  BY DEF TypedWith, RunsWith
<1>2. run[s].stage = "running" /\ run[s].call.tool = "run_subagent" /\ run[child].stage = "new"
  BY DEF RunSubagent
<1>3. run[s].call.kind \in DOMAIN Agents
  BY <1>2 DEF ModesAgree, DelegationJudged
<1>4. /\ child # s
      /\ run'[s].stage = "delegating" /\ SameSession(run'[s], run[s]) /\ run'[s].call = run[s].call
      /\ run'[child].stage = "free" /\ run'[child].parent = s
      /\ run'[child].tools \subseteq Agents[run[s].call.kind].tools
      /\ \A t \in Sessions \ {s, child} : run'[t] = run[t]
  BY <1>3, SubagentRun
<1>5. \A t \in Sessions : Active(t) => run[t].parent # s /\ run[t].parent # child
  BY <1>2, Constants DEF ModesAgree, Covered
<1>6. ASSUME NEW t \in Sessions
      PROVE  /\ CallFits(t)' /\ DelegationJudged(t)'
             /\ run'[t].stage = "new" => run'[t].parent = NoSession
  <2>1. CASE t = s
    BY <1>2, <1>4, <2>1 DEF ModesAgree, CallFits, DelegationJudged, PermissionMode, SameSession, Executing
  <2>2. CASE t = child
    BY <1>4, <2>2 DEF CallFits, DelegationJudged, Executing
  <2>3. CASE t \notin {s, child}
    <3>1. run'[t] = run[t]
      BY <1>4, <2>3
    <3> QED
      BY <3>1 DEF ModesAgree, CallFits, DelegationJudged, PermissionMode
  <2> QED
    BY <2>1, <2>2, <2>3
<1>7. Covered(child)'
  <2>1. PermissionMode(s) \in WriteToolsModes \cup {"plan"}
    BY <1>2 DEF ModesAgree, CallFits, Executing, AvailableInModes
  <2>2. Agents[run[s].call.kind].tools \cap SubagentWriteTools = {} \/ PermissionMode(s) # "plan"
    BY <1>2 DEF ModesAgree, DelegationJudged
  <2>3. PermissionMode(s)' = PermissionMode(s)
    BY <1>4 DEF PermissionMode, SameSession
  <2> QED
    BY <1>4, <2>1, <2>2, <2>3 DEF Covered
<1>8. ASSUME NEW t \in Sessions \ {child}
      PROVE  Covered(t)'
  <2>1. CASE ~Active(t)' \/ run'[t].parent = NoSession
    BY <2>1 DEF Covered, Active
  <2>2. CASE Active(t)' /\ run'[t].parent # NoSession
    <3>1. Active(t) /\ run[t].parent = run'[t].parent /\ run'[t].tools = run[t].tools
      BY <1>2, <1>4, <2>2 DEF SameSession, Active
    <3>2. run[t].parent \in Sessions \ {s, child}
      BY <1>1, <1>5, <2>2, <3>1
    <3>3. run'[run'[t].parent] = run[run[t].parent]
      BY <1>4, <3>1, <3>2
    <3> QED
      BY <2>2, <3>1, <3>3 DEF ModesAgree, Covered, PermissionMode
  <2> QED
    BY <2>1, <2>2
<1>9. OneChild'
  <2>1. \A t \in Sessions \ {child} : Active(t)' => Active(t) /\ run'[t].parent = run[t].parent
    BY <1>2, <1>4 DEF SameSession, Active
  <2>2. \A t \in Sessions \ {child} : Active(t)' => run'[t].parent # s
    BY <2>1, <1>5
  <2> QED
    BY <1>4, <2>1, <2>2 DEF ModesAgree, OneChild
<1> QED
  BY <1>6, <1>7, <1>8, <1>9 DEF ModesAgree

\* The rules give no agent with tools that write to a session that plans.
LEMMA JudgedDelegation ==
  ASSUME NEW T, TypedWith(T), NEW s \in Sessions, NEW call \in Asked, Propose(s, call),
         call.tool = "run_subagent"
  PROVE  /\ call.kind \in DOMAIN Agents
         /\ Agents[call.kind].tools \cap SubagentWriteTools = {} \/ PermissionMode(s) # "plan"
<1>1. Decision(s, call) # "deny"
  BY DEF Propose
<1>2. EngineDecision(call, PermissionMode(s), run[s].planning, Nested(s)) # "deny"
  BY <1>1 DEF Decision, PermissionDecision, Strictest
<1>3. EngineDecision(call, PermissionMode(s), run[s].planning, Nested(s))
        = SubagentDecision(call.kind, PermissionMode(s), run[s].planning, Nested(s))
  BY DEF EngineDecision, EditTools, McpTools
<1>4. SubagentDecision(call.kind, PermissionMode(s), run[s].planning, Nested(s)) # "deny"
  BY <1>2, <1>3
<1> QED
  BY <1>4 DEF SubagentDecision

\* A call that goes on is one that may be carried out.
LEMMA GoesOnModes ==
  ASSUME NEW T, TypedWith(T), ModesAgree, NEW s \in Sessions, GoesOn(s)
  PROVE  /\ CallFits(s)' /\ DelegationJudged(s)'
         /\ Active(s) /\ run[s].stage # "delegating" /\ run'[s].stage # "new"
<1>0. CallFits(s) /\ DelegationJudged(s)
  BY DEF ModesAgree
<1>1. CASE Idle(s)
  <2>1. run'[s].stage = "free"
    BY <1>1, IdleRun
  <2>2. Active(s) /\ run[s].stage # "delegating"
    BY GoesOnRun DEF Execute, Active
  <2> QED
    BY <2>1, <2>2 DEF CallFits, DelegationJudged, Executing
<1>2. ASSUME NEW stage \in Stages, Goes(s, stage),
             \/ <<run[s].stage, stage>> \in {<<"asking", "permitted">>, <<"permitted", "hookAsks">>,
                  <<"free", "planAsks">>, <<"planAsks", "free">>, <<"running", "polling">>}
             \/ /\ run[s].stage \in {"permitted", "hookAsks"} /\ stage = "running"
                /\ run[s].call.tool \in run[s].tools /\ run[s].call.tool # "read_file"
                /\ PermissionMode(s) \in AvailableInModes(run[s].call.tool)
      PROVE  /\ CallFits(s)' /\ DelegationJudged(s)'
             /\ Active(s) /\ run[s].stage # "delegating" /\ run'[s].stage # "new"
  <2>1. run'[s].stage = stage /\ SameSession(run'[s], run[s]) /\ run'[s].call = run[s].call
    BY <1>2, GoesRun
  <2>2. CallFits(s)'
    BY <1>0, <1>2, <2>1 DEF CallFits, PermissionMode, SameSession, Executing
  <2>3. DelegationJudged(s)'
    BY <1>0, <1>2, <2>1 DEF DelegationJudged, PermissionMode, SameSession
  <2> QED
    BY <1>2, <2>1, <2>2, <2>3 DEF Active
<1> QED
  BY <1>1, <1>2, GoesOnRun, ExecuteRun DEF Stages

\* Every step leads to sessions whose modes agree with what they do.
LEMMA NextModes ==
  ASSUME NEW T, TypedWith(T), Wide(T), ModesAgree, [Next]_vars
  PROVE  ModesAgree'
<1>1. CASE UNCHANGED run
  BY <1>1 DEF ModesAgree, CallFits, DelegationJudged, Covered, OneChild, Active, PermissionMode
<1>2. CASE Crash
  <2>1. \A s \in Sessions : run'[s].stage \in {"new", "over"} /\ (run'[s].stage = "new" => run'[s].parent = NoSession)
    BY <1>2, CrashedRuns
  <2> QED
    BY <2>1 DEF ModesAgree, CallFits, DelegationJudged, Covered, OneChild, Active, Executing
<1>3. ASSUME NEW s \in Sessions, Ends(s)
      PROVE  ModesAgree'
  <2>1. Over(s) /\ Active(s) /\ run[s].stage # "delegating"
    BY <1>3 DEF Ends, EndRun, ProposeDenied, Reject, RunPreToolUseHooks, Active
  <2> QED
    BY <2>1, EndedModes
<1>4. ASSUME NEW s \in Sessions, GoesOn(s)
      PROVE  ModesAgree'
  <2>1. OthersKeep(s) /\ run'[s].parent = run[s].parent /\ run'[s].tools = run[s].tools
    BY <1>4, GoesOnTyped DEF SameSession
  <2> QED
    BY <1>4, <2>1, GoesOnModes, LocalModes
<1>5. ASSUME NEW s \in Sessions, NEW mode \in RunModes, StartRun(s, mode)
      PROVE  ModesAgree'
  <2>1. OthersKeep(s) /\ run'[s].parent = NoSession /\ run'[s].stage = "free"
    BY <1>5, StartedRun
  <2>2. run[s].parent = NoSession /\ run[s].stage # "delegating"
    BY <1>5 DEF StartRun, Nested
  <2>3. CallFits(s)' /\ DelegationJudged(s)'
    BY <2>1 DEF CallFits, DelegationJudged, Executing
  <2> QED
    BY <2>1, <2>2, <2>3, LocalModes
<1>6. ASSUME NEW s \in Sessions, NEW call \in Asked, Propose(s, call)
      PROVE  ModesAgree'
  <2>1. /\ run'[s].stage \in {"asking", "permitted"} /\ SameSession(run'[s], run[s])
        /\ run'[s].call = Judged(call) /\ OthersKeep(s)
    BY <1>6, ProposeRun
  <2>2. Active(s) /\ run[s].stage # "delegating"
    BY <1>6 DEF Propose, Active
  <2>3. CallFits(s)'
    BY <2>1 DEF CallFits, Executing
  <2>4. PermissionMode(s)' = PermissionMode(s)
    BY <2>1 DEF PermissionMode, SameSession
  <2>5. DelegationJudged(s)'
    BY <1>6, <2>1, <2>4, CallTypes, JudgedDelegation DEF DelegationJudged
  <2> QED
    BY <2>1, <2>2, <2>3, <2>5, LocalModes DEF SameSession
<1>7. ASSUME NEW s \in Sessions, EnterPlanMode(s) \/ ExitPlanMode(s)
      PROVE  ModesAgree'
  <2>1. /\ run'[s].stage = "free" /\ run'[s].parent = run[s].parent /\ run'[s].tools = run[s].tools
        /\ OthersKeep(s)
    BY <1>7, PlanningRun
  <2>2. Active(s) /\ run[s].stage # "delegating"
    BY <1>7 DEF EnterPlanMode, ExitPlanMode, Active
  <2>3. CallFits(s)' /\ DelegationJudged(s)'
    BY <2>1 DEF CallFits, DelegationJudged, Executing
  <2> QED
    BY <2>1, <2>2, <2>3, LocalModes
<1>8. ASSUME NEW s \in Sessions, NEW child \in Sessions, RunSubagent(s, child)
      PROVE  ModesAgree'
  BY <1>8, SubagentModes
<1>9. ASSUME NEW s \in Sessions,
             \/ SaveFails(s) \/ WriteBack(s) \/ Rename(s) \/ (\E text \in FileTexts : RunCommand(s, text))
      PROVE  ModesAgree'
  <2>1. Idle(s) /\ Active(s) /\ run[s].stage # "delegating"
    BY <1>9 DEF SaveFails, WriteBack, Rename, RunCommand, Active
  <2>2. run'[s].stage = "free" /\ SameSession(run'[s], run[s]) /\ OthersKeep(s)
    BY <2>1, IdleRun
  <2>3. CallFits(s)' /\ DelegationJudged(s)'
    BY <2>2 DEF CallFits, DelegationJudged, Executing
  <2> QED
    BY <2>1, <2>2, <2>3, LocalModes DEF SameSession
<1>10. ASSUME NEW s \in Sessions, FileStep(s)
       PROVE  ModesAgree'
  <2>1. /\ SameSession(run'[s], run[s]) /\ run'[s].call = run[s].call /\ OthersKeep(s)
        /\ \/ /\ run[s].stage = "running" /\ run'[s].stage \in {"computed", "read"}
              /\ run[s].call.tool \in FileTools \ {"move_file"}
           \/ run[s].stage = "computed" /\ run'[s].stage = "read"
           \/ run[s].stage = "running" /\ run'[s].stage = "moving" /\ run[s].call.tool = "move_file"
           \/ run[s].stage = "moving" /\ run'[s].stage \in {"found", "replaced"}
           \/ run[s].stage = "found" /\ run'[s].stage = "replaced"
           \/ run[s].stage \in {"read", "replaced"} /\ run'[s].stage = "saved"
    BY <1>10, FileStepRun DEF Reads, FileTools, EditTools
  <2>2. PermissionMode(s)' = PermissionMode(s)
    BY <2>1 DEF PermissionMode, SameSession
  <2>3. CallFits(s) /\ DelegationJudged(s) /\ "move_file" \in FileTools
    BY DEF ModesAgree, FileTools
  <2>4. CallFits(s)'
    BY <2>1, <2>2, <2>3 DEF CallFits, Executing, SameSession
  <2>5. DelegationJudged(s)'
    BY <2>1, <2>2, <2>3 DEF DelegationJudged
  <2> QED
    BY <2>1, <2>4, <2>5, LocalModes DEF SameSession, Active
<1>11. UNCHANGED vars => UNCHANGED run
  BY DEF vars
<1> QED
  BY <1>1, <1>2, <1>3, <1>4, <1>5, <1>6, <1>7, <1>8, <1>9, <1>10, <1>11, NextCases, OutsideSteps

-----------------------------------------------------------------------------
(* Baselines.                                                              *)

\* The files a call in its last step is about to change.
Targets(s) ==
  IF run[s].call.tool = "move_file" THEN {run[s].call.path, run[s].call.to} ELSE {run[s].call.path}

\* The steps that may add a snapshot.
Saves(s) == CaptureSnapshot(s) \/ SaveFails(s) \/ SaveReplaced(s) \/ SaveMoved(s)

\* A session's snapshots only get more, one at a time, when its own tool saves a file.
LEMMA SnapshotSteps ==
  ASSUME NEW T, TypedWith(T), [Next]_vars, NEW s \in Sessions
  PROVE  \/ snapshots'[s] = snapshots[s]
         \/ Saves(s) /\ \E e : snapshots'[s] = Append(snapshots[s], e)
<1>0. /\ snapshots \in [Sessions -> Seq(Saved(T))] /\ <<>> \in T
      /\ \A a \in Sessions : /\ run[a].call.path \in Paths /\ run[a].call.to \in Paths
                             /\ run[a].before \in T /\ run[a].after \in T
  BY DEF TypedWith, RunsWith, Calls
<1>1. ASSUME NEW a \in Sessions, NEW path \in Paths, NEW content \in T, Snapshot(a, path, content)
      PROVE  \/ snapshots'[s] = snapshots[s]
             \/ a = s /\ \E e : snapshots'[s] = Append(snapshots[s], e)
  <2>1. /\ snapshots'[a] = Append(snapshots[a], Entry(path, content))
        /\ \A t \in Sessions \ {a} : snapshots'[t] = snapshots[t]
    BY <1>1, SnapshotAdded
  <2> QED
    BY <2>1
<1>2. ASSUME NEW a \in Sessions, Saves(a)
      PROVE  \/ snapshots'[s] = snapshots[s]
             \/ a = s /\ \E e : snapshots'[s] = Append(snapshots[s], e)
  BY <1>0, <1>1, <1>2 DEF Saves, CaptureSnapshot, SaveFails, SaveReplaced, SaveMoved
<1>3. ASSUME ~(\E a \in Sessions : Saves(a))
      PROVE  snapshots' = snapshots
  <2>1. ASSUME NEW a \in Sessions, Ends(a) \/ GoesOn(a)
        PROVE  snapshots' = snapshots
    BY <2>1, GoesOnRun DEF Ends, EndRun, ProposeDenied, Reject, RunPreToolUseHooks, KeepsFiles
  <2>2. ASSUME NEW a \in Sessions,
               \/ (\E mode \in RunModes : StartRun(a, mode))
               \/ (\E call \in Asked : Propose(a, call))
               \/ EnterPlanMode(a) \/ ExitPlanMode(a)
               \/ (\E child \in Sessions : RunSubagent(a, child))
               \/ WriteBack(a) \/ Rename(a) \/ RevertSession(a)
               \/ (\E text \in FileTexts : RunCommand(a, text))
        PROVE  snapshots' = snapshots
    BY <2>2 DEF StartRun, Propose, EnterPlanMode, ExitPlanMode, RunSubagent,
                WriteBack, Rename, RunCommand, RevertSession, KeepsFiles
  <2>3. ASSUME NEW a \in Sessions, FileStep(a) \/ SaveFails(a)
        PROVE  snapshots' = snapshots
    BY <1>3, <2>3 DEF FileStep, Saves, ReadAndCompute, ReadBefore, BeginMove, ReadReplaced, KeepsFiles
  <2>4. \/ UNCHANGED vars \/ Crash
        \/ (\E path \in Present, text \in FileTexts : UserEdits(path, text))
        \/ (\E path \in Present, text \in FileTexts : ServerWrites(path, text))
        \/ (\E baseline \in reverting : RevertFile(baseline)) \/ RevertStops
        => snapshots' = snapshots
    BY DEF Crash, UserEdits, ServerWrites, Edited, RevertFile, RevertStops, KeepsFiles, vars
  <2> QED
    BY <2>1, <2>2, <2>3, <2>4, NextCases
<1> QED
  BY <1>2, <1>3

\* A file that could not be saved stays one.
LEMMA UnsavedStays ==
  ASSUME NEW T, TypedWith(T), [Next]_vars
  PROVE  unsaved \subseteq unsaved'
<1>1. ASSUME NEW a \in Sessions, Ends(a) \/ GoesOn(a)
      PROVE  unsaved' = unsaved
  BY <1>1, GoesOnRun DEF Ends, EndRun, ProposeDenied, Reject, RunPreToolUseHooks, KeepsFiles
<1>2. ASSUME NEW a \in Sessions,
             \/ (\E mode \in RunModes : StartRun(a, mode))
             \/ (\E call \in Asked : Propose(a, call))
             \/ EnterPlanMode(a) \/ ExitPlanMode(a)
             \/ (\E child \in Sessions : RunSubagent(a, child))
             \/ WriteBack(a) \/ Rename(a) \/ RevertSession(a)
             \/ (\E text \in FileTexts : RunCommand(a, text))
      PROVE  unsaved' = unsaved
  BY <1>2 DEF StartRun, Propose, EnterPlanMode, ExitPlanMode, RunSubagent,
              WriteBack, Rename, RunCommand, RevertSession, KeepsFiles
<1>3. ASSUME NEW a \in Sessions, FileStep(a) \/ SaveFails(a)
      PROVE  unsaved \subseteq unsaved'
  BY <1>3 DEF FileStep, SaveFails, ReadAndCompute, ReadBefore, CaptureSnapshot, BeginMove, ReadReplaced,
              SaveReplaced, SaveMoved, Loses, KeepsFiles
<1>4. \/ UNCHANGED vars \/ Crash
      \/ (\E path \in Present, text \in FileTexts : UserEdits(path, text))
      \/ (\E path \in Present, text \in FileTexts : ServerWrites(path, text))
      \/ (\E baseline \in reverting : RevertFile(baseline)) \/ RevertStops
      => unsaved' = unsaved
  BY DEF Crash, UserEdits, ServerWrites, Edited, RevertFile, RevertStops, KeepsFiles, vars
<1> QED
  BY <1>1, <1>2, <1>3, <1>4, NextCases

\* A change of a file is marked with the session that made it, or with Other.
LEMMA FileSteps ==
  ASSUME NEW T, TypedWith(T), [Next]_vars, NEW p \in Paths
  PROVE  \/ files'[p] = files[p] /\ changedBy'[p] = changedBy[p]
         \/ Other \in changedBy'[p] /\ changedBy[p] \subseteq changedBy'[p]
         \/ \E a \in Sessions : /\ run[a].stage = "saved" /\ p \in Targets(a)
                                /\ changedBy'[p] = changedBy[p] \cup {a}
<1>0. files \in [Paths -> T]
      /\ \A a \in Sessions : run[a].call.path \in Paths /\ run[a].call.to \in Paths
  BY DEF TypedWith, RunsWith, Calls
<1>1. KeepsFiles => files'[p] = files[p] /\ changedBy'[p] = changedBy[p]
  BY DEF KeepsFiles
<1>2. ASSUME NEW path, NEW text, Changed({path}, Other),
             files' = [files EXCEPT ![path] = text]
               \/ files' = [q \in Paths |-> IF q = path THEN text ELSE files[q]]
      PROVE  \/ files'[p] = files[p] /\ changedBy'[p] = changedBy[p]
             \/ Other \in changedBy'[p] /\ changedBy[p] \subseteq changedBy'[p]
  <2>1. changedBy'[p] = IF p \in {path} THEN changedBy[p] \cup {Other} ELSE changedBy[p]
    BY <1>2, MarksAdded
  <2>2. p # path => files'[p] = files[p]
    BY <1>0, <1>2
  <2> QED
    BY <2>1, <2>2
<1>3. ASSUME NEW a \in Sessions, WriteBack(a)
      PROVE  \/ files'[p] = files[p] /\ changedBy'[p] = changedBy[p]
             \/ run[a].stage = "saved" /\ p \in Targets(a) /\ changedBy'[p] = changedBy[p] \cup {a}
  <2>1. /\ run[a].stage = "saved" /\ run[a].call.tool # "move_file" /\ Changed({run[a].call.path}, a)
        /\ files' = [files EXCEPT ![run[a].call.path] = run[a].after]
    BY <1>3 DEF WriteBack
  <2>2. changedBy'[p] = IF p \in {run[a].call.path} THEN changedBy[p] \cup {a} ELSE changedBy[p]
    BY <2>1, MarksAdded
  <2>3. p # run[a].call.path => files'[p] = files[p]
    BY <1>0, <2>1
  <2> QED
    BY <2>1, <2>2, <2>3 DEF Targets
<1>4. ASSUME NEW a \in Sessions, Rename(a)
      PROVE  \/ files'[p] = files[p] /\ changedBy'[p] = changedBy[p]
             \/ run[a].stage = "saved" /\ p \in Targets(a) /\ changedBy'[p] = changedBy[p] \cup {a}
  <2>1. /\ run[a].stage = "saved" /\ run[a].call.tool = "move_file"
        /\ Changed({run[a].call.path, run[a].call.to}, a)
        /\ files' = [files EXCEPT ![run[a].call.to] = files[run[a].call.path],
                                  ![run[a].call.path] = Missing]
    BY <1>4 DEF Rename
  <2>2. changedBy'[p] = IF p \in {run[a].call.path, run[a].call.to} THEN changedBy[p] \cup {a}
                       ELSE changedBy[p]
    BY <2>1, MarksAdded
  <2>3. p \notin {run[a].call.path, run[a].call.to} => files'[p] = files[p]
    BY <1>0, <2>1
  <2> QED
    BY <2>1, <2>2, <2>3 DEF Targets
<1>5. ASSUME NEW a \in Sessions,
             ExitPlanMode(a) \/ (\E text \in FileTexts : RunCommand(a, text))
      PROVE  \/ files'[p] = files[p] /\ changedBy'[p] = changedBy[p]
             \/ Other \in changedBy'[p] /\ changedBy[p] \subseteq changedBy'[p]
  BY <1>2, <1>5 DEF ExitPlanMode, RunCommand
<1>6. ASSUME \/ (\E path \in Present, text \in FileTexts : UserEdits(path, text) \/ ServerWrites(path, text))
             \/ (\E baseline \in reverting : RevertFile(baseline))
      PROVE  \/ files'[p] = files[p] /\ changedBy'[p] = changedBy[p]
             \/ Other \in changedBy'[p] /\ changedBy[p] \subseteq changedBy'[p]
  BY <1>2, <1>6 DEF UserEdits, ServerWrites, Edited, RevertFile
<1>7. ASSUME NEW a \in Sessions, Ends(a) \/ GoesOn(a)
      PROVE  files'[p] = files[p] /\ changedBy'[p] = changedBy[p]
  BY <1>1, <1>7, GoesOnRun DEF Ends, EndRun, ProposeDenied, Reject, RunPreToolUseHooks
<1>8. ASSUME NEW a \in Sessions,
             \/ (\E mode \in RunModes : StartRun(a, mode))
             \/ (\E call \in Asked : Propose(a, call))
             \/ EnterPlanMode(a) \/ SaveFails(a) \/ RevertSession(a)
             \/ (\E child \in Sessions : RunSubagent(a, child))
      PROVE  files'[p] = files[p] /\ changedBy'[p] = changedBy[p]
  BY <1>1, <1>8 DEF StartRun, Propose, EnterPlanMode, RunSubagent, SaveFails, RevertSession
<1>9. ASSUME NEW a \in Sessions, FileStep(a)
      PROVE  files'[p] = files[p] /\ changedBy'[p] = changedBy[p]
  BY <1>1, <1>9 DEF FileStep, ReadAndCompute, ReadBefore, CaptureSnapshot, BeginMove, ReadReplaced,
                    SaveReplaced, SaveMoved
<1>10. UNCHANGED vars \/ Crash \/ RevertStops => files'[p] = files[p] /\ changedBy'[p] = changedBy[p]
  BY <1>1 DEF Crash, RevertStops, vars
<1> QED
  BY <1>3, <1>4, <1>5, <1>6, <1>7, <1>8, <1>9, <1>10, NextCases

\* The oldest snapshot of a file stays the oldest.
LEMMA KeptStays ==
  ASSUME NEW T, TypedWith(T), NEW s \in Sessions, NEW p \in Paths, Kept(s, p),
         snapshots'[s] = snapshots[s] \/ \E e : snapshots'[s] = Append(snapshots[s], e)
  PROVE  Kept(s, p)'
<1>1. snapshots[s] \in Seq(Saved(T))
  BY DEF TypedWith
<1>2. PICK i \in DOMAIN snapshots[s] : IsFirst(s, p, i) /\ snapshots[s][i].content = Original
  BY DEF Kept
<1>3. /\ i \in DOMAIN snapshots'[s] /\ snapshots'[s][i] = snapshots[s][i]
      /\ \A j \in 1 .. i - 1 : snapshots'[s][j] = snapshots[s][j]
  <2>1. CASE snapshots'[s] = snapshots[s]
    BY <1>1, <2>1
  <2>2. CASE \E e : snapshots'[s] = Append(snapshots[s], e)
    BY <1>1, <2>2
  <2> QED
    BY <2>1, <2>2
<1>4. /\ snapshots[s][i].path = p /\ snapshots[s][i].content = Original
      /\ \A j \in 1 .. i - 1 : snapshots[s][j].path # p
  BY <1>2 DEF IsFirst
<1>5. IsFirst(s, p, i)'
  BY <1>3, <1>4 DEF IsFirst
<1> QED
  BY <1>3, <1>4, <1>5 DEF Kept

\* The first snapshot of a file is its oldest.
LEMMA NewlyKept ==
  ASSUME NEW T, TypedWith(T), NEW s \in Sessions, NEW p \in Paths,
         \A i \in DOMAIN snapshots[s] : snapshots[s][i].path # p,
         NEW e, e.path = p, e.content = Original, snapshots'[s] = Append(snapshots[s], e)
  PROVE  Kept(s, p)'
<1>1. snapshots[s] \in Seq(Saved(T))
  BY DEF TypedWith
<1>2. PICK i \in Nat : i = Len(snapshots[s]) + 1
  BY <1>1
<1>3. /\ i \in DOMAIN snapshots'[s] /\ snapshots'[s][i] = e
      /\ \A j \in 1 .. i - 1 : j \in DOMAIN snapshots[s] /\ snapshots'[s][j] = snapshots[s][j]
  BY <1>1, <1>2
<1>4. IsFirst(s, p, i)'
  BY <1>3 DEF IsFirst
<1> QED
  BY <1>3, <1>4 DEF Kept

\* A snapshot of another file leaves a file without one.
LEMMA StillUnsaved ==
  ASSUME NEW T, TypedWith(T), NEW s \in Sessions, NEW p \in Paths,
         \A i \in DOMAIN snapshots[s] : snapshots[s][i].path # p,
         NEW e, e.path # p, snapshots'[s] \in {snapshots[s], Append(snapshots[s], e)}
  PROVE  \A i \in DOMAIN snapshots'[s] : snapshots'[s][i].path # p
<1>1. snapshots[s] \in Seq(Saved(T))
  BY DEF TypedWith
<1> QED
  BY <1>1

\* A session gets to the point where it has read a file or saved one by a few steps only.
LEMMA RunSteps ==
  ASSUME NEW T, TypedWith(T), Wide(T), ModesAgree, [Next]_vars, NEW s \in Sessions
  PROVE  \/ run'[s] = run[s] \/ run'[s].stage \notin {"read", "moving", "found", "replaced", "saved"}
         \/ FileStep(s)
<1> DEFINE Away == \/ run'[s] = run[s]
                   \/ run'[s].stage \notin {"read", "moving", "found", "replaced", "saved"}
<1>1. ASSUME NEW a \in Sessions, Ends(a)
      PROVE  Away
  <2>1. Over(a)
    BY <1>1 DEF Ends, EndRun, ProposeDenied, Reject, RunPreToolUseHooks
  <2> QED
    BY <2>1, OverRun
<1>2. ASSUME NEW a \in Sessions, GoesOn(a)
      PROVE  Away
  <2>1. CASE a # s
    BY <1>2, <2>1, GoesOnTyped DEF OthersKeep
  <2>2. CASE Idle(s)
    BY <2>2, IdleRun
  <2>3. ASSUME NEW stage \in {"permitted", "hookAsks", "running", "planAsks", "free", "polling"},
               Goes(s, stage)
        PROVE  Away
    BY <2>3, GoesRun DEF Stages
  <2>4. Execute(s) => Goes(s, "running") \/ Idle(s)
    BY ExecuteRun
  <2> QED
    BY <1>2, <2>1, <2>2, <2>3, <2>4, GoesOnRun
<1>3. ASSUME NEW a \in Sessions,
             \/ (\E mode \in RunModes : StartRun(a, mode))
             \/ (\E call \in Asked : Propose(a, call))
             \/ EnterPlanMode(a) \/ ExitPlanMode(a)
      PROVE  Away
  BY <1>3, StartedRun, ProposeRun, PlanningRun DEF OthersKeep
<1>4. ASSUME NEW a \in Sessions, NEW child \in Sessions, RunSubagent(a, child)
      PROVE  Away
  <2>1. run[a].call.kind \in DOMAIN Agents
    BY <1>4 DEF ModesAgree, DelegationJudged, RunSubagent
  <2> QED
    BY <1>4, <2>1, SubagentRun
<1>5. ASSUME NEW a \in Sessions,
             \/ SaveFails(a) \/ WriteBack(a) \/ Rename(a) \/ (\E text \in FileTexts : RunCommand(a, text))
      PROVE  Away
  <2>1. Idle(a)
    BY <1>5 DEF SaveFails, WriteBack, Rename, RunCommand
  <2> QED
    BY <2>1, IdleRun DEF OthersKeep
<1>6. ASSUME NEW a \in Sessions \ {s}, FileStep(a)
      PROVE  Away
  <2>1. OthersKeep(a)
    BY <1>6, FileStepRun DEF Reads
  <2> QED
    BY <2>1 DEF OthersKeep
<1>7. Crash => Away
  BY CrashedRuns
<1>8. UNCHANGED vars => Away
  BY DEF vars
<1>9. UNCHANGED run => Away
  OBVIOUS
<1> HIDE DEF Away
<1>10. Away \/ FileStep(s)
  BY <1>1, <1>2, <1>3, <1>4, <1>5, <1>6, <1>7, <1>8, <1>9, NextCases, OutsideSteps
<1> QED
  BY <1>10 DEF Away

\* A file of the session that it goes on with was read and saved.
LEMMA SavingSteps ==
  ASSUME NEW T, TypedWith(T), NEW s \in Sessions
  PROVE  /\ CaptureSnapshot(s) \/ SaveMoved(s) =>
              snapshots'[s] = Append(snapshots[s], Entry(run[s].call.path, run[s].before))
         /\ SaveFails(s) => /\ Loses(s, run[s].call.path) /\ run'[s].stage = "free"
                            /\ snapshots'[s] = Append(snapshots[s], Entry(run[s].call.path, <<>>))
         /\ SaveReplaced(s) =>
              \/ snapshots'[s] = Append(snapshots[s], Entry(run[s].call.to, run[s].after))
              \/ /\ Loses(s, run[s].call.to)
                 /\ snapshots'[s] \in {snapshots[s], Append(snapshots[s], Entry(run[s].call.to, <<>>))}
<1>1. /\ run[s].call.path \in Paths /\ run[s].call.to \in Paths
      /\ run[s].before \in T /\ run[s].after \in T /\ <<>> \in T
  BY DEF TypedWith, RunsWith, Calls
<1>2. ASSUME NEW path \in Paths, NEW content \in T, Snapshot(s, path, content)
      PROVE  snapshots'[s] = Append(snapshots[s], Entry(path, content))
  BY <1>2, SnapshotAdded
<1>3. CaptureSnapshot(s) \/ SaveMoved(s) => Snapshot(s, run[s].call.path, run[s].before)
  BY DEF CaptureSnapshot, SaveMoved
<1>4. SaveFails(s) => Loses(s, run[s].call.path) /\ Idle(s) /\ Snapshot(s, run[s].call.path, <<>>)
  BY DEF SaveFails
<1>5. SaveReplaced(s) => \/ Snapshot(s, run[s].call.to, run[s].after)
                         \/ /\ Loses(s, run[s].call.to)
                            /\ Snapshot(s, run[s].call.to, <<>>) \/ snapshots' = snapshots
  BY DEF SaveReplaced
<1> QED
  BY <1>1, <1>2, <1>3, <1>4, <1>5, IdleRun

\* A file that only this session may have changed after a step was saved by it in
\* time, or is still as it was.
LEMMA UntouchedStep ==
  ASSUME NEW T, TypedWith(T), Wide(T), ModesAgree, [Next]_vars, NEW s \in Sessions, NEW p \in Present,
         Untouched(s, p), changedBy'[p] \subseteq {s}, <<s, p>> \notin unsaved'
  PROVE  Kept(s, p)' \/ Untouched(s, p)'
<1> DEFINE path == run[s].call.path
           to == run[s].call.to
<1>0. /\ p \in Paths /\ Original # Missing /\ Text(Original) = Original
      /\ \A i \in DOMAIN snapshots[s] : snapshots[s][i].path # p
      /\ changedBy[p] = {} /\ files[p] = Original
  BY ToolsAssumption, Constants DEF Untouched
<1>1. files'[p] = Original /\ changedBy'[p] = {}
  <2>1. run[s].stage = "saved" => p \notin Targets(s)
    BY DEF Untouched, Targets
  <2> QED
    BY <1>0, <2>1, FileSteps, Constants
<1>2. /\ run[s].stage \in {"read", "moving", "found", "replaced"} /\ path = p => run[s].before = Original
      /\ run[s].stage = "found" /\ to = p => run[s].after = Original
      /\ run[s].stage = "replaced" => to # p
      /\ run[s].stage = "saved" => path # p
      /\ run[s].stage = "saved" /\ run[s].call.tool = "move_file" => to # p
  BY DEF Untouched
<1>3. run[s].stage = "read" => run[s].call.tool # "move_file"
  BY DEF ModesAgree, CallFits
<1>4. Loses(s, path) => path # p
  BY DEF Loses
<1>5. Loses(s, to) => to # p
  BY DEF Loses
<1>6. /\ path \in Paths /\ to \in Paths /\ run[s].before \in T /\ run[s].after \in T /\ <<>> \in T
  BY DEF TypedWith, RunsWith, Calls
<1>7. CASE CaptureSnapshot(s) \/ SaveMoved(s)
  <2>1. PICK e : e = Entry(path, run[s].before)
    OBVIOUS
  <2>2. e.path = path /\ e.content = Text(run[s].before)
    BY <1>6, <2>1, EntryTypes
  <2>3. snapshots'[s] = Append(snapshots[s], e)
    BY <1>7, <2>1, SavingSteps
  <2>4. /\ run'[s].stage = "saved" /\ run'[s].call = run[s].call
        /\ run[s].stage = "read" \/ run[s].stage = "replaced"
    BY <1>7, GoesRun DEF CaptureSnapshot, SaveMoved, Stages
  <2>5. CASE path = p
    BY <1>0, <1>2, <2>2, <2>3, <2>4, <2>5, NewlyKept
  <2>6. CASE path # p
    <3>1. \A i \in DOMAIN snapshots'[s] : snapshots'[s][i].path # p
      BY <1>0, <2>2, <2>3, <2>6, StillUnsaved
    <3> QED
      BY <1>1, <1>2, <1>3, <2>4, <2>6, <3>1 DEF Untouched
  <2> QED
    BY <2>5, <2>6
<1>8. CASE SaveFails(s)
  <2>1. PICK e : e = Entry(path, <<>>)
    OBVIOUS
  <2>2. e.path = path
    BY <1>6, <2>1, EntryTypes
  <2>3. path # p /\ run'[s].stage = "free" /\ snapshots'[s] = Append(snapshots[s], e)
    BY <1>4, <1>8, <2>1, SavingSteps
  <2>4. \A i \in DOMAIN snapshots'[s] : snapshots'[s][i].path # p
    BY <1>0, <2>2, <2>3, StillUnsaved
  <2> QED
    BY <1>1, <2>3, <2>4 DEF Untouched
<1>9. CASE SaveReplaced(s)
  <2>1. /\ run[s].stage = "found" /\ run'[s].stage = "replaced" /\ run'[s].call = run[s].call
        /\ run'[s].before = run[s].before
    BY <1>9, GoesRun DEF SaveReplaced, Stages
  <2>2. PICK content \in {run[s].after, <<>>} :
          /\ snapshots'[s] \in {snapshots[s], Append(snapshots[s], Entry(to, content))}
          /\ \/ Loses(s, to)
             \/ content = run[s].after /\ snapshots'[s] = Append(snapshots[s], Entry(to, content))
    BY <1>9, SavingSteps
  <2>3. PICK e : e = Entry(to, content)
    OBVIOUS
  <2>4. e.path = to /\ e.content = Text(content)
    BY <1>6, <2>3, EntryTypes
  <2>5. CASE to = p
    BY <1>0, <1>2, <1>5, <2>1, <2>2, <2>3, <2>4, <2>5, NewlyKept
  <2>6. CASE to # p
    <3>1. \A i \in DOMAIN snapshots'[s] : snapshots'[s][i].path # p
      BY <1>0, <2>2, <2>3, <2>4, <2>6, StillUnsaved
    <3> QED
      BY <1>1, <1>2, <2>1, <2>6, <3>1 DEF Untouched
  <2> QED
    BY <2>5, <2>6
<1>10. CASE ~Saves(s)
  <2>1. snapshots'[s] = snapshots[s]
    BY <1>10, SnapshotSteps
  <2>2. CASE run'[s] = run[s] \/ run'[s].stage \notin {"read", "moving", "found", "replaced", "saved"}
    BY <1>0, <1>1, <1>2, <2>1, <2>2 DEF Untouched
  <2>3. CASE FileStep(s)
    <3>1. run'[s].call = run[s].call
      BY <2>3, FileStepRun DEF Reads
    <3>2. \/ run'[s].stage \in {"computed", "read", "moving"}
             /\ (path = p => run'[s].before \in {files[path], Text(files[path])})
          \/ run'[s].stage = "found" /\ run'[s].before = run[s].before /\ run[s].stage = "moving"
             /\ run'[s].after = files[to]
          \/ run'[s].stage = "replaced" /\ run'[s].before = run[s].before /\ run[s].stage = "moving"
             /\ to # p
      BY <1>0, <1>4, <1>5, <1>10, <2>3, FileStepRun DEF Reads, Saves
    <3> QED
      BY <1>0, <1>1, <1>2, <2>1, <3>1, <3>2 DEF Untouched
  <2> QED
    BY <2>2, <2>3, RunSteps
<1> QED
  BY <1>7, <1>8, <1>9, <1>10 DEF Saves

\* Every step leaves the files one session has changed with a snapshot of what they were.
LEMMA NextBaselines ==
  ASSUME NEW T, TypedWith(T), Wide(T), ModesAgree, BaselinesSafe, [Next]_vars
  PROVE  BaselinesSafe'
<1> SUFFICES ASSUME NEW s \in Sessions, NEW p \in Present, changedBy'[p] \subseteq {s},
                    <<s, p>> \notin unsaved'
             PROVE  Kept(s, p)' \/ Untouched(s, p)'
  BY DEF BaselinesSafe
<1>0. p \in Paths
  BY ToolsAssumption
<1>1. changedBy[p] \subseteq {s} /\ <<s, p>> \notin unsaved
  BY <1>0, FileSteps, UnsavedStays
<1>2. CASE Untouched(s, p)
  BY <1>2, UntouchedStep
<1>3. CASE Kept(s, p)
  <2>1. snapshots'[s] = snapshots[s] \/ \E e : snapshots'[s] = Append(snapshots[s], e)
    BY SnapshotSteps
  <2>2. Kept(s, p)'
    BY <1>0, <1>3, <2>1, KeptStays
  <2> QED
    BY <2>2
<1> QED
  BY <1>1, <1>2, <1>3 DEF BaselinesSafe

-----------------------------------------------------------------------------
(* The invariant and what follows from it.                                 *)

\* The invariant holds at first.
LEMMA InitIInv ==
  ASSUME Init
  PROVE  IInv
<1>1. PICK T : T = {Missing, <<>>, Original, DraftText}
  OBVIOUS
<1>2. run \in [Sessions -> RunsWith(T)]
  <2>1. NewRun \in RunsWith(T)
    BY <1>1, Constants DEF NewRun, RunsWith, Stages, AgentModes
  <2> QED
    BY <2>1 DEF Init
<1>3. files \in [Paths -> T] /\ changedBy \in [Paths -> SUBSET (Sessions \cup {Other})]
      /\ reverting \subseteq Restored(T) /\ server \in Int
  BY <1>1 DEF Init
<1>4. snapshots \in [Sessions -> Seq(Saved(T))]
  BY DEF Init
<1>5. TypedWith(T)
  BY <1>1, <1>2, <1>3, <1>4 DEF TypedWith
<1>6. \A s \in Sessions : run[s].stage = "new" /\ run[s].parent = NoSession
  BY DEF Init, NewRun
<1>7. ModesAgree
  BY <1>6 DEF ModesAgree, CallFits, DelegationJudged, Covered, OneChild, Active, Executing
<1>8. \A s \in Sessions, p \in Present : Untouched(s, p)
  BY <1>6, ToolsAssumption DEF Init, Untouched
<1> QED
  BY <1>5, <1>7, <1>8 DEF IInv, WellTyped, BaselinesSafe

\* Every step keeps the invariant.
LEMMA NextIInv ==
  ASSUME IInv, [Next]_vars
  PROVE  IInv'
<1>1. PICK T : TypedWith(T) /\ Wide(T)
  BY WideTexts DEF IInv
<1> QED
  BY <1>1, NextTyped, NextModes, NextBaselines DEF IInv

\* At any time files, snapshots and calls are in order: a call is carried out in a mode
\* its tool is for, a subagent with tools that write works for a session that may, and a
\* file that one session alone has changed was saved by it first, or could not be.
THEOREM Invariance == Spec => []IInv
BY InitIInv, NextIInv, PTL DEF Spec

\* The oldest snapshot of a file is what `session revert` restores, if none of another
\* file is taken for one of it.
LEMMA KeptBaseline ==
  ASSUME NEW T, TypedWith(T), NEW s \in Sessions, NEW p \in Paths, Kept(s, p), ReadsBack(s, p)
  PROVE  Baseline(s, p) = {[path |-> p, content |-> Original]}
<1>1. snapshots[s] \in Seq(Saved(T))
  BY DEF TypedWith
<1>2. PICK i \in DOMAIN snapshots[s] : IsFirst(s, p, i) /\ snapshots[s][i].content = Original
  BY DEF Kept
<1>3. snapshots[s][i].path = p /\ \A j \in 1 .. i - 1 : snapshots[s][j].path # p
  BY <1>2 DEF IsFirst
<1>4. \A k \in DOMAIN snapshots[s] : snapshots[s][k].name = SafeName(snapshots[s][k].path)
  BY <1>1 DEF Saved
<1>5. \A k \in DOMAIN snapshots[s] : RelativePath(snapshots[s][k].name) = p <=> snapshots[s][k].path = p
  <2> HIDE DEF SafeName, RelativePath
  <2> QED
    BY <1>4 DEF ReadsBack
<1>6. DOMAIN snapshots[s] = 1 .. Len(snapshots[s]) /\ Len(snapshots[s]) \in Nat
  BY <1>1
<1>7. {k \in DOMAIN snapshots[s] :
         /\ RelativePath(snapshots[s][k].name) = p
         /\ \A j \in 1 .. k - 1 : RelativePath(snapshots[s][j].name) # p} = {i}
  <2> HIDE DEF RelativePath
  <2>1. \A k \in DOMAIN snapshots[s] : \A j \in 1 .. k - 1 : j \in DOMAIN snapshots[s]
    BY <1>6
  <2>2. \A k \in DOMAIN snapshots[s] : k = i \/ k \in 1 .. i - 1 \/ i \in 1 .. k - 1
    BY <1>6
  <2> QED
    BY <1>3, <1>5, <2>1, <2>2
<1> HIDE DEF RelativePath
<1> QED
  BY <1>2, <1>7 DEF Baseline

\* A file that the tools of one session alone have changed gets its original text back
\* from `session revert` of that session, if reading and saving it never failed and the
\* name of its snapshots tells it from the other files of the session.
THEOREM BaselinesKept == Spec => []BaselinesAreKept
<1>1. IInv => BaselinesAreKept
  <2> SUFFICES ASSUME IInv, NEW s \in Sessions, NEW p \in Present, changedBy[p] = {s},
                      <<s, p>> \notin unsaved, ReadsBack(s, p)
               PROVE  Baseline(s, p) = {[path |-> p, content |-> Original]}
    BY DEF BaselinesAreKept
  <2>1. PICK T : TypedWith(T)
    BY DEF IInv, WellTyped
  <2>2. Kept(s, p)
    BY DEF IInv, BaselinesSafe, Untouched
  <2> QED
    BY <2>1, <2>2, KeptBaseline, ToolsAssumption
<1> QED
  BY <1>1, Invariance, PTL

\* A tool that changes a file belongs to a session in a mode for it, and so does
\* the session the subagent works for.
LEMMA ReadOnlyStep ==
  ASSUME IInv, [Next]_vars, NEW s \in Sessions, run'[s] # run[s],
         NEW p \in Paths \ {Draft}, files'[p] # files[p]
  PROVE  \A t \in {s, run[s].parent} \ {NoSession} : PermissionMode(t) \in WriteToolsModes
<1>1. PICK T : TypedWith(T)
  BY DEF IInv, WellTyped
<1>2. PICK a \in Sessions : WriteBack(a) \/ Rename(a) \/ \E text \in FileTexts : RunCommand(a, text)
  <2>1. ~UNCHANGED run /\ ~UNCHANGED files
    OBVIOUS
  <2>2. ASSUME NEW a \in Sessions, Ends(a) \/ GoesOn(a)
        PROVE  UNCHANGED files
    BY <2>2, GoesOnRun DEF Ends, EndRun, ProposeDenied, Reject, RunPreToolUseHooks, KeepsFiles
  <2>3. ASSUME NEW a \in Sessions,
               \/ (\E mode \in RunModes : StartRun(a, mode))
               \/ (\E call \in Asked : Propose(a, call))
               \/ EnterPlanMode(a)
               \/ (\E child \in Sessions : RunSubagent(a, child))
               \/ FileStep(a) \/ SaveFails(a)
        PROVE  UNCHANGED files
    BY <2>3 DEF StartRun, Propose, EnterPlanMode, RunSubagent, FileStep, SaveFails, ReadAndCompute,
                ReadBefore, CaptureSnapshot, BeginMove, ReadReplaced, SaveReplaced, SaveMoved, KeepsFiles
  <2>4. UNCHANGED vars \/ Crash => UNCHANGED files
    BY DEF vars, Crash, KeepsFiles
  <2>5. \A a \in Sessions : ~ExitPlanMode(a)
    BY <1>1 DEF ExitPlanMode, TypedWith
  <2> QED
    BY <2>1, <2>2, <2>3, <2>4, <2>5, NextCases, OutsideSteps
<1>3. a = s
  BY <1>1, <1>2, IdleRun DEF WriteBack, Rename, RunCommand, OthersKeep
<1>4. run[s].stage \in {"running", "saved"} /\ run[s].call.tool \in FileTools \cup CommandTools
  BY <1>2, <1>3 DEF WriteBack, Rename, RunCommand, IInv, ModesAgree, CallFits
<1>5. PermissionMode(s) \in WriteToolsModes
  BY <1>4 DEF IInv, ModesAgree, CallFits, Executing, AvailableInModes, FileTools, EditTools, CommandTools
<1>6. run[s].call.tool \in run[s].tools \cap SubagentWriteTools
  BY <1>4 DEF IInv, ModesAgree, CallFits, Executing, SubagentWriteTools
<1>7. run[s].parent # NoSession => PermissionMode(run[s].parent) \in WriteToolsModes
  BY <1>4, <1>6 DEF IInv, ModesAgree, Covered, Active
<1> QED
  BY <1>5, <1>7

\* A request to an MCP server is made in a mode that may write.
LEMMA RequestStep ==
  ASSUME IInv, [Next]_vars, NEW s \in Sessions, run'[s] # run[s], server' > server
  PROVE  PermissionMode(s) \in WriteToolsModes
<1>1. PICK T : TypedWith(T) /\ server \in Int
  BY DEF IInv, WellTyped, TypedWith
<1>2. PICK a \in Sessions : SendRequest(a)
  <2>1. server' # server /\ server' # server - 1
    BY <1>1
  <2>2. ASSUME NEW a \in Sessions, Ends(a)
        PROVE  server' = server
    BY <2>2 DEF Ends, EndRun, ProposeDenied, Reject, RunPreToolUseHooks
  <2>3. ASSUME NEW a \in Sessions, GoesOn(a), ~SendRequest(a)
        PROVE  server' \in {server - 1, server}
    BY <2>3, GoesOnRun
  <2>4. ASSUME NEW a \in Sessions,
               \/ (\E mode \in RunModes : StartRun(a, mode))
               \/ (\E call \in Asked : Propose(a, call))
               \/ EnterPlanMode(a) \/ ExitPlanMode(a)
               \/ (\E child \in Sessions : RunSubagent(a, child))
               \/ FileStep(a) \/ SaveFails(a) \/ WriteBack(a) \/ Rename(a) \/ RevertSession(a)
               \/ (\E text \in FileTexts : RunCommand(a, text))
        PROVE  server' = server
    BY <2>4 DEF StartRun, Propose, EnterPlanMode, ExitPlanMode, RunSubagent, FileStep, SaveFails,
                ReadAndCompute, ReadBefore, CaptureSnapshot, BeginMove, ReadReplaced, SaveReplaced,
                SaveMoved, WriteBack, Rename, RevertSession, RunCommand
  <2>5. \/ UNCHANGED vars \/ Crash
        \/ (\E path \in Present, text \in FileTexts : UserEdits(path, text))
        \/ (\E path \in Present, text \in FileTexts : ServerWrites(path, text))
        \/ (\E baseline \in reverting : RevertFile(baseline)) \/ RevertStops
        => server' = server
    BY DEF Crash, UserEdits, ServerWrites, Edited, RevertFile, RevertStops, vars
  <2> QED
    BY <2>1, <2>2, <2>3, <2>4, <2>5, NextCases
<1>3. Goes(a, "polling") /\ run[a].stage = "running" /\ run[a].call.tool \in McpTools
  BY <1>2 DEF SendRequest
<1>4. a = s
  BY <1>1, <1>3, GoesRun DEF Stages, OthersKeep
<1> QED
  BY <1>3, <1>4 DEF IInv, ModesAgree, CallFits, Executing, AvailableInModes, McpTools

\* No tool of a session that reads or plans, or of a subagent of one, changes a file of
\* the workspace, and no session that reads or plans asks an MCP server.
THEOREM ReadOnlyModesKept == Spec => ReadOnlyModesKeepFiles
<1>1. IInv /\ [Next]_vars =>
        [\A s \in Sessions : run'[s] # run[s] =>
           /\ (\E p \in Paths \ {Draft} : files'[p] # files[p])
                => \A t \in {s, run[s].parent} \ {NoSession} : PermissionMode(t) \in WriteToolsModes
           /\ server' > server => PermissionMode(s) \in WriteToolsModes]_vars
  BY ReadOnlyStep, RequestStep
<1> QED
  BY <1>1, Invariance, PTL DEF Spec, ReadOnlyModesKeepFiles
=============================================================================
