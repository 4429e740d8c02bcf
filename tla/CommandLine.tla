---------------------------- MODULE CommandLine ----------------------------
(***************************************************************************)
(* The commands of the CLI (src/apps/cli/src/cli and commands): how a      *)
(* line is rewritten and parsed, which session and which mode a run of it  *)
(* gets, and what the commands do to the sessions on disk.  Users type     *)
(* lines in several shells of one workspace, and a command's steps between *)
(* two awaits interleave with those of the others.  What happens inside a  *)
(* run is AgentLoop's; here a run creates its session's manifest, or       *)
(* updates it when it begins, and updates it when it ends.                 *)
(*                                                                         *)
(* A line has its words (a task is a word, a session named by position is  *)
(* the word "id"), the modes given with --mode, the other options, the     *)
(* session named, how many words come before its first option (all of them *)
(* when it has none), and whether it is typed at a terminal.               *)
(***************************************************************************)
EXTENDS Naturals, FiniteSets, SequencesExt

CONSTANTS
  Shells,        \* the terminals of the user
  Words,         \* what is typed in a line: commands, modes, names, tasks
  Lines,         \* the lines the user may type
  Existing,      \* the manifests of the sessions on disk at first
  SlashCommands, \* a function from the workspace's slash commands to their mode, or "none",
                 \* and the allowedModes of the skill they bring with them
  SkillModes,    \* the allowedModes of the skill that --skill and "skill run" name
  MaxLines,      \* bound: how many lines are typed
  MaxSessions,   \* bound: how many sessions are created
  MaxWrites      \* bound: how many manifests are written

AgentModes == {"ask", "plan", "edit", "agent"}
Sessions == 1..MaxSessions   \* ids, in the order they are created
NoSession == 0

LineTypes == [before : Nat, words : Seq(Words), modes : Seq(Words),
              options : SUBSET STRING, named : Sessions \cup {NoSession}, tty : BOOLEAN]
Manifests == [id : Sessions, role : {"standard", "plan", "execute"},
              mode : AgentModes \cup {"several"}, link : Sessions \cup {NoSession},
              updatedAt : 0..MaxWrites]

-----------------------------------------------------------------------------
(* Rewriting a line: normalizeArgv                                         *)

TopLevelCommands ==
  {"run", "session", "sessions", "export", "import", "models", "providers", "auth", "config",
   "verify", "review", "capabilities", "mcp", "hooks", "skills", "skill", "agents", "agent",
   "plugin", "plug", "web", "serve", "ci", "debug", "mock", "interactive", "help", "version"}

Aliases ==
  [sessions |-> <<"session">>, serve |-> <<"web", "start">>, auth |-> <<"providers">>,
   plug |-> <<"plugin">>]

\* The sessions on disk at first are whole: each manifest names its own directory.
ASSUME CommandLineAssumption ==
  /\ {MaxLines, MaxSessions, MaxWrites} \subseteq Nat
  /\ TopLevelCommands \cup AgentModes \cup {"start"} \subseteq Words
  /\ Lines \subseteq LineTypes
  /\ Existing \in Seq(Manifests) /\ Len(Existing) <= MaxSessions /\ Len(Existing) <= MaxWrites
  /\ \A d \in DOMAIN Existing : Existing[d].id = d /\ Existing[d].updatedAt > 0
  /\ \A name \in DOMAIN SlashCommands :
       SlashCommands[name] \in [mode : AgentModes \cup {"none"}, skill : Seq(AgentModes)]
  /\ SkillModes \in Seq(AgentModes)

RunInMode(line, words, mode) ==
  [line EXCEPT !.words = <<"run">> \o words, !.modes = Append(@, mode)]

\* An option after the word "agent" leaves the line as it is, and the parser refuses it.
NormalizeArgv(line) ==
  IF line.before = 0 \/ line.words = <<>> THEN line
  ELSE LET first == Head(line.words)
           rest == Tail(line.words) IN
    CASE first \in DOMAIN Aliases -> [line EXCEPT !.words = Aliases[first] \o rest]
      [] first = "agent" ->
           IF rest = <<>> \/ line.before = 1 \/ rest[1] \in {"create", "list"} THEN line
           ELSE IF rest[1] \in AgentModes THEN RunInMode(line, Tail(rest), rest[1])
           ELSE RunInMode(line, rest, "agent")
      [] first \in AgentModes \ {"agent"} -> RunInMode(line, rest, first)
      [] first \notin TopLevelCommands \cup AgentModes ->
           [line EXCEPT !.words = <<"run">> \o @]
      [] OTHER -> line

-----------------------------------------------------------------------------
(* The tree of commands: the words that name one, how many more it takes,  *)
(* and its options.  yargs is strict: it refuses every other line.         *)

RunOptions == {"mode", "continue", "session", "fork", "auto", "plan", "skill", "file", "tui"}

Command(path, least, most, options) ==
  [path |-> path, takes |-> least..most, options |-> options]
Plain(path, takes) == Command(path, takes, takes, {})

TaskCommands ==
  {Command(<<>>, 0, 0, RunOptions), Command(<<"run">>, 0, 1, RunOptions)}
MockCommands ==
  {Plain(<<"mock", "list">>, 0), Command(<<"mock", "run">>, 0, 1, RunOptions)}
SessionCommands ==
  {Plain(<<"session", "list">>, 0)}
    \cup {Plain(<<"session", c>>, 1) : c \in {"show", "delete", "revert"}}
    \cup {Command(<<"session", c>>, 1, 1, RunOptions) : c \in {"resume", "execute"}}
RunLogCommands == {Plain(<<"runs", "list">>, 0), Plain(<<"runs", "show">>, 1)}
BundleCommands ==
  {Command(<<"export">>, 0, 1, {}), Plain(<<"import">>, 1), Command(<<"models">>, 0, 1, {}),
   Plain(<<"providers", "list">>, 0), Plain(<<"config">>, 0), Plain(<<"config", "show">>, 0)}
ToolCommands ==
  {Plain(<<"verify">>, 0), Plain(<<"review">>, 0), Plain(<<"capabilities">>, 0),
   Plain(<<"mcp", "list">>, 0), Plain(<<"mcp", "add">>, 1), Plain(<<"hooks">>, 1),
   Plain(<<"skills", "list">>, 0), Plain(<<"skills", "show">>, 1)}
\* "skill run <name> [task]" makes of run a first positional word.
AgentCommands ==
  {Command(<<"skill">>, 2, 3, RunOptions), Plain(<<"agent", "list">>, 0),
   Plain(<<"plugin", "list">>, 0)}
    \cup {Plain(<<"plugin", c>>, 1) : c \in {"install", "enable", "disable", "remove"}}
ServerCommands ==
  {Plain(<<"web">>, 1), Plain(<<"serve">>, 0), Plain(<<"ci">>, 1),
   Plain(<<"debug", "config">>, 0), Plain(<<"debug", "info">>, 0)}

Tree ==
  TaskCommands \cup MockCommands \cup SessionCommands \cup RunLogCommands \cup BundleCommands
    \cup ToolCommands \cup AgentCommands \cup ServerCommands

OptionsOf(line) == line.options \cup (IF line.modes = <<>> THEN {} ELSE {"mode"})

Parses(command, line) ==
  /\ IsPrefix(command.path, line.words)
  /\ Len(line.words) - Len(command.path) \in command.takes
  /\ OptionsOf(line) \subseteq command.options
  /\ Range(line.modes) \subseteq AgentModes

\* --mode given twice is an array, and String makes one word of it.
ModeGiven(line) ==
  CASE line.modes = <<>> -> "edit"
    [] Len(line.modes) = 1 -> line.modes[1]
    [] OTHER -> "several"
ModeExplicit(line) == NormalizeArgv(line).modes # <<>>
Promotes(line) == "auto" \in line.options /\ ModeGiven(line) = "edit"
RunMode(line) == IF Promotes(line) THEN "agent" ELSE ModeGiven(line)
ModeOverride(line) ==
  IF Promotes(line) THEN "agent" ELSE IF ModeExplicit(line) THEN ModeGiven(line) ELSE "none"

-----------------------------------------------------------------------------
(* The sessions on disk and the commands that are being carried out        *)

VARIABLES
  store,   \* the directories that hold a session.json, and what it says
  created, \* how many ids were ever created
  known,   \* the ids of the manifests that were written: what lists and commands print
  writes,  \* how many manifests were written: the time in updatedAt
  bundle,  \* the last exported session, or none
  setup,   \* what plugin and mcp commands installed in the workspace
  shell,   \* the command each shell carries out
  left     \* how many more lines are typed
vars == <<store, created, known, writes, bundle, setup, shell, left>>

NoManifest == [id |-> NoSession]
NoLine == [before |-> 0, words |-> <<>>, modes |-> <<>>, options |-> {}, named |-> NoSession,
           tty |-> TRUE]
Prompt == [pc |-> "prompt", path |-> <<>>, line |-> NoLine, source |-> NoSession,
           session |-> NoSession, mode |-> "none", plan |-> NoSession, held |-> NoManifest]

\* The points at which an update has read a manifest and not written it yet.
Updating == {"starting", "ending", "refusing", "linking", "linkingBack"}
Pcs == Updating \cup
  {"prompt", "parsed", "fork", "copy", "rewrite", "ready", "open", "working", "planned",
   "executed", "linked", "removing"}

Commands == [pc : Pcs, path : {c.path : c \in Tree}, line : LineTypes,
             source : Sessions \cup {NoSession}, session : Sessions \cup {NoSession},
             mode : AgentModes \cup {"several", "none"}, plan : Sessions \cup {NoSession},
             held : Manifests \cup {NoManifest}]

\* The type invariant: what session.json, the shells and the commands may hold.
TypeOK ==
  /\ created \in 0..MaxSessions /\ known \subseteq 1..created
  /\ DOMAIN store \subseteq 1..created /\ \A d \in DOMAIN store : store[d] \in Manifests
  /\ bundle \in Manifests \cup {NoManifest}
  /\ setup \subseteq {"server", "plugin", "enabled"}
  /\ left \in 0..MaxLines /\ writes \in 0..MaxWrites
  /\ shell \in [Shells -> Commands]

Init ==
  /\ store = Existing
  /\ created = Len(Existing)
  /\ known = DOMAIN Existing
  /\ writes = Len(Existing)
  /\ bundle = NoManifest
  /\ setup = {}
  /\ shell = [s \in Shells |-> Prompt]
  /\ left = MaxLines

At(s, pc, path) == shell[s].pc = pc /\ shell[s].path = path
Given(s, option) == option \in shell[s].line.options
Named(s) == shell[s].line.named
TaskGiven(s) == "file" \in shell[s].line.options \/ Len(shell[s].line.words) > 1

Exists(id) == id \in DOMAIN store
Fresh == created + 1
\* createId
Create ==
  /\ created < MaxSessions
  /\ created' = Fresh
Put(id, manifest) ==
  store' = [d \in DOMAIN store \cup {id} |-> IF d = id THEN manifest ELSE store[d]]
Written(id, manifest) ==
  /\ writes < MaxWrites
  /\ writes' = writes + 1
  /\ Put(id, [manifest EXCEPT !.updatedAt = writes + 1])
  /\ known' = known \cup {id}
Goes(s, pc) == shell' = [shell EXCEPT ![s].pc = pc]
Ends(s) == shell' = [shell EXCEPT ![s] = Prompt]
\* A command that prints its report, or the error it throws: what it has done stays.
Quits(s) == Ends(s) /\ UNCHANGED <<store, created, known, writes, bundle, setup, left>>

\* listContinuableSessionId: the id in the latest manifest that is not a plan's.
Continuable ==
  {store[d].id : d \in {e \in DOMAIN store :
     /\ store[e].role # "plan"
     /\ \A f \in DOMAIN store : store[f].role # "plan" => store[f].updatedAt <= store[e].updatedAt}}

-----------------------------------------------------------------------------
(* Typing a line                                                           *)

\* Sessions are named by ids that were printed.
Type(s) ==
  /\ shell[s].pc = "prompt" /\ left > 0
  /\ \E line \in Lines : line.named \in known \cup {NoSession} /\
       LET argv == NormalizeArgv(line) IN
         IF \E c \in Tree : Parses(c, argv)
         THEN shell' = [shell EXCEPT ![s] =
                [Prompt EXCEPT !.pc = "parsed", !.line = argv,
                               !.path = (CHOOSE c \in Tree : Parses(c, argv)).path]]
         ELSE UNCHANGED shell
  /\ left' = left - 1
  /\ UNCHANGED <<store, created, known, writes, bundle, setup>>

-----------------------------------------------------------------------------
(* Commands that leave the sessions alone                                  *)

ReadingCommands ==
  {<<"session", c>> : c \in {"list", "show", "revert"}} \cup {c.path : c \in RunLogCommands}
InspectingCommands ==
  {<<"capabilities">>, <<"mcp", "list">>, <<"hooks">>, <<"skills", "list">>, <<"skills", "show">>}
CheckingCommands == {<<"verify">>, <<"review">>, <<"web">>, <<"serve">>, <<"ci">>}
ListingCommands ==
  {<<"models">>, <<"providers", "list">>, <<"config">>, <<"config", "show">>,
   <<"debug", "config">>, <<"debug", "info">>, <<"agent", "list">>, <<"plugin", "list">>}

Report(s) ==
  /\ shell[s].pc = "parsed"
  /\ shell[s].path \in ReadingCommands \cup InspectingCommands \cup CheckingCommands
       \cup ListingCommands \cup {c.path : c \in MockCommands}
  /\ Quits(s)

\* plugin-state.json and settings.yaml are read and written in one go.
SetUp(s) ==
  /\ shell[s].pc = "parsed"
  /\ shell[s].path \in {<<"mcp", "add">>}
       \cup {<<"plugin", c>> : c \in {"install", "enable", "disable", "remove"}}
  /\ setup' = CASE shell[s].path = <<"mcp", "add">> -> setup \cup {"server"}
                [] shell[s].path = <<"plugin", "install">> -> setup \cup {"plugin"}
                [] shell[s].path = <<"plugin", "enable">> -> setup \cup {"enabled"}
                [] shell[s].path = <<"plugin", "disable">> -> setup \ {"enabled"}
                [] shell[s].path = <<"plugin", "remove">> -> setup \ {"plugin", "enabled"}
  /\ Ends(s)
  /\ UNCHANGED <<store, created, known, writes, bundle, left>>

-----------------------------------------------------------------------------
(* Commands on sessions                                                    *)

ExportSession(s) ==
  /\ At(s, "parsed", <<"export">>)
  /\ \E id \in IF Named(s) # NoSession THEN {Named(s)} ELSE Continuable :
       Exists(id) /\ bundle' = store[id]
  /\ Ends(s)
  /\ UNCHANGED <<store, created, known, writes, setup, left>>

ExportFails(s) ==
  /\ At(s, "parsed", <<"export">>)
  /\ \A id \in IF Named(s) # NoSession THEN {Named(s)} ELSE Continuable : ~Exists(id)
  /\ Quits(s)

ImportSession(s) ==
  /\ At(s, "parsed", <<"import">>)
  /\ IF bundle = NoManifest THEN Quits(s)
     ELSE /\ Create
          /\ Written(Fresh, [bundle EXCEPT !.id = Fresh])
          /\ Ends(s)
          /\ UNCHANGED <<bundle, setup, left>>

\* deleteSession reads the manifest first, so that an unknown id is an error.
FindDeleted(s) ==
  /\ At(s, "parsed", <<"session", "delete">>)
  /\ IF Exists(Named(s)) THEN Goes(s, "removing") ELSE Ends(s)
  /\ UNCHANGED <<store, created, known, writes, bundle, setup, left>>

RemoveDeleted(s) ==
  /\ shell[s].pc = "removing"
  /\ store' = [d \in DOMAIN store \ {Named(s)} |-> store[d]]
  /\ Ends(s)
  /\ UNCHANGED <<created, known, writes, bundle, setup, left>>

-----------------------------------------------------------------------------
(* Runs: which session, which mode                                         *)

Surfaces == {<<>>, <<"run">>}
Opens(s, session, mode, plan) ==
  shell' = [shell EXCEPT ![s].pc = "open", ![s].session = session, ![s].mode = mode,
                         ![s].plan = plan]

\* startTuiShell: neither --continue nor --fork nor --auto reaches it.
StartTui(s) ==
  /\ shell[s].pc = "parsed" /\ shell[s].path \in Surfaces /\ Given(s, "tui")
  /\ IF ~shell[s].line.tty THEN Ends(s)
     ELSE Opens(s, IF Given(s, "session") THEN Named(s) ELSE NoSession,
                ModeGiven(shell[s].line), NoSession)
  /\ UNCHANGED <<store, created, known, writes, bundle, setup, left>>

\* The session to go on with.  The REPL takes --fork without a session for nothing.
ChooseSession(s) ==
  /\ shell[s].pc = "parsed" /\ shell[s].path \in Surfaces /\ ~Given(s, "tui")
  /\ IF Given(s, "continue") /\ ~Given(s, "session") /\ Continuable = {} THEN Ends(s)
     ELSE \E id \in IF Given(s, "session") THEN {Named(s)}
                    ELSE IF Given(s, "continue") THEN Continuable ELSE {NoSession} :
       IF Given(s, "fork") /\ id = NoSession /\ shell[s].path = <<"run">> THEN Ends(s)
       ELSE shell' = [shell EXCEPT ![s].session = id,
              ![s].pc = IF Given(s, "fork") /\ id # NoSession THEN "fork" ELSE "ready"]
  /\ UNCHANGED <<store, created, known, writes, bundle, setup, left>>

ForkRead(s) ==
  /\ shell[s].pc = "fork"
  /\ IF Exists(shell[s].session)
     THEN /\ Create
          /\ shell' = [shell EXCEPT ![s].pc = "copy", ![s].source = shell[s].session,
                                    ![s].session = Fresh]
     ELSE Ends(s) /\ UNCHANGED created
  /\ UNCHANGED <<store, known, writes, bundle, setup, left>>

\* cp: until the next step the copy's session.json is that of the source.
ForkCopy(s) ==
  /\ shell[s].pc = "copy"
  /\ IF Exists(shell[s].source)
     THEN Put(shell[s].session, store[shell[s].source]) /\ Goes(s, "rewrite")
     ELSE Ends(s) /\ UNCHANGED store
  /\ UNCHANGED <<created, known, writes, bundle, setup, left>>

\* Mutant: the copy goes on pointing at the plan or execution of the source.
LinkedFork(manifest, id) == [manifest EXCEPT !.id = id]
ForkManifest(manifest, id) == [manifest EXCEPT !.id = id, !.link = NoSession]

\* The source's manifest is read again; session.json is written in the directory of the copy.
ForkWrite(s) ==
  /\ shell[s].pc = "rewrite"
  /\ IF Exists(shell[s].source) /\ Exists(shell[s].session)
     THEN /\ Written(shell[s].session, ForkManifest(store[shell[s].source], shell[s].session))
          /\ Goes(s, "ready")
     ELSE Ends(s) /\ UNCHANGED <<store, known, writes>>
  /\ UNCHANGED <<created, bundle, setup, left>>

\* startInteractiveShell, which asks for a terminal only now.
StartRepl(s) ==
  /\ At(s, "ready", <<>>)
  /\ IF ~shell[s].line.tty THEN Ends(s)
     ELSE Opens(s, shell[s].session, ModeGiven(shell[s].line), NoSession)
  /\ UNCHANGED <<store, created, known, writes, bundle, setup, left>>

\* Mutant: the word of the command wins over --mode.
CommandFirst(s, manifest) ==
  LET words == shell[s].line.words IN
    IF Len(words) > 1 /\ words[2] \in {n \in DOMAIN SlashCommands : SlashCommands[n].mode # "none"}
    THEN SlashCommands[words[2]].mode ELSE RunMode(shell[s].line)

\* The mode of a run: the session's, then the slash command's, then that of the first skill
\* in force, and only when no --mode was given.  (A skill that does not exist is an error: the
\* command ends, as if killed.)
ModeOfRun(s, manifest) ==
  LET line == shell[s].line
      task == IF Len(line.words) > 1 THEN line.words[2] ELSE "none"
      command == IF task \in DOMAIN SlashCommands THEN SlashCommands[task]
                 ELSE [mode |-> "none", skill |-> <<>>]
      own == IF manifest = NoManifest THEN RunMode(line) ELSE manifest.mode
      skill == IF "skill" \in line.options THEN SkillModes ELSE command.skill
  IN CASE ModeExplicit(line) -> RunMode(line)
       [] ~ModeExplicit(line) /\ skill # <<>> -> skill[1]
       [] ~ModeExplicit(line) /\ skill = <<>> /\ command.mode # "none" -> command.mode
       [] OTHER -> own

\* runAgentSession: a run that plans first opens new sessions, whatever it was to go on with.
ExecutionModes == {"edit", "agent"}
StartRun(s) ==
  /\ At(s, "ready", <<"run">>)
  /\ LET id == shell[s].session IN
       IF IF id = NoSession THEN ~TaskGiven(s) ELSE ~Exists(id) THEN Ends(s)
       ELSE LET mode == ModeOfRun(s, IF id = NoSession THEN NoManifest ELSE store[id]) IN
              Opens(s, IF Given(s, "plan") /\ mode \in ExecutionModes THEN NoSession ELSE id,
                    mode, NoSession)
  /\ UNCHANGED <<store, created, known, writes, bundle, setup, left>>

\* "session resume": the mode is the manifest's, whatever --mode says.
ResumeSession(s) ==
  /\ At(s, "parsed", <<"session", "resume">>)
  /\ IF Exists(Named(s)) THEN Opens(s, Named(s), store[Named(s)].mode, NoSession) ELSE Ends(s)
  /\ UNCHANGED <<store, created, known, writes, bundle, setup, left>>

\* "session execute" opens a session of its own for the plan, in edit or agent mode.  (A plan
\* that still runs or has no text is refused too: the command ends here, as if killed.)
IsPlan(manifest) ==
  manifest.role = "plan" \/ (manifest.mode = "plan" /\ manifest.role # "execute")
ExecutionMode(line) == IF ModeOverride(line) = "none" THEN "edit" ELSE ModeOverride(line)
ExecutePlan(s) ==
  /\ At(s, "parsed", <<"session", "execute">>)
  /\ IF /\ Exists(Named(s)) /\ IsPlan(store[Named(s)]) /\ store[Named(s)].link = NoSession
        /\ ExecutionMode(shell[s].line) \in ExecutionModes
     THEN Opens(s, NoSession, ExecutionMode(shell[s].line), Named(s))
     ELSE Ends(s)
  /\ UNCHANGED <<store, created, known, writes, bundle, setup, left>>

RunSkill(s) ==
  /\ At(s, "parsed", <<"skill">>)
  /\ LET line == shell[s].line IN
       IF ModeExplicit(line)
       THEN IF SkillModes = <<>> \/ RunMode(line) \in Range(SkillModes)
            THEN Opens(s, NoSession, RunMode(line), NoSession)
            ELSE Ends(s)
       ELSE Opens(s, NoSession, IF SkillModes = <<>> THEN RunMode(line) ELSE SkillModes[1],
                  NoSession)
  /\ UNCHANGED <<store, created, known, writes, bundle, setup, left>>

-----------------------------------------------------------------------------
(* The manifest of a run's session                                         *)

\* The first of the two runs of a line that plans first.
PlansFirst(s) ==
  /\ shell[s].path = <<"run">> /\ Given(s, "plan") /\ shell[s].mode \in ExecutionModes
  /\ shell[s].plan = NoSession

CreateSession(s) ==
  /\ shell[s].pc = "open" /\ shell[s].session = NoSession
  /\ Create
  /\ Written(Fresh, [id |-> Fresh, role |-> "standard", link |-> NoSession,
                     mode |-> IF PlansFirst(s) THEN "plan" ELSE shell[s].mode,
                     updatedAt |-> 0])
  /\ shell' = [shell EXCEPT ![s].pc = "working", ![s].session = Fresh]
  /\ UNCHANGED <<bundle, setup, left>>

\* Mutant: what the run knows of its session is written without being read again.
KeepManifest(s, id, pc) ==
  /\ shell' = [shell EXCEPT ![s].pc = pc,
       ![s].held = [id |-> id, role |-> "standard", mode |-> "edit", link |-> NoSession,
                    updatedAt |-> 0]]
  /\ UNCHANGED <<store, created, known, writes, bundle, setup, left>>

\* SessionManifestStore.update: read, await, and write what was read with the updates.
ReadManifest(s, id, pc) ==
  /\ IF Exists(id) THEN shell' = [shell EXCEPT ![s].pc = pc, ![s].held = store[id]]
     ELSE Ends(s)
  /\ UNCHANGED <<store, created, known, writes, bundle, setup, left>>

\* The updates: the status, which is left out, and the roles and links of plans.
Updated(s) ==
  CASE shell[s].pc = "refusing" -> [shell[s].held EXCEPT !.role = "plan"]
    [] shell[s].pc = "linking" ->
         [shell[s].held EXCEPT !.role = "plan", !.link = shell[s].session]
    [] shell[s].pc = "linkingBack" ->
         [shell[s].held EXCEPT !.role = "execute", !.link = shell[s].plan]
    [] OTHER -> shell[s].held

WriteManifest(s, pc, next) ==
  /\ shell[s].pc = pc
  /\ Written(shell[s].held.id, Updated(s))
  /\ IF next = "prompt" THEN Ends(s)
     ELSE shell' = [shell EXCEPT ![s].pc = next, ![s].held = NoManifest]
  /\ UNCHANGED <<created, bundle, setup, left>>

BeginResumed(s) ==
  /\ shell[s].pc = "open" /\ shell[s].session # NoSession
  /\ ReadManifest(s, shell[s].session, "starting")
MarkRunning(s) == WriteManifest(s, "starting", "working")
EndRun(s) == shell[s].pc = "working" /\ ReadManifest(s, shell[s].session, "ending")
MarkEnded(s) ==
  WriteManifest(s, "ending", IF PlansFirst(s) THEN "planned"
                             ELSE IF shell[s].plan # NoSession THEN "executed" ELSE "prompt")

\* runPlanFirstSession: the user refuses the plan, or approves it and it is executed.
RefusePlan(s) == shell[s].pc = "planned" /\ ReadManifest(s, shell[s].session, "refusing")
MarkRefused(s) == WriteManifest(s, "refusing", "prompt")
ApprovePlan(s) ==
  /\ shell[s].pc = "planned"
  /\ Opens(s, NoSession, shell[s].mode, shell[s].session)
  /\ UNCHANGED <<store, created, known, writes, bundle, setup, left>>

\* linkPlanAndExecuteSessions: two updates, one after the other.
FindPlan(s) == shell[s].pc = "executed" /\ ReadManifest(s, shell[s].plan, "linking")
LinkPlan(s) == WriteManifest(s, "linking", "linked")
FindExecution(s) == shell[s].pc = "linked" /\ ReadManifest(s, shell[s].session, "linkingBack")
LinkExecution(s) == WriteManifest(s, "linkingBack", "prompt")

\* The user closes the terminal, the process is killed, or a command fails.
Kill(s) == shell[s].pc # "prompt" /\ Quits(s)

Step(s) ==
  \/ Type(s) \/ Report(s) \/ SetUp(s)
  \/ ExportSession(s) \/ ExportFails(s) \/ ImportSession(s) \/ FindDeleted(s) \/ RemoveDeleted(s)
  \/ StartTui(s) \/ ChooseSession(s) \/ ForkRead(s) \/ ForkCopy(s) \/ ForkWrite(s)
  \/ StartRepl(s) \/ StartRun(s) \/ ResumeSession(s) \/ ExecutePlan(s) \/ RunSkill(s)
  \/ CreateSession(s) \/ BeginResumed(s) \/ MarkRunning(s) \/ EndRun(s) \/ MarkEnded(s)
  \/ RefusePlan(s) \/ MarkRefused(s) \/ ApprovePlan(s)
  \/ FindPlan(s) \/ LinkPlan(s) \/ FindExecution(s) \/ LinkExecution(s)
  \/ Kill(s)
Next == \E s \in Shells : Step(s)
Spec == Init /\ [][Next]_vars

-----------------------------------------------------------------------------
(* Properties                                                              *)

Running(s) == shell[s].pc \in {"open", "starting", "working", "ending"}

\* Whatever word order, alias, session, slash command or skill a line has, a single mode it
\* names is the mode of its run: a session that is gone on with in "ask" edits nothing.
\* --auto makes agent of edit.  "session resume" takes --mode and ignores it, and the two
\* interactive surfaces ignore --auto.
Interactive(s) == shell[s].path = <<>> \/ (shell[s].path = <<"run">> /\ Given(s, "tui"))
ExplicitModeRuns ==
  \A s \in Shells :
    LET line == shell[s].line IN
      Running(s) /\ Len(line.modes) = 1 /\ shell[s].path # <<"session", "resume">> =>
        shell[s].mode = IF "auto" \in line.options /\ line.modes[1] = "edit" /\ ~Interactive(s)
                        THEN "agent" ELSE line.modes[1]

\* No run works in a directory whose manifest names another session, which a fork leaves when
\* the source is deleted or the fork killed between the copy and the rewriting.  A run that
\* was asked to fork works on a session of its own, linked to no plan or execution but one
\* that was made for it later: none of the source's.
ForksAreOwn ==
  \A s \in Shells : Running(s) =>
    LET session == shell[s].session IN
      /\ Exists(session) => store[session].id = session
      /\ shell[s].source # NoSession =>
           /\ session # shell[s].source
           /\ Exists(session) =>
                store[session].link = NoSession \/ store[session].link > session

\* A deleted session stays deleted.  update writes the directory anew when the session is
\* deleted between its read and its write, so an update may bring it back, but only one that
\* had read it: what it holds bears the time of a writing.  A run that goes on for long
\* after the deletion, and ends then, may not.
DeletedStaysDeleted ==
  [][\A d \in 1..created : ~Exists(d) /\ Exists(d)' =>
       \E s \in Shells : \/ shell[s].pc = "copy" /\ shell[s].session = d
                         \/ shell[s].held.id = d /\ shell[s].held.updatedAt > 0]_vars
=============================================================================
