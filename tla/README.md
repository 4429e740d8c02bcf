# Code Mind: a verification project

Code Mind is a coding agent in TypeScript: a monorepo of packages around one
loop that assembles a prompt, calls a language model, executes the tool calls
it asks for under a permission policy, verifies what was changed, and persists
everything it does in a session directory. This directory holds TLA+ models of
that program, the TLC configurations that check them on small instances, and
theorems about them that TLAPS checks for all instances.

## 1. The system

### Components, their state and how they interact

| Component | Source | State | Talks to |
|---|---|---|---|
| Run kernel | `packages/core/src/agent/kernel` | a phase, step counters, closing turn, pending tool calls | pure; called by the loop, throws on an event its phase or its assertions do not allow |
| Agent loop | `packages/core/src/agent/runtime` | run state (kernel, progress, verification, review, budget), locals of `run()` | model, tools, hooks, user, session store, event bus: an `await` each |
| Tool calls | `runtime/tool-call*`, `runtime/permission.ts` | the approval callbacks of the current call | permission engine, safety guard, hooks, the prompter, verification |
| Run state persistence | `runtime/run-state-persistence.ts`, `session-store.ts` | `run-state.json`, `verification.json` | written at every kernel event, read when a session is resumed |
| Session store | `packages/session` | `session.json`, plans, approvals, ledgers | read-modify-write without locks |
| Orchestration | `core/src/agent/run-session.ts`, `plan-session-orchestrator.ts` | plan and execute sessions and their links | two runs of the loop with an approval between them |
| Clarification, skill confirmation | `core/src/agent/task-clarity*.ts`, `skill-confirmation-resolution.ts` | `session.task.metadata` | the prompter of the surface, before the first step |
| Server runtime | `packages/server-runtime` | asynchronous runs, pending approvals, clarifications, skill questions and plan approvals, each in a map and partly on disk | HTTP routes on one side, runs on the other |
| API server | `apps/api-server` | none of its own | the maps of the server runtime |
| Command line | `apps/cli` | a parsed line; REPL, approval coordinator, terminal UI | sessions on disk; runs, by callbacks and events |
| Events | `packages/observability` | sequence number, listeners, run directory | every component publishes, listeners are awaited |
| Permissions | `packages/security` | none (decision tables) | asked before every tool call |
| Tools | `packages/execution`, `packages/workspace` | the user's files, snapshots, worktrees | executed by the loop |
| Models | `packages/models` | retries, stream parser | called by the loop |
| Context | `packages/context` | message window, compaction | prompt assembly and compaction |
| Capabilities | `packages/capabilities` | hooks, skills, plugins, subagents | selected per step; subagents run the loop recursively |

### What is hard

* Everything is asynchronous in one thread: every `await` is a point where the
  user may abort, another request may run, a write may fail or the process die.
  The loop has about thirty such points and looks at the abort signal at few.
* The kernel throws on events it does not expect. The loop decides by its own
  flags which event to send, so flags and kernel phase must agree on every
  path, including paths through rejection, recovery, resumption and failure.
* The outcome of a run is written to three places (`session.json`,
  `run-state.json`, the returned result) in several steps, and an exception on
  the way starts the completion again with another outcome.
* Recovery extends the step budget that bounds the loop.
* `run-state.json` is replaced in place; the session outlives the process.
* `session.json` is read, changed and written without a lock by runs, commands
  and other processes.
* Messages are dropped, summarised, lost with a process and rebuilt, and must
  still be a conversation the endpoint of the model accepts.
* Several parties answer questions: clients of the server, keys and lines of a
  terminal, aborts; late, twice, or about another question than the one that is
  asked now.

The hazards are listed one by one in `PROJECT.json`.

### What makes each component correct

* Kernel and loop: the kernel never throws on what the loop sends (except in
  the situations section 5 explains); no work after the recorded end; every run
  ends, unless it waits for its model for ever; the budget stays bounded.
* Persistence: what is on disk while a step runs is what memory holds; the
  three records of an outcome agree.
* Tool calls: a claimed verification covers the last edit.
* Server runtime: an answer reaches exactly the call it was given for; an abort
  releases whoever waits; the registry on disk tells what happened.
* Orchestration: a task executes nothing without an approved plan, and a plan
  once; links between sessions are true.
* Session store: a deleted session stays deleted, a fork is nobody else's, links
  are true.
* Transcript: what is said is remembered, in the window or the summary while a
  run lasts and as a beginning without holes after a crash, in its order.
* Model calls: what is sent to DeepSeek is well formed whatever was dropped; a
  stream gives back the calls the server made; no attempt hangs before its answer.
* Tools: in a mode that may only read, no tool of the session or of its subagents
  changes a file (MCP servers are an exception that section 5 explains); `session
  revert` gives back the original, as far as the names of snapshots let it.
* Command line: the mode a user names is the mode of the run; a plain answer
  lets through only what the user could see; an abort gets a turn out of its
  wait.
* Capabilities: a step offers what was asked for and nothing else.

## 2. Modules

| Module | Models |
|---|---|
| `RunKernel` | `core/src/agent/kernel`: one operator per event, the phases each is accepted in, the assertions |
| `AgentLoop` | the loop around it over a whole session: runs, steps, model calls, tool batches, approvals, verification, review, compaction, completion, persistence, resumption, aborts, faults and crashes |
| `AgentLoop_proof` | the inductive invariant of a run and its theorems; then the two of the whole session, its budget and its verified edits |
| `NodeFile` | a file that is replaced with `writeFile` while others read and write it |
| `HttpApprovals` | the approval queue of the server, the runs that wait in it, the clients that answer, `approvals.json` |
| `AsyncRuns` | the registry of asynchronous runs: map, executions, files, hydration, pruning |
| `AsyncRuns_proof` | the inductive invariant of the registry and its theorems |
| `PlanProtocol` | abstract: what is decided on a plan and how far its task is |
| `PlanSessions` | plan-first tasks, the queue their plans wait in, commands that execute plans, the manifests that link sessions |
| `PlanSessions_proof` | the inductive invariant of `PlanSessions`, its theorems and the refinement of `PlanProtocol` |
| `Transcript` | what a session remembers: the window, its compaction, the event log of each run, restoring and reverting |
| `ModelCalls` | the calls to a model: the payload, attempts and delays, answers and streams, the batch of tool calls after it |
| `Conversation_proof` | of `Transcript`, that logs have no holes, windows are in order and runs forget nothing; of `ModelCalls`, that payloads are well formed and streams put together, proved |
| `Permissions` | operators: what the permission engine and the safety guard decide, and the tools of subagents |
| `Tools` | sessions and subagents that use tools on one workspace; snapshots and revert; MCP servers; extends `Permissions` |
| `Tools_proof` | baselines and modes, proved |
| `CommandLine` | command lines typed in several shells: rewriting, parsing, sessions on disk |
| `CommandLine_proof` | modes, forks and deletions, proved |
| `ApprovalCoordinator` | requests and answers of the interactive surfaces |
| `Terminal` | the REPL and the TUI with turns, aborts, plans and slash commands; extends `ApprovalCoordinator` |
| `Approvals_proof` | of `HttpApprovals`, the inductive invariant of the queue and its theorems; of `Terminal`, that plain answers are seen, proved |
| `Capabilities` | operators: scores and selection of skills and plugins |
| `ToolOffer` | operators: the tools a step shows its model, the evidence a run has gathered and the gate on changes |
| `Questions` | clarification and skill questions of runs on the server and at terminals, and the steps after them; extends the two before |
| `Questions_proof` | that the queues are the waits, that offers are justified and that named skills are offered, proved |
| `MC*` | for each machine the sets and functions its runs use; nothing of the code |

`AgentLoop` models one run at a time in its session, `HttpApprovals` several
runs that share a session, `AsyncRuns` the runs of a server without their
insides, `PlanSessions` tasks of two runs with an approval in between; the last
three share `NodeFile`, as does `Transcript`. Two modules compose components:
`Terminal` the surfaces with the coordinator, `Tools` sessions and subagents
with the rules, the hooks and the files they share. The other machines meet at
`await`s that each of them leaves open: what `AgentLoop` calls a tool is
`Tools`, what it calls the user is `HttpApprovals`, `Terminal` or `Questions`,
what it calls the model is `ModelCalls`.

Every machine has a `TypeOK` that says what its variables range over. `HttpApprovals`
and `ModelCalls` call theirs `QueueTypeOK` and `CallsTypeOK`, and name their initial
states, steps and specifications likewise (`QueueSpec`, `CallsSpec`), because their
proofs share a module with those of `Terminal` and `Transcript`.

### RunKernel

A kernel state is the record of `RunKernelState` without `checkpointRequired`,
which every transition sets. `StepStarted`, `PromptAssembled`, ... are the
cases of `transitionRunKernelState`; `Accepts(k, type, next, command)` says
that neither `assertEventAllowed` nor `assertRunKernelInvariants` throws.

### AgentLoop

State: `kernel` and `st` are `runState` in memory (`st` keeps the parts
decisions depend on: closing turn, whether files were modified, exploration
evidence, the last verification and review, recovery attempts and the extra
step budget); `disk` is `run-state.json`, `manifest` is `session.json`,
`verFile` is `verification.json`; `at` is the `await` the run is suspended at;
`loop` holds the locals of `run()`; `result` is the result being completed.
`rejected`, `dirty` and `used` are history: the first event the kernel threw on,
whether files changed since the last verification, and how many runs, crashes
and faults there were.

One action is what the code does from one `await` to the next that matters:
`Raise` is `applyRunKernelEventAndCheckpoint` with its three outcomes (applied
and persisted; applied but the write fails; the kernel throws); `Finish` is
`finalizeResult`; `Fail` is the catch of `handleToolCall` and of `run()`;
`PublishEnd`, `WriteFinalManifest`, `EndKernel`, `RunSessionEndHooks` and
`Return` are `completeRun` and `completeAndFinish`; `Restore` is
`restoreRunStateForSession`. The model's answer, the user's answer, the outcome
of tools, verification and review, and the decision of the permission engine
are arbitrary. Awaits that neither change this state nor can be told apart by
it (several publications in a row, say) are one step, and any of them failing
is `StepThrows`. Clarification and skill confirmation at the start of a run are
part of `InitializeSession`; `Questions` models what happens there. `EditsAreVerified`
is about the edits of the run itself: in the code, what a subagent it delegates to has
changed starts no verification and is found only when the run itself edits or runs a
command (tool-call/lifecycle.ts:183), and the property does not count it.

`ModelAwaits` are the awaits a model can hold for ever. A request has a timer and
hears the abort signal only until its headers arrive (openai-compatible.ts:372); its
body is read without either (lines 384 and 427), so that a server which sends no body
keeps the run, aborted or not. A tool is among them because it may run a subagent.

### HttpApprovals

A run is working, asking (suspended in `resolvePermission`) or ended, and asks
one approval after the other; an approval is the pair of its run and its
number. Several runs share a session when a client resumes one that is still
running, which nothing prevents. `call` is the `await` at which `approve()` of
an approval is suspended: saving the record, announcing it (`onPending`), or
waiting in the map, `pending`. `waitWithAbortSignal` races that call against
the signal, so a call can outlive the wait it was made for; `outcome` is what
the wait gave the run. An aborted call looks at the signal again after
`onPending` and then does not enter the map: `Register` asks for the `outcome`
because the run may have been resumed with a new signal in the meantime.

`saveApproval` is three steps (read and change, open, write), and saves of
different approvals overlap: the first save of an approval is awaited by
`approve()`, that of a decision is not awaited by anybody. A failure of the
former fails the call; a failure of the latter is an unhandled rejection, which
ends a Node process, and is therefore among the causes of `Crash`.

### AsyncRuns

`job` is the object `start` creates, which the map entry and the execution
share (`entry[j] = "live"`), unless the entry was read from the directory by a
process that did not start the run: then it is a copy with a status of its own.
`persistJob` is three steps; the object is serialized when the directory is
known to exist, so a save that was started while the run was running may write
that it ended. `Request` is a GET or an abort; the first one of a process reads
the directory (`ReadJobFile`, `Hydrate`) with `hydrated` already set. `Serve` is
the rest of `get` and `abort`. `finished` orders runs by `finishedAt`, which is
what `pruneCompleted` sorts by.

### PlanProtocol and PlanSessions

To whoever starts it, a plan-first task promises little: its plan is decided on
at most once, and the task carries it out at most once and only if it was
approved. `PlanProtocol` says this with two variables, the decision and the
stage of each task; a task may be over at any time.

`PlanSessions` is what `runPlanFirstSession`, `executeFromApprovedPlan` and
`HttpPlanApprovalQueue` do. An actor is a task of the server or a command
`session execute`; `at` is the phase it is in, `pending` the keys of the queue's
map, `answer` what decided on a plan: the client, `autoApprovePlan`, its absence
(`"unattended"`) or the abort signal. `Decide` is the code after `approvePlan`
returned, which runs as soon as the promise is resolved. A run of the loop only
begins (`Start`, `Execute`) and ends (`EndPlanning`, `EndExecution`), with any
outcome; it saves its plan before its status, so a session may be seen with a
plan and still running, and one that delivered no plan may still succeed, in
which case its final text is proposed but no file can be executed later.

The plan session's `session.json` is written by its task (a denial, or the link
to the execution) and by every command that executed the plan (the link).
`updateManifest` is read and change, open, write, of several processes without a
lock. The execution's own manifest is written by nobody else once it has ended
and is one step, `WriteBacklink`.

The refinement mapping takes `answer` to the decision (`DecisionOn`) and `at` to
the stage (`StageOf`). Commands are steps the protocol does not see: they may
execute a plan again, or one that was denied, and they are in the model because
they share the manifests, not because the protocol speaks of them.

### NodeFile

`writeFile` truncates when it opens and writes later; nothing orders two calls.
Of two calls that both had opened the file before either wrote, the second to
write leaves its own text or, if that is shorter, a text with a foreign tail,
which does not parse. Readers in this code treat both an empty and an
unparsable file as holding nothing.

### Transcript

A message is its number; `said` remembers which run said which. `Say` is the
push to `session.messages` with the publication of its event, which
`RunStore.append` numbers and holds in `pending` until `Flush` at the end of a
step. `log` is `events.jsonl` of each run, with a torn last line after a crash,
`index` and `compacts` the files that are replaced. `Begin` is a run's start:
`Rebuild` turns the events of the runs named in the index back into messages,
and `Window` keeps the last of them. A tool result without a saved response gets
a made-up response in the code (session-restore.ts:173), `WithCall`.
`StartCompaction`, `SummaryArrives`, `SummaryFails` and `ApplyCompaction` are
`compactSessionIfNeeded` with its awaits. Everything the runtime pushes in the user's
name has an action: the task, its clarification, the result of a verification and the
hint after a failed one, the hint after a review that asks for more, and the text of
an accepted plan. The last one (`EchoPlan`) has no event: it is in the window only,
and a later run finds its text in the result of the call that it repeats.

### ModelCalls

`window` is `session.messages` as far as the wire is concerned: roles, ids of
tool calls and whether there is text. `Payload` is what `buildPayload` sends:
the prompt before the window, the summary and the advice of the step after it,
the block of the selected skills before the first thing a user said, wherever
that is in the window now (`WithCapabilities`), and cleaned by two passes when the base
URL is DeepSeek's (openai-compatible.ts:261). Every other endpoint gets the messages
as they are, which the model shows to be ill-formed at times: `PayloadIsWellFormed` speaks of
requests to DeepSeek. An abort whose reason is an error, as the CLI's, ends a fetch; the
`AbortError` of a signal without a reason is taken for a network error, so that another
attempt is made, which finds the signal aborted (`Aborts`, `AbortedFetch`).
`Answered` is the arrival of headers, `ApplyChunk` a piece of a stream in any
order of its parts; `HandleCall`, `AbandonCalls`, `BeginTask` and `Forget` are what
other components do to the window between two requests: answers, verification
messages among them, batches that are left half done, new tasks and compactions.
Cleaning also drops a round that was answered in full when a verification message
stands among its results (openai-compatible.ts:200, verification.ts:80): the
model is then told of none of its calls.

### Permissions and Tools

A call has its tool, its path with the class the file policy gives it, and the
kind of command or patch the guard tells apart. `Decision` is the permission
engine with the mode, the collaboration plan mode and the rules for subagents.
In `Tools` a call goes through `Propose`, the answer of the user, the hooks and
its own steps: `ReadAndCompute`, `ReadBefore`, `CaptureSnapshot`, `WriteBack` are the
awaits of a file tool, so that two sessions overwrite each other and a crash leaves a
snapshot without a change; a move has its own (`BeginMove` to `Rename`). `Replaced`
models `String.replace` as it is, with the replacement patterns of the language. A
read that fails is taken for a missing file (file-write-helper.ts:25,
file-mutation-helper.ts:104), and a snapshot may stay empty: `unsaved` remembers the
files this happened to.

A path is a sequence of the parts that matter to the name of its snapshots, which
spells "/" as "__" (`SafeName`, file-snapshot.ts:20) and is read back with "/" for
every "__" (`RelativePath`, session-rollback.ts:26). Snapshots of `src/a` and of
`src__a` have one name, and a revert of the second changes the first: `Baseline` is
looked up by the name. `RevertSession` reads the baselines and `RevertFile` writes
them one by one, also to a path nobody had. The model takes it that a path is spelled
in one way and that two calls of a session are not in one millisecond, as an
approval, a hook or a model call is between them.

`RunSubagent` starts a nested session in the mode of its definition or of its caller.
`changedBy` says whose file tools have changed a file; `Other` stands for users,
shells, MCP servers, a revert and the draft of a plan, which leave no snapshot.
`server` counts the requests MCP servers may be at work on, answered in time or not;
while there is one, the server, which is started in the workspace (mcp-adapter.ts:68),
may change any file (`ServerWrites`). The client of a run waits for one request at a
time, for at most five seconds, and ids are times in milliseconds
(mcp-adapter.ts:156): a late answer cannot have the id that is waited for, and stays
in the client's buffer, which is left out.

### CommandLine

A line has words, modes, options, a session and the place of its first option (an
option right after the word `agent` keeps it from being rewritten). `NormalizeArgv` and `Parses` are
the rewriting and the command tree of the parser; the actions carry a command
out, one step from `await` to `await`, and interleave with those of the other
shell. `store` holds the manifests, `held` what a shell has read and not yet
written back. A run only marks its manifest when it begins and when it ends. Its mode may come from
a slash command or from the first skill in force, `--skill`'s before the one a slash
command brings with it (`ModeOfRun`).
`Kill` stops any command at any of its awaits.

The id of a session is the number of sessions made before it plus one
(`createId` makes random ids, which do not repeat), so that what was made later has
the larger id. Users name ids that lists and commands print (`known`): those of
manifests that were there at first or have been written since; the copy of a fork
is nobody's to name until its manifest is rewritten. `Words` are the words a line may hold.

### ApprovalCoordinator and Terminal

A request is saved, announced and only then enters the map of pending approvals
(`Save`, `Publish`, `EnterMap`); an answer is looked up in the map or, failing
that, among the records on disk (`LookUpAnswer`, `SettleAnswer`). An answer
carries in `meant` what the user could have seen when it was given. A request
outlives the turn that made it: an abort ends the wait, not the entry.

`Terminal` adds who asks and answers. The REPL drops lines while the handler of
the last line has not returned (`busy`), the TUI answers the approval its modal
shows. `/new` and `/resume` change the session the next turn goes on with while
a turn runs; the start of the turn (`turn.started`) and the end of one that has a
result write it again. Slash answers that name an id are typed
while no other answer is under way and name a pending record. Leaving the surface
is not modelled.

### Capabilities, ToolOffer and Questions

Instead of the texts of tasks and skills, a task says what the selector finds:
which names it contains, which file types and verbs, how much it resembles each
description. `SelectSkills` is the whole of `selectCapabilities`: forced,
confirmed and matching skills, the gap of scores, plugins, the cap, each a fold of one
step (`WithForced`, `WithNamed`, `WithMatching`, `WithPlugin`) over a sequence, as each
is a loop in the code. `SelectTools`
is the mode's tools, what plan mode brings, and the gate that hides the tools
that change files until `Evidence` is enough; `OfferedTools` cuts them by the
selected skills' own lists.

In `Questions` a run is asked to clarify a vague task and to confirm skills that
match half-way, one question after the other, by a queue of the server, which
clients answer late and twice, or at a terminal. A run waits for the answers of its
model, too (`ModelReplies`), and nothing says that they come. `ModelStep` is a step's
assembly after any tool calls, in plan mode only if the request's mode is one that
edits. Two things the model shows of the code: all
questions of a run have one id, so that a repeated answer answers the next
question; and a skill's list of tools takes away `exit_plan_mode` while plan mode
is on, and, behind the gate, may leave a step without any tool.

## 3. Runs

| Run | Bounds | Shows |
|---|---|---|
| `run` | one run in ask or agent mode, one fault | agreement of the outcome, verified edits, every run ends or waits for its model |
| `session` | two runs in agent mode, batches of two, one crash | the only rejections, no work after the end, durability, the bound of the budget, the loop condition |
| `approvals` | two runs of a session, two approvals together, one crash | who waits can be answered, an accepted answer counts, records are true, nothing is granted after an abort, every wait ends |
| `registry` | two runs, the map keeps one ended run, two saves at a time, one restart | executing runs stay reachable, aborts reach the run, files tell no end that was not, ends are final |
| `plans` | one plan-first task, two commands, one crash | the task keeps `PlanProtocol`, carries out what was answered, links are true whatever updates overlap, every task returns |
| `transcript` | three runs, seven messages, responses with two calls, windows of three, one failed write, one crash | logs without holes, windows in order, nothing forgotten while a run lasts |
| `calls` | DeepSeek or another endpoint, two attempts, two answered requests, two calls of two pieces, windows of four | well-formed payloads to DeepSeek, streams put together, fetches that end |
| `tools` | two sessions or one with a subagent, five paths, ask, plan and agent mode, two calls, one change by others, one failing read or save | originals are kept, read-only modes keep files |
| `commands` | two shells, three of twenty-seven lines, ten writes | explicit modes, own forks, deletions that last |
| `terminal` | REPL and TUI, two turns, two approvals, two answers at a time | plain answers are seen, aborts end waits, lines are heard |
| `questions` | two runs with eleven possible requests, two answers that may come twice, one step each | queues are waits, offers are justified, named skills are offered, an abort ends a run or it waits for its model |
| `confirmed` | as `questions` | expected violation, see section 5 |

The runs take between half a minute and three minutes with two workers and reach
between 10^5 and 4*10^6 states. Deadlock is not checked in any of them: every
machine stops when its bounds are used up, its runs have ended or nobody asks
for more. `TypeOK` is proved for `AgentLoop`, `HttpApprovals`, `PlanSessions`,
`AsyncRuns`, `Terminal`, `CommandLine`, `Transcript` and `ModelCalls` (section 4), and
what the proofs need of it for `Tools` and `Questions`; it was checked with these bounds for all, and is not
among the properties of the runs.

`run` and `session`: a base budget of three steps makes the first step, the last
but one and the last different, as the closing turn distinguishes them, and every
recovery adds two. Two runs are enough for what resumption can do wrong, because
all a run inherits is on disk and the second run already starts from every file
the first can leave; batches of two are enough to have a call before and after
another; one fault or crash is enough to interrupt any one step, and the theorems
hold for any number of all of these.

In `approvals`, `MaxAsked` 2 lets two approvals of one run follow each other or
those of two runs overlap; a third could only repeat what two do to each other
in the map (whose keys are unique) and on disk (a save knows its own record and
what it read). The theorems hold for any number. In `registry`, keeping one of
two ended runs is what makes pruning happen, and two saves at a time are enough
to have two of the same run in either order. The runs of `registry` are
interchangeable, so it uses symmetry; no liveness is checked there.

In `plans`, two commands are enough to have two updates of the manifest overlap
with that of the task, in any order. Tasks share nothing but a map whose keys
are their sessions, so one is enough; two tasks with one command have been
checked as well (639,000 states), and the theorems hold for any number.

In `transcript`, windows of three and a threshold of five are the smallest at which
a compaction cuts between a response and its results; three runs are needed for a
window that joins two earlier runs; seven messages let a run compact, fail and
be followed by another. In `calls`, two rounds are enough for ids that repeat,
and a window of four holds a round with its task and a verification message. In
`tools`, the file classes, the modes of subagents and the kinds of commands each
occur, two of the paths share the name of their snapshots and one has the name of a
draft; two calls let one overtake another, or a move follow an edit; edit mode differs
from agent mode only in what is asked for, so it is left to the proofs. In `commands`
the twenty-seven lines have each alias, each way to name a mode and each command that
writes a session; three lines are enough to fork, delete and go on with one
session. In `terminal`, keys of remembered approvals do not interact, so there is
one; two approvals are enough for an answer that meets another one than was meant.
In `questions` the four skills are found by file type, by verb and by a plugin, and
the requests cover each surface, mode and policy; runs share only the queues, whose
keys are the runs.

Fairness (`FairSpec`): the event loop runs what is ready, commands, hooks and MCP
requests end or time out, and the user who is asked answers or aborts. Nothing is
assumed of the model: `Fairness` leaves out the steps of a run that awaits one
(`ModelAwaits`), and `RunEnds` says that a run ends or waits for its model for ever.
Nothing is assumed of faults, crashes or new runs either. One weak
fairness condition on all other steps of the run suffices since some step is enabled
whenever the run waits for neither. In `HttpApprovals` the steps of a call and of its
saves are fair, because the event loop takes them, and so is the answer to an approval that
stays in the map: `EveryAskReturns` is a promise to clients who answer, the code
has no timeout of its own. Starting, ending and aborting runs is not fair.
In `PlanSessions` it is assumed that the runs of a task end (see `RunEnds` for when they
do), that its own steps are taken and that a plan that
waits is answered; aborts, commands and crashes are not fair, and a task whose
plan was aborted must return without any answer.
In `ModelCalls` only the client's own timer and delay are fair; nothing is
assumed of the server, and the code promises nothing about a body that stalls
after its headers. In `Terminal` what has begun goes on: saves and
publications of requests, look-ups of answers, the read of `/resume`, and turns that
do not work; nothing is assumed of a turn at work, which may await its model, nor of
the user, who may never answer and never abort: `AbortEndsTurn` says that no wait for
an approval holds an aborted turn. In `Questions` a run goes on between its waits, the
one for its model (`"calling"`) included among these: `AbortEndsRun` says that no
question holds an aborted run. Nothing is assumed there of users, clients, the network
or the model. `Transcript`, `Tools` and `CommandLine` are checked for safety only.

## 4. Proofs

`AgentLoop_proof` proves, for every base budget, set of modes, batch size and
number of runs, crashes and faults:

* `TypeCorrect`: `TypeOK`;
* `RejectionsAreKnown`: `OnlyKnownRejections`;
* `NothingAfterTheEnd`: `NoWorkAfterTheEnd`;
* `Durability`: `KernelIsDurable`;
* `LoopAlwaysEntered`: `LoopBodyEntered`;
* `OutcomeAgreement`: `OutcomeIsAgreed`.

All follow from one inductive invariant, `IInv`. The properties alone are not
inductive: that the kernel accepts an event depends on its phase, its counters
and its closing turn, so the invariant relates each of them to the point the
run is at (`PhaseAgrees`, `StepAgrees`), to the budget (`BudgetAgrees`), to what
is on disk (`KernelIsDurable`, `KernelWellFormed`, because a later run starts
from there) and to what happened before (`BeforeFirstStep`, `RejectionKnown`,
`OutcomeRecorded`). The proof has one lemma per action, or per group of actions
that end alike, on top of four that say when a step that goes on, stops, fails
a write or is rejected keeps the invariant.

Two properties speak of the session rather than of one run, and need more:

* `BudgetIsBounded`: `BudgetBound`;
* `EditsVerified`: `EditsAreVerified`.

`BInv` accounts for the budget: whatever number of extra steps is in memory, in the
manifest or in the checkpoint, it is at most what the recoveries grant that the
checkpoint remembers, with four for each checkpoint that was torn (the next run
counts its recoveries from zero but reads the extra steps of the manifest) and one
for each fault (a grant whose checkpoint was not written). The bound follows because
a run state remembers at most two verification and two review attempts. `VInv`
relates edits and verifications over runs: as long as nothing crashed or failed
(`Undisturbed`), the checkpoint remembers the last verification, and an edit that was
not verified has a verification coming or a checkpoint in which none has passed.
Both are inductive together with `IInv`, not without it. The only assumption is
`LoopAssumption` on the constants.

`Approvals_proof` proves of `HttpApprovals`, for every set of runs and any number of
approvals and crashes:

* `QueueTypeCorrect`: `QueueTypeOK`;
* `AskingServed`: `AskingRunIsServed`;
* `AnswersCount`: `AcceptedAnswerCounts`;
* `RecordsTrue`: `RecordsAreTrue`;
* `AbortedRunsGetNothing`: `NoGrantAfterAbort`.

Its invariant adds to the properties what makes them inductive: where the call
of a waiting run is and that its signal is not raised (`AskingAgrees`), which
calls may still be answered (`CallAgrees`, `MapAgrees`), and that records which
were read but not yet written are true as well (`SavesAreTrue`), since a save
may write a list that was read long before. There is one lemma per action; the
action property follows from `AskingAgrees` because what is answered is in the
map and what is in the map is waited for. The only assumption is
`ApprovalsAssumption`: the bounds are natural numbers.

`PlanSessions_proof` proves, for every number of tasks, commands and crashes:

* `TypeCorrect`: `TypeOK`;
* `AnswersAreCarriedOut`: `AnswerIsCarriedOut`;
* `LinksTrue`: `LinksAreTrue`;
* `TasksKeepProtocol`: `KeepsProtocol`, that is, `PlanSessions` implements
  `PlanProtocol`.

A plan is decided on when its task is `"proposing"` or `"waiting"`, and
`AnswerAgrees` says that nothing was decided before; so what is in the queue is
undecided, which is what makes a late answer or abort harmless. A link is true
because it is written after the execution (`ExecutionAgrees`), and stays true
when an old manifest is written back because every manifest that was read holds
true links, too (`ManifestsAreTrue`). For the refinement, every action is one of
three: a decision (`DecisionStep`), a move of one actor that does not begin an
execution (`MoveStep`), or an end of several (`EndStep`). The only assumption is
`PlansAssumption`: tasks are not commands, and `"none"` is neither.

`AsyncRuns_proof` proves, for every number of runs, saves and crashes and every size
of the map:

* `TypeCorrect`: `TypeOK`;
* `ExecutingKnown`: `ExecutingIsKnown`;
* `AbortsReachRuns`: `AbortReachesRun`;
* `FilesAreNotAhead`: `FileIsNotAhead`;
* `EndsAreFinal`: `EndIsFinal`.

Its invariant ties the status of a job to its execution and its signal
(`JobFollowsExecution`): only a run that ended or was aborted is pruned, and an
aborted one that still executes has its signal raised. A save may write long after
it was serialized, so `SavesAreNotAhead` says of a text under way what
`FileIsNotAhead` says of the file, and `AbortsAreSignalled` says of the save of an
abort what its caller will conclude from it. `UnstartedIsUnknown` and
`LoadingIsStarted` keep hydration from bringing in what nobody started. The only
assumption is `RegistryAssumption`: the bounds are natural numbers.

`Tools_proof` proves, for every set of sessions, files, agents and rules and every
number of calls and changes by others:

* `BaselinesKept`: `BaselinesAreKept`;
* `ReadOnlyModesKept`: `ReadOnlyModesKeepFiles`.

What a replacement makes of a text is nothing these depend on, so `WellTyped` says
only that some set holds all texts there are. `ModesAgree`: a call that is carried
out fits the mode it is carried out in, although the mode may change before (plan
mode is entered and left by calls of the same run, one at a time); a run that
delegates waits for one subagent, whose tools write only if the run's mode lets it.
`BaselinesSafe`: as long as nobody else has changed a file, no failure to read or save it
was swallowed and no other name reads as its path, either the oldest
snapshot whose name reads as the path holds its original, or nobody has changed it and any
call that has read it has read the original. Its cases are the awaits of a file tool
between reading, saving and writing, in two sessions. The property leaves to a session
that may only read the draft of a plan, and says nothing of what an MCP server does: see
section 5. The assumptions are
`ToolsAssumption`, `PermissionsAssumption` and `CallsAssumption`: the sets of files,
modes, lines and calls fit together, and the names that stand for nobody and for
others are not those of sessions.

`Approvals_proof` proves of `Terminal`, for either surface and any number of turns,
requests and answers under way:

* `AnswersAreSeen`: `PlainAnswersAreSeen`.

An answer has a request or leaves it to the records (`AnswersAreMeant`); a turn that
asks has a session, and so has its request (`TurnsHaveSessions`); and what the modal
shows was announced (`ShownIsAnnounced`). That an answer finds a number no other
answer under way has takes a counting argument over their finite set. The only assumption is
`CoordinatorAssumption`: the bounds are natural numbers.

`Questions_proof` proves, for any runs, requests, skills, plugins and settings:

* `QueuesRight`: `QueuesAreWaits`;
* `OffersJustified`: `OfferIsJustified`;
* `NamedOffered`: `NamedSkillsAreOffered`.

The first is inductive with the shape of the variables (`Shaped`); it is proved
run by run, as the steps of one leave the entries of the others alone. The other two
need of the state only that what a run offers is what `SelectSkills` makes of its
request (`OffersMade`); the work is in the selection itself, for any number of skills
and plugins. Its loops are folds, which the module reduces to the values they pass
through (`FoldExists`, `FoldPasses`, and for each fold one lemma, `ForcedRuns` to
`WithoutRuns`): a fold is a function on the sets of places of a sequence, and induction
on the number of places is the least element of a well-founded order (`Reaches`). For
the first, no step of a fold and no filter brings in a skill that is not `Justified`,
and a single forced skill is one skill because names are distinct. For the second, a
selection is `Knowing` when its notes give every named skill 100 and any other less;
then all that are named are in after the matching (`MatchingHolds`), no gap of twenty
points and no plugin puts one out (`GapHolds`, `PluginsHold`), and when the cut drops
one, the two that are left are named as well (`TruncateKeepsNamed`). The only
assumption is `QuestionsAssumption`: lists are sequences, skills have distinct names,
since the registry is a map by name (registry.ts:12), and resemblances are percentages.

`CommandLine_proof` proves, for any shells, lines, sessions at first and bounds:

* `ModesRun`: `ExplicitModeRuns`;
* `ForksOwn`: `ForksAreOwn`;
* `DeletedStays`: `DeletedStaysDeleted`.

For modes, `ModeFits` relates the mode a command has settled to the one the line asks
for, through rewriting, skills and `--auto`. For forks it is the order of ids: a
manifest under a name is that of the name or of something older that is being copied
(`StoreInOrder`), a fork is younger than its source and than any plan it executes
(`Names`), and the manifest of a fork, on disk or held by any shell, links to nothing
older (`OwnLinks`), so a link to the source's plan or execution cannot come back with
a write that was read earlier. Two commands never own one session (`OwnSessions`).
Most steps replace the command of one shell by one that `Follows` it; the lemma
`StepKeeps` says once what such a step has to show. The only assumption is
`CommandLineAssumption`: the sessions at first name themselves and lines are made of
words.

`Conversation_proof` proves of `Transcript`, for any numbers of runs, messages, calls,
failed writes and crashes and any policy of compaction:

* `TypesRight`: `TypeOK`;
* `LogsHaveNoHoles`: `LogHasNoHoles`;
* `WindowsAreInOrder`: `WindowIsInOrder`;
* `RunsForgetNothing`: `RunForgetsNothing`.

A log without holes stays one only because of what is queued behind it, and a restored
window is in order only because of the logs it is rebuilt from, so the invariant is
about both. The file of a run is a `Beginning` of what the run said; the file and the
queue together, the `Stream` of the run under way, are all of it, unless a failed write
has just ended the run (`StreamRight`); messages are numbered in the order of saying,
over runs as well (`SaidRight`); the index names each run at most once and in order
(`IndexRight`), which is why the files of its runs, one after the other, are in order
(`LoadIs`), and so is what `Rebuild` makes of them, made-up responses and all
(`RebuildIs`). That a torn line, a torn index or a failed summary changes none of this
is a case of its own in each lemma. The only assumption is `TranscriptAssumption`: the
bounds are natural numbers, and a policy retains something.

It proves of `ModelCalls`, for any mix of endpoints, windows, answers and streams of any length and any number
of attempts:

* `CallTypesRight`: `CallsTypeOK`;
* `PayloadsAreWellFormed`: `PayloadIsWellFormed`;
* `StreamsGiveTheCallsBack`: `StreamsAreReassembled`;
* `FetchesRunOut`: every step during a fetch that does not end it lowers `Remaining`, a
  natural number (attempts, the one under way, the abort). With the fairness of
  `TimesOut` and `RetryAfterDelay` this is why `EveryFetchEnds`; TLC checks the whole.

The invariant is small (`CallsInv`: only a response has calls, only a result names one;
what is read is the next answer); the work is in the two passes over the window. What
the first has kept is `Kept`: every result answers the response before it, no call has
two, and what is still awaited are calls of the last message that is no result. What the
second has `Visited` up to a place: a response that keeps its calls has all their
results, and a response that lost them, or went, takes its results along
(`AnswersLeft`). It searches behind other messages and removes later results of other
responses with the same ids, so the proof has to show that a removal never takes a result
from a response it has already passed: in what the first pass leaves, results
stand right behind their response (`FoundBehind`). For streams, the places at which
anything arrived, in order, are all places when everything has arrived
(`AllInOrder`). The only assumption is `ModelCallsAssumption`: the bounds are positive.

The loops of both modules are folds, and are reduced to the values they pass through as
in `Questions_proof`. Filters are folds as well: `SelectSeq` is recursive inside its
definition, where the provers do not reach.

Only model-checked, and why:

* the liveness properties `RunEnds`, `EveryAskReturns`, `EveryTaskReturns`,
  `EveryFetchEnds`, `AbortEndsTurn`, `LinesAreHeard` and `AbortEndsRun`, which rest on
  fairness and ENABLED.

No module declares a RECURSIVE operator: recursion is written with folds.

## 5. Where code and documentation disagree

`confirmed`: the names of the skills a user confirmed are written to
`session.task.metadata` (skill-confirmation-resolution.ts:156), but every step reads
them from `input.task.metadata` (model-step-assembly.ts:143), which nothing writes.
A confirmed skill is never given to the selector, although capability-selector.ts:53
describes the field as "User-confirmed pending skills from session init".

The properties also draw the line around behaviour that surprises but that no
document denies:

* `OnlyKnownRejections` names the situations in which the kernel throws on work. One
  is a run after one that completed from the model's text, which left `closingTurn`
  set in `run-state.json` (model-step.ts:290); another a run after a process that
  died while calling the model or handling tools (run-state-persistence.ts:44); a
  third a failed verification in the middle of a batch, which puts the kernel in
  recovery, where it accepts neither an approval nor a verification.
* `RecordsAreTrue` does not say that a record listed as pending is one somebody waits
  for: neither an abort nor an `onPending` that throws changes the record.
* `FileIsNotAhead` does not say that an end is on disk: the save of a run's start may
  finish after the save of its abort.
* `EditsAreVerified` is about edits by file tools; a shell command may change files
  after the verification (finalize.ts:67).
* `DeletedStaysDeleted` allows an update that had read the manifest before the
  deletion to write it again (session-manifest.ts:31).
* `AbortEndsTurn` excepts the question about a plan, which is not raced with the
  abort; it, `AbortEndsRun` and `RunEnds` except a model whose answer has begun and
  never ends, which hears neither its timer nor the abort (openai-compatible.ts:372).
* `PayloadIsWellFormed` speaks of DeepSeek: for other endpoints nothing cleans a window
  with stray results or calls (openai-compatible.ts:263).
* `BaselinesAreKept` excepts files whose path has "__" in it or reads like another's
  once "/" is written "__" (file-snapshot.ts:20, session-rollback.ts:26): their revert
  goes to another file. It also excepts a file that could not be read or saved when it
  was changed, of which a revert makes an empty one.
* `ReadOnlyModesKeepFiles` is about the tools of the program. MCP tools need a mode
  that may write, but they are not among the tools that make of a subagent a writing one
  (subagent-permission.ts:3), so a session in plan mode may delegate to an agent
  that has a mode and MCP tools of its own (subagent-permission.ts:60), and the server
  it calls may change files.

## 6. Plan

1. Done: kernel and loop, the server's registry and queues, plan-first tasks,
   transcript, model calls, tools, command line, surfaces, questions; the theorems of
   section 4.
2. Done: every invariant and every action property of the runs that hold is a theorem
   (section 4). Proofs left: the steps of liveness that are not temporal; `FetchesRunOut` is the
   first; a rank for an aborted run and for an aborted turn would come next.
3. Compositions left: the registry with the queues (an abort of a registered run
   that waits), and one `session.json` under `AgentLoop`, `PlanSessions` and
   `CommandLine` together.

## 7. Not modelled

* Verification commands: detecting, running and reading external commands.
  `AgentLoop` takes any outcome of them.
* The structured plan that plan-artifact.ts extracts from a text.
* Usage, prices, metrics, token estimates; the texts of prompts, results and events.
* Printing and rendering: progress printer, transcript blocks, result summaries, the
  reducer of the TUI's panels (`tui/state.ts` beyond turns and approvals), home page.
* `cli/parse-args.ts`: an older parser that no command reaches; only its type of a
  run's arguments is used.
* Git, worktree and language server tools, and loading of configuration, hooks,
  plugins and skills from files.
* Benchmarks, evaluation, mock scenarios and scripts.
* `cancelSessionApprovals` of the approval queue, which nothing calls.
* Of plan-first tasks: worktrees, and a planning run that completes twice (an
  exception after its end), which `AgentLoop` covers. A second wait for a plan
  session that already waits would replace the first, but every task waits for the
  plan session it has just created.
* Of the registry: `FileIsNotAhead` speaks of runs whose job object this process
  created. If more runs than the map keeps end while the directory is read, an ended
  run comes back as a copy that looks running, and aborting the copy overwrites its
  file.
