----------------------------- MODULE Transcript -----------------------------
(***************************************************************************)
(* What a session remembers.  A run says messages: it keeps them in the    *)
(* window it sends to the model and publishes an event for each, which the *)
(* run store holds in memory until the end of a step.  When the window     *)
(* grows too large its head is replaced by a summary.  A later run of the  *)
(* session rebuilds the window from the event files of the runs its index  *)
(* names and from the last summary (packages/observability, packages/      *)
(* session, packages/context/src/compaction.ts, and the parts of the loop  *)
(* that push messages).  Texts are left out: a message is its number.      *)
(***************************************************************************)
EXTENDS Naturals, FiniteSets, SequencesExt, NodeFile

CONSTANTS
  Retained,         \* messages and observations a compaction leaves (policy)
  DefaultRetained,  \* the same, of the default policy, used when restoring
  Threshold,        \* size of a window at which it is compacted
  MaxCalls,         \* bound: tool calls of a model response
  MaxMessages,      \* bound: messages said in a session
  MaxRuns,          \* bound: runs of the session
  MaxFaults,        \* bound: writes that fail
  MaxCrashes        \* bound: times the process dies

ASSUME TranscriptAssumption ==
  /\ {Retained, DefaultRetained, Threshold} \subseteq Nat \ {0}
  /\ {MaxCalls, MaxMessages, MaxRuns, MaxFaults, MaxCrashes} \subseteq Nat

VARIABLES
  at,        \* the await the present run is suspended at; "down" between runs
  run,       \* number of the present or last run
  messages,  \* session.messages
  observed,  \* length of session.observations
  memo,      \* session.metadata: summary, number of compactions, blocked size
  todo,      \* tool calls of the response still to be handled
  pending,   \* RunStore.pendingLines
  log,       \* events.jsonl of each run
  index,     \* the session index: the runs of the session
  compacts,  \* compact-NNN.md, in order: the messages each summary covers
  last,      \* messages said so far
  said,      \* history: the messages each run said
  misfortune \* history: faults and crashes so far

vars == <<at, run, messages, observed, memo, todo, pending, log, index,
          compacts, last, said, misfortune>>

Runs == 1 .. MaxRuns
Places == {"down", "restored", "opened", "unclear", "step", "answered", "tools",
           "call", "ran", "verified", "fits", "summarizing", "saving", "flush", "closing"}
Sources == {"user", "assistant", "tool"}

\* A tool call is named by the response that asked for it and its position.
Calls == (1 .. MaxMessages) \X (1 .. MaxCalls)
NoCall == <<0, 0>>

Messages == [id: 0 .. MaxMessages, role: Sources, calls: SUBSET Calls,
             call: Calls \cup {NoCall}]
Kinds == {"message.user", "message.assistant", "tool.call", "tool.result",
          "recovery.triggered"}
Events == [seq: Nat, kind: Kinds, message: Messages]

Ids(ms) == {ms[i].id : i \in DOMAIN ms} \ {0}
Known == Ids(messages) \cup memo.summary

NoMemo == [summary |-> {}, count |-> 0, blocked |-> 0]

TypeOK ==
  /\ at \in Places
  /\ run \in 0 .. MaxRuns
  /\ messages \in Seq(Messages)
  /\ observed \in Nat
  /\ memo \in [summary: SUBSET (1 .. MaxMessages), count: Nat, blocked: Nat]
  /\ todo \in Seq(Calls)
  /\ pending \in Seq(Events)
  /\ log \in [Runs -> [lines: Seq(Events), torn: BOOLEAN]]
  /\ index \in [state: FileStates, content: Seq(Runs)]
  /\ compacts \in Seq(SUBSET (1 .. MaxMessages))
  /\ last \in 0 .. MaxMessages
  /\ said \in [Runs -> SUBSET (1 .. MaxMessages)]
  /\ misfortune \in [faults: 0 .. MaxFaults, crashes: 0 .. MaxCrashes]

Init ==
  /\ at = "down" /\ run = 0 /\ last = 0
  /\ messages = <<>> /\ observed = 0 /\ memo = NoMemo /\ todo = <<>>
  /\ pending = <<>>
  /\ log = [r \in Runs |-> [lines |-> <<>>, torn |-> FALSE]]
  /\ index = AbsentFile(<<>>)
  /\ compacts = <<>>
  /\ said = [r \in Runs |-> {}]
  /\ misfortune = [faults |-> 0, crashes |-> 0]

-----------------------------------------------------------------------------
(* Messages and their events.                                              *)

UserMessage(id) ==
  [id |-> id, role |-> "user", calls |-> {}, call |-> NoCall]
AssistantMessage(id, calls) ==
  [id |-> id, role |-> "assistant", calls |-> calls, call |-> NoCall]
ToolMessage(id, call) ==
  [id |-> id, role |-> "tool", calls |-> {}, call |-> call]

Kind(m) == CASE m.role = "user" -> "message.user"
             [] m.role = "assistant" -> "message.assistant"
             [] m.role = "tool" -> "tool.result"

\* EventBus.emit: numbered and queued without an await.
Emitted(queue, lines, kind, m) ==
  Append(queue, [seq |-> Len(lines) + Len(queue) + 1, kind |-> kind, message |-> m])

\* A run adds a message to the window and publishes its event.
Say(m) ==
  /\ last < MaxMessages
  /\ last' = last + 1
  /\ messages' = Append(messages, m)
  /\ pending' = Emitted(pending, log[run].lines, Kind(m), m)
  /\ said' = [said EXCEPT ![run] = @ \cup {m.id}]

-----------------------------------------------------------------------------
(* Rebuilding a conversation from events.                                  *)

ConversationKinds == {"message.user", "message.assistant", "tool.call", "tool.result"}

\* readRunEvents parses every line or gives up on the file.
ReadRunEvents(r) == IF log[r].torn THEN <<>> ELSE log[r].lines

RunIds == index.content

\* Events of other kinds are dropped, the others sorted by their numbers.
WithEvent(es, e) ==
  IF e.kind \notin ConversationKinds THEN es
  ELSE InsertAt(es, 1 + Cardinality({i \in DOMAIN es : es[i].seq <= e.seq}), e)
Conversation(events) == FoldLeft(WithEvent, <<>>, events)

\* Mutant: the numbers are taken to go on from run to run.
LoadEventsBySeq ==
  Conversation(FoldLeft(LAMBDA es, r : es \o ReadRunEvents(r), <<>>, RunIds))

WithRun(es, r) == es \o Conversation(ReadRunEvents(r))
LoadConversationEvents == FoldLeft(WithRun, <<>>, RunIds)

\* A call that was announced is part of the last message if that is a
\* response; otherwise a response without text is made up for it (number 0).
WithCall(ms, call) ==
  IF ms # <<>> /\ Last(ms).role = "assistant"
  THEN [ms EXCEPT ![Len(ms)].calls = @ \cup {call}]
  ELSE Append(ms, AssistantMessage(0, {call}))

WithMessage(ms, e) ==
  IF e.kind \notin ConversationKinds THEN ms
  ELSE IF e.kind = "tool.call" THEN WithCall(ms, e.message.call)
  ELSE Append(ms, e.message)
Rebuild(events) == FoldLeft(WithMessage, <<>>, events)

Window(s, n) == SubSeq(s, IF Len(s) > n THEN Len(s) - n + 1 ELSE 1, Len(s))
Least(m, n) == IF m < n THEN m ELSE n

ObservationsIn(ms) == Cardinality({i \in DOMAIN ms : ms[i].role = "tool"})

-----------------------------------------------------------------------------
(* A run begins: the session is created or restored, the run entered in    *)
(* the index, the task said.                                               *)

Begin ==
  /\ at = "down"
  /\ run < MaxRuns
  /\ run' = run + 1
  /\ at' = "restored"
  /\ LET rebuilt == Rebuild(LoadConversationEvents)
         compacted == compacts # <<>>
     IN  /\ messages' = IF compacted THEN Window(rebuilt, DefaultRetained) ELSE rebuilt
         /\ observed' = IF compacted THEN Least(ObservationsIn(rebuilt), DefaultRetained)
                        ELSE ObservationsIn(rebuilt)
         /\ memo' = [summary |-> IF compacted THEN Last(compacts) ELSE {},
                     count |-> Len(compacts), blocked |-> 0]
  /\ UNCHANGED <<todo, pending, log, index, compacts, last, said, misfortune>>

\* appendRunToSessionIndex reads the index, adds the run, replaces the file.
AppendToIndex ==
  /\ at = "restored"
  /\ at' = "opened"
  /\ index' = WholeFile(Append(RunIds, run))
  /\ UNCHANGED <<run, messages, observed, memo, todo, pending, log, compacts,
                 last, said, misfortune>>

SayTask ==
  /\ at = "opened"
  /\ at' \in {"step", "unclear"}
  /\ Say(UserMessage(last + 1))
  /\ UNCHANGED <<run, observed, memo, todo, log, index, compacts, misfortune>>

\* An unclear task is followed by what the user answered about it.
SayClarification ==
  /\ at = "unclear"
  /\ at' = "step"
  /\ Say(UserMessage(last + 1))
  /\ UNCHANGED <<run, observed, memo, todo, log, index, compacts, misfortune>>

-----------------------------------------------------------------------------
(* A step: the model answers, its calls are handled one by one.            *)

RespondWithCalls(n) ==
  /\ at = "step"
  /\ at' = "tools"
  /\ LET calls == [k \in 1 .. n |-> <<last + 1, k>>]
     IN  /\ Say(AssistantMessage(last + 1, Range(calls)))
         /\ todo' = calls
  /\ UNCHANGED <<run, observed, memo, log, index, compacts, misfortune>>

RespondFinally ==
  /\ at = "step"
  /\ at' = "answered"
  /\ Say(AssistantMessage(last + 1, {}))
  /\ UNCHANGED <<run, observed, memo, todo, log, index, compacts, misfortune>>

\* A review of the edits finds something to repair before the run may end.
SayReview ==
  /\ at = "answered"
  /\ at' = "flush"
  /\ Say(UserMessage(last + 1))
  /\ UNCHANGED <<run, observed, memo, todo, log, index, compacts, misfortune>>

\* The text was final, the budget is used up, or the run is rejected, aborted
\* or fails.
Stop ==
  /\ at \in {"unclear", "step", "answered", "tools", "call", "ran", "verified", "fits"}
  /\ at' = "closing"
  /\ todo' = <<>>
  /\ UNCHANGED <<run, messages, observed, memo, pending, log, index, compacts,
                 last, said, misfortune>>

AnnounceCall ==
  /\ at = "tools"
  /\ at' = "call"
  /\ pending' = Emitted(pending, log[run].lines, "tool.call",
                        ToolMessage(0, Head(todo)))
  /\ UNCHANGED <<run, messages, observed, memo, todo, log, index, compacts,
                 last, said, misfortune>>

\* persistToolResult, or the rejection that ends the run next (Stop).
PersistResult ==
  /\ at = "call"
  /\ at' = "ran"
  /\ Say(ToolMessage(last + 1, Head(todo)))
  /\ observed' = observed + 1
  /\ todo' = Tail(todo)
  /\ UNCHANGED <<run, memo, log, index, compacts, misfortune>>

\* Verification after an edit tells the model what it found.
SayVerification ==
  /\ at = "ran"
  /\ at' = "verified"
  /\ Say(UserMessage(last + 1))
  /\ UNCHANGED <<run, observed, memo, todo, log, index, compacts, misfortune>>

\* It failed and the run may still repair it.
SayRecovery ==
  /\ at = "verified"
  /\ at' = "fits"
  /\ Say(UserMessage(last + 1))
  /\ UNCHANGED <<run, observed, memo, todo, log, index, compacts, misfortune>>

\* The result of exit_plan_mode is repeated as a message, which no event tells of.
EchoPlan ==
  /\ at = "ran"
  /\ at' = "fits"
  /\ messages' = Append(messages, UserMessage(0))
  /\ UNCHANGED <<run, observed, memo, todo, pending, log, index, compacts,
                 last, said, misfortune>>

-----------------------------------------------------------------------------
(* Compaction, after every tool call.                                      *)

Size == Len(messages) + observed
ShouldCompact == Size >= Threshold

\* Mutant: the message right before the window is left out of the summary.
EvictedOneLess(n) == SubSeq(messages, 1, Len(messages) - n - 1)

EvictedBy(n) == SubSeq(messages, 1, Len(messages) - n)

\* buildCompactionSummarizeInput: what lies before the window; if nothing does
\* and the window is still too large, everything but the last message.
Evicted ==
  IF Len(messages) > Retained THEN Ids(EvictedBy(Retained))
  ELSE IF observed > Retained THEN {}
  ELSE IF Len(messages) > 1 THEN Ids(EvictedBy(1)) ELSE Ids(messages)
HasEviction == Len(messages) > Retained \/ observed > 0

AfterCall == IF todo = <<>> THEN "flush" ELSE "tools"

SkipCompaction ==
  /\ at \in {"ran", "verified", "fits"}
  /\ ~ShouldCompact \/ memo.blocked = Size \/ ~HasEviction
  /\ at' = AfterCall
  /\ UNCHANGED <<run, messages, observed, memo, todo, pending, log, index,
                 compacts, last, said, misfortune>>

StartCompaction ==
  /\ at \in {"ran", "verified", "fits"}
  /\ ShouldCompact /\ memo.blocked # Size /\ HasEviction
  /\ at' = "summarizing"
  /\ UNCHANGED <<run, messages, observed, memo, todo, pending, log, index,
                 compacts, last, said, misfortune>>

\* No summary, or an empty one: not tried again at this size.
SummaryFails ==
  /\ at = "summarizing"
  /\ at' = AfterCall
  /\ memo' = [memo EXCEPT !.blocked = Size]
  /\ UNCHANGED <<run, messages, observed, todo, pending, log, index, compacts,
                 last, said, misfortune>>

SummaryArrives ==
  /\ at = "summarizing"
  /\ at' = "saving"
  /\ UNCHANGED <<run, messages, observed, memo, todo, pending, log, index,
                 compacts, last, said, misfortune>>

\* saveCompactSummary, then applyCompaction.
ApplyCompaction ==
  /\ at = "saving"
  /\ at' = AfterCall
  /\ LET summary == memo.summary \cup Evicted
     IN  /\ compacts' = Append(compacts, summary)
         /\ memo' = [summary |-> summary, count |-> memo.count + 1, blocked |-> 0]
  /\ messages' = Window(messages, Retained)
  /\ observed' = Least(observed, Retained)
  /\ UNCHANGED <<run, todo, pending, log, index, last, said, misfortune>>

-----------------------------------------------------------------------------
(* The run store: at the end of a step and of the run the pending lines    *)
(* are appended to the file.                                               *)

AfterFlush == IF at = "flush" THEN "step" ELSE "down"

Flush ==
  /\ at \in {"flush", "closing"}
  /\ at' = AfterFlush
  /\ log' = [log EXCEPT ![run].lines = @ \o pending]
  /\ pending' = <<>>
  /\ UNCHANGED <<run, messages, observed, memo, todo, index, compacts, last,
                 said, misfortune>>

\* Mutant: the run goes on after a failed append.
FlushFailsUnnoticed ==
  /\ at \in {"flush", "closing"}
  /\ misfortune.faults < MaxFaults
  /\ misfortune' = [misfortune EXCEPT !.faults = @ + 1]
  /\ at' = AfterFlush
  /\ pending' = <<>>
  /\ UNCHANGED <<run, messages, observed, memo, todo, log, index, compacts,
                 last, said>>

\* The lines are forgotten before they are written; the exception ends the
\* run, whose end flushes again.
FlushFails ==
  /\ at \in {"flush", "closing"}
  /\ misfortune.faults < MaxFaults
  /\ misfortune' = [misfortune EXCEPT !.faults = @ + 1]
  /\ at' = IF at = "flush" THEN "closing" ELSE "down"
  /\ pending' = <<>>
  /\ UNCHANGED <<run, messages, observed, memo, todo, log, index, compacts,
                 last, said>>

\* saveCompactSummary fails when it opened the file: the run fails.
SaveFails ==
  /\ at = "saving"
  /\ misfortune.faults < MaxFaults
  /\ misfortune' = [misfortune EXCEPT !.faults = @ + 1]
  /\ at' = "closing"
  /\ compacts' = Append(compacts, {})
  /\ todo' = <<>>
  /\ UNCHANGED <<run, messages, observed, memo, pending, log, index, last, said>>

\* revertSession notes what it did in the file of the last run.
Revert ==
  /\ at = "down"
  /\ RunIds # <<>>
  /\ LET r == Last(RunIds)
         note == [seq |-> 0, kind |-> "recovery.triggered", message |-> UserMessage(0)]
     IN  /\ note \notin Range(log[r].lines)
         /\ log' = [log EXCEPT ![r].lines = Append(@, note)]
  /\ UNCHANGED <<at, run, messages, observed, memo, todo, pending, index,
                 compacts, last, said, misfortune>>

-----------------------------------------------------------------------------
(* The process dies, possibly in the middle of a write: of the index, of a *)
(* summary (which leaves an empty file), or of the event file (which       *)
(* leaves whole lines and perhaps a piece of one).                         *)

CrashLosesMemory ==
  /\ at # "down"
  /\ misfortune.crashes < MaxCrashes
  /\ misfortune' = [misfortune EXCEPT !.crashes = @ + 1]
  /\ at' = "down"
  /\ messages' = <<>> /\ observed' = 0 /\ memo' = NoMemo /\ todo' = <<>>
  /\ pending' = <<>>
  /\ UNCHANGED <<run, last, said>>

Crash == CrashLosesMemory /\ UNCHANGED <<log, index, compacts>>

CrashInIndex ==
  /\ at = "restored"
  /\ CrashLosesMemory
  /\ index' = OpenedFile(<<>>)
  /\ UNCHANGED <<log, compacts>>

CrashInSummary ==
  /\ at = "saving"
  /\ CrashLosesMemory
  /\ compacts' = Append(compacts, {})
  /\ UNCHANGED <<log, index>>

CrashInFlush ==
  /\ at \in {"flush", "closing"}
  /\ CrashLosesMemory
  /\ \E n \in 0 .. Len(pending), torn \in BOOLEAN :
       /\ torn => n < Len(pending)
       /\ log' = [log EXCEPT ![run] =
                    [lines |-> @.lines \o SubSeq(pending, 1, n), torn |-> torn]]
  /\ UNCHANGED <<index, compacts>>

-----------------------------------------------------------------------------
Next ==
  \/ Begin \/ AppendToIndex \/ SayTask \/ SayClarification
  \/ \E n \in 1 .. MaxCalls : RespondWithCalls(n)
  \/ RespondFinally \/ SayReview \/ Stop \/ AnnounceCall
  \/ PersistResult \/ SayVerification \/ SayRecovery \/ EchoPlan
  \/ SkipCompaction \/ StartCompaction \/ SummaryFails \/ SummaryArrives
  \/ ApplyCompaction \/ SaveFails
  \/ Flush \/ FlushFails \/ Revert
  \/ Crash \/ CrashInIndex \/ CrashInSummary \/ CrashInFlush

Spec == Init /\ [][Next]_vars

-----------------------------------------------------------------------------
(* What the files hold of each run has no holes: whatever fails or dies,   *)
(* what a later run reads of an earlier one is the beginning of what it    *)
(* said, so that it never reads a result without the response that asked   *)
(* for it.                                                                 *)
LogHasNoHoles ==
  \A r \in Runs :
    LET read == Ids(Rebuild(ReadRunEvents(r)))
    IN  /\ read \subseteq said[r]
        /\ \A i \in said[r], j \in read : i < j => i \in read

\* The window is in the order in which things were said, in whatever run, and
\* holds nothing twice.
WindowIsInOrder ==
  \A i, j \in DOMAIN messages :
    i < j /\ {messages[i].id, messages[j].id} \cap {0} = {} =>
      messages[i].id < messages[j].id

\* While a run lasts nothing that was said is lost: compaction, its failure
\* and everything else leave each message in the window or in the summary.
RunForgetsNothing ==
  [][at # "down" /\ at' # "down" => Known \subseteq Known']_vars
=============================================================================
