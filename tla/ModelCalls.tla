----------------------------- MODULE ModelCalls -----------------------------
(***************************************************************************)
(* The calls a session makes to a model behind an OpenAI compatible        *)
(* endpoint (packages/models): the window of messages goes on the wire,    *)
(* cleaned for an endpoint of DeepSeek and as it is for any other, the     *)
(* request is tried a few times, the answer is read as a whole or put      *)
(* together from a stream, and its tool calls become part of the window,   *)
(* answered or not, when the next request is made.                         *)
(***************************************************************************)
EXTENDS Integers, FiniteSets, SequencesExt

CONSTANTS
  RequestKinds,  \* the requests considered: to DeepSeek or not, streamed, with tools
  MaxAttempts,   \* getDefaultMaxAttempts()
  MaxToolCalls,  \* bound: tool calls the server asks for in one answer
  MaxParts,      \* bound: pieces the arguments of a call are streamed in
  MaxWindow,     \* bound: length of the window when a request is made
  MaxRequests    \* bound: answered requests of the session

\* What is settled when a request is made.
Requests == [isDeepSeek: BOOLEAN, stream: BOOLEAN, tools: BOOLEAN]
NoRequest == [isDeepSeek |-> FALSE, stream |-> FALSE, tools |-> FALSE]

ASSUME ModelCallsAssumption ==
  /\ {MaxAttempts, MaxToolCalls, MaxParts, MaxWindow, MaxRequests} \subseteq Nat \ {0}
  /\ RequestKinds \subseteq Requests

VARIABLES
  waitsFor,  \* what the session is waiting for
  window,    \* session.messages
  toHandle,  \* tool calls of the last answer not handled yet
  request,   \* the request under way: whether it goes to DeepSeek, streams, offers tools
  attempt,   \* attempt of fetchWithRetry
  aborted,   \* the abort signal of the run, and whether its reason is an error
  script,    \* what the server is answering
  acc,       \* OpenAIStreamAccumulator: what arrived of each part of it
  answers    \* requests answered so far

callVars == <<waitsFor, window, toHandle, request, attempt, aborted, script, acc, answers>>

Waits == {"idle", "fetching", "backoff", "streaming", "reading", "handling", "failed"}

\* Ids of tool calls: the server's name the answer and the call; those the
\* client invents name only the place in the answer and repeat.
StreamToolCall == 0
NamelessToolCall == -1
JsonAction == -2
ToolCallIds == (JsonAction .. MaxRequests) \X (1 .. MaxToolCalls)
NoId == <<0, 0>>

WindowMessages == [role: {"user", "assistant", "tool"}, calls: SUBSET ToolCallIds,
             id: ToolCallIds \cup {NoId}, text: BOOLEAN]
FromUser == [role |-> "user", calls |-> {}, id |-> NoId, text |-> TRUE]
FromTool(id) == [role |-> "tool", calls |-> {}, id |-> id, text |-> TRUE]
FromModel(ids, text) ==
  [role |-> "assistant", calls |-> ids, id |-> NoId, text |-> text]

\* What a server may answer: a text, maybe one that spells a tool call in its
\* words, and tool calls in pieces, which it names or not.
Scripts == [text: {"none", "plain", "markup"}, named: BOOLEAN,
            parts: UNION {[1 .. n -> 1 .. MaxParts] : n \in 0 .. MaxToolCalls}]
NoScript == [text |-> "none", named |-> FALSE, parts |-> <<>>]
NothingOf(s) == [text |-> FALSE, parts |-> [k \in DOMAIN s.parts |-> 0]]
AllOf(s) == [text |-> s.text # "none", parts |-> s.parts]

\* The CLI and the server abort with an error of their own; a signal that is aborted
\* without a reason has the platform's AbortError.
Aborts == {"no", "error", "AbortError"}

ToolCalls == [id: ToolCallIds, arguments: {"given", "empty"}]
IdsOf(calls) == {calls[k].id : k \in DOMAIN calls}

CallsTypeOK ==
  /\ waitsFor \in Waits
  /\ window \in Seq(WindowMessages)
  /\ toHandle \in Seq(ToolCalls)
  /\ request \in Requests
  /\ attempt \in 0 .. MaxAttempts
  /\ aborted \in Aborts
  /\ script \in Scripts
  /\ acc.text \in {FALSE, script.text # "none"}
  /\ DOMAIN acc.parts = DOMAIN script.parts
  /\ \A k \in DOMAIN acc.parts : acc.parts[k] \in 0 .. script.parts[k]
  /\ answers \in 0 .. MaxRequests

CallsInit ==
  /\ waitsFor = "idle"
  /\ window = <<FromUser>>
  /\ toHandle = <<>>
  /\ request = NoRequest
  /\ attempt = 0
  /\ aborted = "no"
  /\ script = NoScript
  /\ acc = NothingOf(NoScript)
  /\ answers = 0

\* The numbers up to n, and those of them that are in a set, in order.
UpTo(n) == [i \in 1 .. n |-> i]
Ascending(S, n) ==
  FoldLeft(LAMBDA places, i : IF i \in S THEN Append(places, i) ELSE places, <<>>, UpTo(n))

-----------------------------------------------------------------------------
(* sanitizeDeepSeekMessages: the endpoint rejects tool results without     *)
(* their calls and calls without their results.                            *)

\* Mutant: the calls of a response stay pending when something else is saying.
WithoutUnaskedResults(ms) ==
  LET Keep(state, m) ==
        IF m.role # "tool"
        THEN [out |-> Append(state.out, m), pending |-> state.pending \cup m.calls]
        ELSE IF m.id \in state.pending
             THEN [out |-> Append(state.out, m), pending |-> state.pending \ {m.id}]
             ELSE state
  IN  FoldLeft(Keep, [out |-> <<>>, pending |-> {}], ms).out

\* First pass: a result is kept if the last message before it that is no
\* result asked for it and no other result was kept for that call.
KeepResult(state, m) ==
  IF m.role # "tool" THEN [out |-> Append(state.out, m), pending |-> m.calls]
  ELSE IF m.id \in state.pending
       THEN [out |-> Append(state.out, m), pending |-> state.pending \ {m.id}]
       ELSE state
WithoutStrayResults(ms) == FoldLeft(KeepResult, [out |-> <<>>, pending |-> {}], ms).out

\* The ids of what stands between a response and the next one.
FoundIds(ms, i, gone) ==
  {ms[j].id : j \in {j \in (i + 1 .. Len(ms)) \ gone :
     \A k \in (i + 1 .. j) \ gone : ms[k].role # "assistant"}}

\* Second pass: a response one of whose calls has no result before the next
\* response loses its calls, and all later results for any of them go, be it
\* another response that asked for them.
Visit(ms, state, i) ==
  IF i \in state.gone \/ ms[i].calls \subseteq FoundIds(ms, i, state.gone) THEN state
  ELSE [bare |-> state.bare \cup {i},
        gone |-> state.gone
          \cup {j \in i + 1 .. Len(ms) : ms[j].id \in ms[i].calls}
          \cup (IF ms[i].text THEN {} ELSE {i})]

StripOrphanedToolRounds(ms) ==
  LET end == FoldLeft(LAMBDA state, i : Visit(ms, state, i), [bare |-> {}, gone |-> {}],
                      UpTo(Len(ms)))
      kept == Ascending(DOMAIN ms \ end.gone, Len(ms))
  IN  [k \in DOMAIN kept |->
         IF kept[k] \in end.bare THEN [ms[kept[k]] EXCEPT !.calls = {}] ELSE ms[kept[k]]]

-----------------------------------------------------------------------------
(* What is said around the window when a step asks its model.              *)

FromSystem == [role |-> "system", calls |-> {}, id |-> NoId, text |-> TRUE]

\* DefaultContextManager.build: the prompt, the window, and a summary of what was forgotten.
ContextMessages(summarised) ==
  <<FromSystem>> \o window \o (IF summarised THEN <<FromSystem>> ELSE <<>>)

\* buildStepAssembly: the closing turn, the scope of the task and the gate are said last.
Advised(ms, advised) == ms \o (IF advised THEN <<FromSystem>> ELSE <<>>)

\* injectCapabilityContextBlocks: before the first thing a user said, wherever that is now.
WithCapabilities(ms) ==
  LET users == {i \in DOMAIN ms : ms[i].role = "user"} IN
    InsertAt(ms, IF users = {} THEN Len(ms) + 1 ELSE Min(users), FromSystem)

\* assembleModelStep, with any of the three.
Said == [summarised: BOOLEAN, advised: BOOLEAN, skills: BOOLEAN]
Assembled(saying) ==
  LET ms == Advised(ContextMessages(saying.summarised), saying.advised) IN
    IF saying.skills THEN WithCapabilities(ms) ELSE ms

\* buildPayload: the messages of the request under way, cleaned only when the base URL is
\* DeepSeek's; the window does not change meanwhile.
Payload(saying) ==
  LET ms == Assembled(saying) IN
    IF request.isDeepSeek THEN StripOrphanedToolRounds(WithoutStrayResults(ms)) ELSE ms

\* A call that is over leaves nothing behind.
CallOver ==
  /\ request' = NoRequest
  /\ attempt' = 0
  /\ script' = NoScript
  /\ acc' = NothingOf(NoScript)

-----------------------------------------------------------------------------
(* fetchWithRetry.                                                         *)

Send(kind) ==
  /\ waitsFor = "idle"
  /\ Len(window) <= MaxWindow
  /\ waitsFor' = "fetching"
  /\ request' = kind
  /\ attempt' = 1
  /\ UNCHANGED <<window, toHandle, aborted, script, acc, answers>>

\* The headers arrive: the timer and the abort signal are let go of.
Answered(s) ==
  /\ waitsFor = "fetching"
  /\ aborted = "no"
  /\ answers < MaxRequests
  /\ waitsFor' = IF request.stream THEN "streaming" ELSE "reading"
  /\ script' = s
  /\ acc' = NothingOf(s)
  /\ UNCHANGED <<window, toHandle, request, attempt, aborted, answers>>

\* The call fails for good, and the run with it.
GiveUp ==
  /\ waitsFor' = "failed"
  /\ CallOver
  /\ UNCHANGED <<window, toHandle, aborted, answers>>

\* An error of which another attempt may get the better, if there is one left.
RetryOrGiveUp ==
  \/ /\ attempt < MaxAttempts
     /\ waitsFor' = "backoff"
     /\ UNCHANGED <<window, toHandle, request, attempt, aborted, script, acc, answers>>
  \/ /\ attempt = MaxAttempts
     /\ GiveUp

\* The endpoint cannot be reached, or answers 429 or 5xx.
FailsForNow == waitsFor = "fetching" /\ aborted = "no" /\ RetryOrGiveUp

\* Any other status.
Refused == waitsFor = "fetching" /\ aborted = "no" /\ GiveUp

\* The timer rejects the fetch with a plain error, which is not tried again.
TimesOut == waitsFor = "fetching" /\ GiveUp

\* The signal of the run rejects it with its reason: an error ends the call, an AbortError
\* becomes a network error, and the next attempt finds the signal aborted.
AbortedFetch ==
  /\ waitsFor = "fetching"
  /\ \/ aborted = "error" /\ GiveUp
     \/ aborted = "AbortError" /\ RetryOrGiveUp

\* Mutant: the attempts are not counted.
RetryUncounted ==
  /\ waitsFor = "backoff"
  /\ waitsFor' = "fetching"
  /\ UNCHANGED <<window, toHandle, request, attempt, aborted, script, acc, answers>>

\* sleep() does not look at the signal; the next attempt does.
RetryAfterDelay ==
  /\ waitsFor = "backoff"
  /\ waitsFor' = "fetching"
  /\ attempt' = attempt + 1
  /\ UNCHANGED <<window, toHandle, request, aborted, script, acc, answers>>

-----------------------------------------------------------------------------
(* Answers.                                                                *)

\* sanitizeModelResponse, and model-step.ts: a response becomes part of the
\* window and its calls are handled; those to tools that were not offered are
\* dropped.
Complete(calls, text) ==
  LET taken == IF request.tools THEN calls ELSE <<>>
  IN  /\ window' = Append(window, FromModel(IdsOf(taken), text))
      /\ toHandle' = taken
      /\ waitsFor' = "handling"
      /\ answers' = answers + 1
      /\ CallOver
      /\ UNCHANGED aborted

ToolCall(k, inventor, arguments) ==
  [id |-> IF script.named THEN <<answers + 1, k>> ELSE <<inventor, k>>,
   arguments |-> arguments]

\* normalizeOpenAIResponse: a call spelled in the text counts if there is no
\* other.
NormalizedToolCalls ==
  IF script.parts = <<>> /\ script.text = "markup"
  THEN <<[id |-> <<JsonAction, 1>>, arguments |-> "given"]>>
  ELSE [k \in DOMAIN script.parts |-> ToolCall(k, NamelessToolCall, "given")]

ReadAnswer ==
  /\ waitsFor = "reading"
  /\ Complete(NormalizedToolCalls, script.text = "plain")

\* The abort signal is looked at when a chunk arrives.
ApplyChunk ==
  /\ waitsFor = "streaming"
  /\ aborted = "no"
  /\ \/ /\ acc.text # (script.text # "none")
        /\ acc' = [acc EXCEPT !.text = TRUE]
     \/ \E k \in DOMAIN script.parts :
          /\ acc.parts[k] < script.parts[k]
          /\ acc' = [acc EXCEPT !.parts[k] = @ + 1]
  /\ UNCHANGED <<waitsFor, window, toHandle, request, attempt, aborted, script, answers>>

AbortSeen ==
  /\ waitsFor = "streaming"
  /\ aborted # "no"
  /\ acc # AllOf(script)
  /\ GiveUp

\* Mutant: a call counts from its second piece on.
BuiltLongToolCalls ==
  LET arrived == Ascending({k \in DOMAIN acc.parts : acc.parts[k] > 1}, Len(acc.parts))
  IN  [i \in DOMAIN arrived |-> ToolCall(arrived[i], StreamToolCall, "given")]

\* buildToolCalls: the calls some piece of which arrived, by index; arguments
\* that do not parse count as none.  A call spelled in the text is stripped
\* from it and lost.
BuiltToolCalls ==
  LET arrived == Ascending({k \in DOMAIN acc.parts : acc.parts[k] > 0}, Len(acc.parts))
  IN  [i \in DOMAIN arrived |->
         ToolCall(arrived[i], StreamToolCall,
                  IF acc.parts[arrived[i]] = script.parts[arrived[i]]
                  THEN "given" ELSE "empty")]

BuildResponse == Complete(BuiltToolCalls, acc.text /\ script.text = "plain")

Done == waitsFor = "streaming" /\ acc = AllOf(script) /\ BuildResponse

\* A stream that ends without [DONE] is taken as it is.
EndsEarly == waitsFor = "streaming" /\ acc # AllOf(script) /\ BuildResponse

\* The connection is reset, or a chunk or the body does not parse.
BreaksOff == waitsFor \in {"streaming", "reading"} /\ GiveUp

-----------------------------------------------------------------------------
(* The session around the calls.                                           *)

\* The next call of the batch is answered; a verification after an edit, or an
\* accepted plan, says something at once.
HandleCall(n) ==
  /\ waitsFor = "handling"
  /\ toHandle # <<>>
  /\ window' = Append(window, FromTool(Head(toHandle).id))
                 \o [i \in 1 .. n |-> FromUser]
  /\ toHandle' = Tail(toHandle)
  /\ UNCHANGED <<waitsFor, request, attempt, aborted, script, acc, answers>>

\* The run is aborted or dies: the other calls of the batch stay unanswered.
AbandonCalls ==
  /\ waitsFor = "handling"
  /\ toHandle # <<>>
  /\ waitsFor' = "failed"
  /\ toHandle' = <<>>
  /\ UNCHANGED <<window, request, attempt, aborted, script, acc, answers>>

NextStep ==
  /\ waitsFor = "handling"
  /\ toHandle = <<>>
  /\ waitsFor' = "idle"
  /\ UNCHANGED <<window, toHandle, request, attempt, aborted, script, acc, answers>>

\* The next run of the session, or a run after its answer was final.
BeginTask ==
  /\ waitsFor \in {"idle", "failed"}
  /\ Len(window) < MaxWindow
  /\ waitsFor' = "idle"
  /\ window' = Append(window, FromUser)
  /\ aborted' = "no"
  /\ UNCHANGED <<toHandle, request, attempt, script, acc, answers>>

\* applyCompactionWindowRetain, and the window a session is restored with.
Forget(n) ==
  /\ waitsFor = "idle"
  /\ window' = SubSeq(window, n + 1, Len(window))
  /\ UNCHANGED <<waitsFor, toHandle, request, attempt, aborted, script, acc, answers>>

Abort(reason) ==
  /\ waitsFor \notin {"idle", "failed"}
  /\ aborted = "no"
  /\ aborted' = reason
  /\ UNCHANGED <<waitsFor, window, toHandle, request, attempt, script, acc, answers>>

CallsNext ==
  \/ \E kind \in RequestKinds : Send(kind)
  \/ \E s \in Scripts : Answered(s)
  \/ FailsForNow \/ Refused \/ TimesOut \/ AbortedFetch \/ RetryAfterDelay
  \/ ReadAnswer \/ ApplyChunk \/ AbortSeen \/ Done \/ EndsEarly \/ BreaksOff
  \/ \E n \in 0 .. 2 : HandleCall(n)
  \/ AbandonCalls \/ NextStep \/ BeginTask
  \/ \E reason \in {"error", "AbortError"} : Abort(reason)
  \/ \E n \in 1 .. Len(window) - 1 : Forget(n)

\* The timer and the delay are the client's own; nothing is assumed of the
\* server, of the user or of the tools.
CallsSpec ==
  CallsInit /\ [][CallsNext]_callVars /\ WF_callVars(TimesOut) /\ WF_callVars(RetryAfterDelay)

-----------------------------------------------------------------------------
(* Whatever was cut off the window, left unanswered, said in between or    *)
(* answered under an id that was used before, an endpoint of DeepSeek gets *)
(* every tool result right after the response that asked for it, and every *)
(* call of a response with its result, whatever else is said to the model. *)
(* Nothing of the kind holds of other endpoints, which get the window.     *)
PayloadIsWellFormed ==
  waitsFor = "fetching" /\ request.isDeepSeek => \A saying \in Said :
    LET ms == Payload(saying)
        Block(i) == {j \in i + 1 .. Len(ms) : \A k \in i + 1 .. j : ms[k].role = "tool"}
    IN  /\ \A i \in DOMAIN ms : ms[i].calls \subseteq {ms[j].id : j \in Block(i)}
        /\ \A j \in DOMAIN ms : ms[j].role = "tool" =>
             \E i \in 1 .. j - 1 : j \in Block(i) /\ ms[j].id \in ms[i].calls
        /\ \A i \in DOMAIN ms : \A j, k \in Block(i) : ms[j].id = ms[k].id => j = k

\* A stream that came to its end becomes the calls the server asked for, each
\* with its own arguments, in whatever order their pieces arrived.
StreamsAreReassembled ==
  [][waitsFor = "streaming" /\ waitsFor' = "handling" /\ acc = AllOf(script) /\ request.tools
     => /\ Len(toHandle') = Len(script.parts)
        /\ \A k \in DOMAIN toHandle' : /\ toHandle'[k].id[2] = k
                                       /\ toHandle'[k].arguments = "given"]_callVars

\* Before its headers arrive, no call hangs: the attempts and the delays between
\* them come to an end whatever the server does.
EveryFetchEnds == waitsFor \in {"fetching", "backoff"} ~> waitsFor \notin {"fetching", "backoff"}

=============================================================================
