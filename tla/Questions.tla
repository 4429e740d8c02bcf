------------------------------ MODULE Questions ------------------------------
(***************************************************************************)
(* What a run asks its user before its first step, and what its steps then *)
(* offer: a vague task is clarified and a skill that matches half-way is   *)
(* confirmed (task-clarity-resolution.ts and skill-confirmation-           *)
(* resolution.ts, called by session-init.ts).  A run of the HTTP API waits *)
(* in one of the two queues of the server (http-clarify-queue.ts and http- *)
(* skill-confirm-queue.ts), which the clients of the routes answer: their  *)
(* requests may come late, twice and in any order, and a run may be        *)
(* aborted at any time.  A one-shot run of the CLI asks at its terminal;   *)
(* the REPL, the TUI and subagents have nobody to ask.                     *)
(***************************************************************************)
EXTENDS Capabilities, ToolOffer

CONSTANTS
  Runs,       \* the runs, each with its session
  Requests,   \* what a run may be asked to do: task, mode, surface, resumed, forced, marks
  Skills,     \* the registered skills, in the order of the registry
  Plugins,    \* the registered plugins
  Tools,      \* the registered tools
  Calls,      \* the tool calls that may have succeeded before a step
  Allowlist,  \* the skills the workspace's settings enable (none: all)
  NoRequest,
  MaxPosts,   \* bound: how many answers the clients send
  MaxSteps    \* bound: how many steps a run takes

IsSequence(s) == s \in Seq(Range(s))
\* Skills are registered by name, and a resemblance is a percentage.
ASSUME QuestionsAssumption ==
  /\ IsSequence(Skills) /\ IsSequence(Plugins)
  /\ \A i, j \in DOMAIN Skills : Skills[i].name = Skills[j].name => i = j
  /\ \A plugin \in Range(Plugins) : IsSequence(plugin.skills)
  /\ \A request \in Requests :
       /\ IsSequence(request.forced)
       /\ \A thing \in Range(Skills) \cup Range(Plugins) :
            {request.task.alike[thing.name], request.task.recalled[thing.name]} \subseteq 0..100

VARIABLES
  run,       \* each run
  clarifies, \* the runs with an entry in the clarify queue
  confirms,  \* the runs with an entry in the skill queue: the skill each is about
  posts,     \* the answers on their way to the server
  sent       \* how many answers were sent
vars == <<run, clarifies, confirms, posts, sent>>

NoOffer == [skills |-> <<>>, tools |-> {}, mode |-> "none", closing |-> FALSE]
Unborn == [pc |-> "unborn", request |-> NoRequest, aborted |-> FALSE, at |-> 0,
           confirmed |-> <<>>, steps |-> 0, offer |-> NoOffer]

Init ==
  /\ run = [r \in Runs |-> Unborn]
  /\ clarifies = {}
  /\ confirms = <<>>
  /\ posts = {}
  /\ sent = 0

Request(r) == run[r].request
RunPolicy(r) == SkillPolicy(Request(r).forced, Allowlist)
Asked(r) == PendingSkills(Request(r).task, Request(r).mode, Skills, RunPolicy(r))
Goes(r, pc) == run' = [run EXCEPT ![r].pc = pc]

-----------------------------------------------------------------------------
(* Clarifying the task                                                     *)

\* A run gets its request and a session, of its own or the one it resumes.
Start(r) ==
  /\ run[r].pc = "unborn"
  /\ \E request \in Requests :
       run' = [run EXCEPT ![r].pc = "started", ![r].request = request]
  /\ UNCHANGED <<clarifies, confirms, posts, sent>>

\* A run of the server has somebody to ask in every mode, one at a terminal in the modes that edit.
HasPrompter(r) ==
  \/ Request(r).surface = "http"
  \/ Request(r).surface = "tty" /\ Request(r).mode \in EditModes

\* shouldRequestClarify; marks is what the metadata of the task says.
ShouldRequestClarify(r) ==
  /\ ~Request(r).resumed
  /\ Request(r).mode \in EditModes
  /\ Request(r).surface # "subagent"
  /\ Request(r).marks \cap {"benchmark", "clarified"} = {}
  /\ IsVagueRepairTask(Request(r).task)
  /\ HasPrompter(r)

\* The status and the event are written before the question is asked.
RequestClarify(r) ==
  /\ run[r].pc = "started"
  /\ Goes(r, IF ShouldRequestClarify(r) THEN "clarify" ELSE "choose")
  /\ UNCHANGED <<clarifies, confirms, posts, sent>>

\* Mutant: an entry is made although the run was aborted before it asked.
QueueAlways(r) == TRUE
\* A prompter of the server queues nothing for an aborted run, and its wait throws.
MayQueue(r) == ~run[r].aborted

AskClarify(r) ==
  /\ run[r].pc = "clarify"
  /\ clarifies' = IF Request(r).surface = "http" /\ MayQueue(r) THEN clarifies \cup {r} ELSE clarifies
  /\ Goes(r, IF run[r].aborted THEN "failing" ELSE "clarifying")
  /\ UNCHANGED <<confirms, posts, sent>>

\* An empty answer is a skipped question; both go on.
Clarified(r) == [run EXCEPT ![r].pc = "clarified"]

AtTerminal(r) == Request(r).surface = "tty"
TypeClarification(r) ==
  /\ run[r].pc = "clarifying" /\ AtTerminal(r)
  /\ run' = Clarified(r)
  /\ UNCHANGED <<clarifies, confirms, posts, sent>>

\* The status, the event, and the answer as a message of the user.
TakeClarification(r) ==
  /\ run[r].pc = "clarified"
  /\ Goes(r, "choose")
  /\ UNCHANGED <<clarifies, confirms, posts, sent>>

-----------------------------------------------------------------------------
(* Confirming skills: one question after the other, all with one id        *)

\* The k-th question of a run, or its end; the next question follows the last answer
\* without anything in between.
Question(r, k, confirmed) ==
  [run EXCEPT ![r].at = k, ![r].confirmed = confirmed,
              ![r].pc = IF k <= Len(Asked(r)) THEN "confirming" ELSE "confirmed"]
Queued(r, k) ==
  LET asks == Request(r).surface = "http" /\ k <= Len(Asked(r)) IN
    [q \in (DOMAIN confirms \ {r}) \cup (IF asks THEN {r} ELSE {}) |->
       IF q = r THEN Asked(r)[k].name ELSE confirms[q]]

\* Nobody is asked of a resumed run, of one with forced skills, or for want of a skill or
\* a prompter; otherwise the status and the event are written.
RequestConfirm(r) ==
  /\ run[r].pc = "choose"
  /\ Goes(r, IF Request(r).resumed \/ Asked(r) = <<>> \/ ~HasPrompter(r)
             THEN "stepping" ELSE "confirm")
  /\ UNCHANGED <<clarifies, confirms, posts, sent>>

AskConfirm(r) ==
  /\ run[r].pc = "confirm"
  /\ IF run[r].aborted THEN Goes(r, "failing") ELSE run' = Question(r, 1, <<>>)
  /\ confirms' = IF MayQueue(r) THEN Queued(r, 1) ELSE confirms
  /\ UNCHANGED <<clarifies, posts, sent>>

\* The answer to the question a run is at.
Confirmed(r, yes) ==
  IF yes THEN Append(run[r].confirmed, Asked(r)[run[r].at].name) ELSE run[r].confirmed

TypeConfirmation(r) ==
  /\ run[r].pc = "confirming" /\ AtTerminal(r)
  /\ \E yes \in BOOLEAN : run' = Question(r, run[r].at + 1, Confirmed(r, yes))
  /\ UNCHANGED <<clarifies, confirms, posts, sent>>

\* What the user confirmed is written to the session's task.
TakeConfirmations(r) ==
  /\ run[r].pc = "confirmed"
  /\ Goes(r, "stepping")
  /\ UNCHANGED <<clarifies, confirms, posts, sent>>

-----------------------------------------------------------------------------
(* The routes: a client answers what it saw in the list or in an event     *)

Post(r, about, yes, copies) == [run |-> r, about |-> about, yes |-> yes, copies |-> copies]

\* A client sends an answer, and sends it again when it hears nothing in time.
SendAnswer(r) ==
  /\ sent < MaxPosts
  /\ \E about \in (IF r \in clarifies THEN {"clarify"} ELSE {})
                   \cup (IF r \in DOMAIN confirms THEN {confirms[r]} ELSE {}),
        yes \in BOOLEAN, copies \in 1..2 :
       posts' = posts \cup {Post(r, about, yes, copies)}
  /\ sent' = sent + 1
  /\ UNCHANGED <<run, clarifies, confirms>>

Delivered(post) ==
  posts' = (posts \ {post})
             \cup (IF post.copies = 1 THEN {} ELSE {[post EXCEPT !.copies = 1]})

DeliverClarification(post) ==
  /\ post.about = "clarify"
  /\ Delivered(post)
  /\ IF post.run \in clarifies
     THEN clarifies' = clarifies \ {post.run} /\ run' = Clarified(post.run)
     ELSE UNCHANGED <<clarifies, run>>
  /\ UNCHANGED <<confirms, sent>>

\* The id does not say which skill is meant: an answer goes to the skill asked about now.
DeliverConfirmation(post) ==
  /\ post.about # "clarify"
  /\ Delivered(post)
  /\ LET r == post.run
         next == run[r].at + 1 IN
       IF r \in DOMAIN confirms
       THEN confirms' = Queued(r, next) /\ run' = Question(r, next, Confirmed(r, post.yes))
       ELSE UNCHANGED <<confirms, run>>
  /\ UNCHANGED <<clarifies, sent>>

-----------------------------------------------------------------------------
(* Steps and ends                                                          *)

\* The confirmed skills a step knows are those of the input's task, where nothing writes them.
KnownConfirmed(r) == <<>>

MutationsGated(r, calls, modified) ==
  ShouldGateFileMutations(Request(r).task, Request(r).mode, Request(r).surface = "subagent",
                          Evidence(calls), modified)

\* assembleModelStep: the mode is plan while plan mode is on.
StepOffer(r, planning, closing, gated) ==
  LET mode == IF planning THEN "plan" ELSE Request(r).mode
      shown == SelectTools(Tools, Request(r).mode, planning, closing, gated)
      selected == SelectSkills(Request(r).task, mode, Skills, Plugins, RunPolicy(r),
                               KnownConfirmed(r), closing) IN
    [skills |-> selected, tools |-> OfferedTools(selected, shown), mode |-> mode,
     closing |-> closing]

Offer(r, offer) ==
  run' = [run EXCEPT ![r].steps = @ + 1, ![r].offer = offer, ![r].pc = "calling"]

\* A step comes after any calls, with or without changed files; it then awaits the model.
ModelStep(r) ==
  /\ run[r].pc = "stepping" /\ ~run[r].aborted /\ run[r].steps < MaxSteps
  /\ \E planning, closing \in BOOLEAN,
        gated \in {MutationsGated(r, calls, modified) : calls \in SUBSET Calls, modified \in BOOLEAN} :
       /\ planning => Request(r).mode \in EditModes
       /\ Offer(r, StepOffer(r, planning, closing, gated))
  /\ UNCHANGED <<clarifies, confirms, posts, sent>>

\* The model asks for tools, and they are run.
ModelReplies(r) ==
  /\ run[r].pc = "calling"
  /\ Goes(r, "stepping")
  /\ UNCHANGED <<clarifies, confirms, posts, sent>>

\* The run ends by itself, with the model's answer or failure, at the step that sees the
\* abort, or by what its wait threw.
End(r) ==
  /\ \/ run[r].pc = "stepping" /\ (run[r].steps > 0 \/ run[r].aborted)
     \/ run[r].pc \in {"calling", "failing"}
  /\ run' = [run EXCEPT ![r] = [Unborn EXCEPT !.pc = "ended", !.aborted = run[r].aborted]]
  /\ UNCHANGED <<clarifies, confirms, posts, sent>>

\* Mutant: a wait does not hear the abort.
DeafWait(r) == run[r].pc
\* The queue answers its entry first, but the wait has thrown by then.
AbortedWait(r) == IF run[r].pc \in {"clarifying", "confirming"} THEN "failing" ELSE run[r].pc

\* asyncRunManager.abort, or the client of a stream goes away.
Abort(r) ==
  /\ run[r].pc \notin {"unborn", "ended"} /\ Request(r).surface = "http" /\ ~run[r].aborted
  /\ run' = [run EXCEPT ![r].aborted = TRUE, ![r].pc = AbortedWait(r)]
  /\ clarifies' = clarifies \ {r}
  /\ confirms' = Restrict(confirms, DOMAIN confirms \ {r})
  /\ UNCHANGED <<posts, sent>>

RunStep(r) ==
  \/ RequestClarify(r) \/ AskClarify(r) \/ TakeClarification(r) \/ RequestConfirm(r) \/ AskConfirm(r)
  \/ TakeConfirmations(r) \/ ModelReplies(r) \/ End(r)
Next ==
  \/ \E r \in Runs : \/ Start(r) \/ RunStep(r) \/ ModelStep(r) \/ Abort(r)
                     \/ TypeClarification(r) \/ TypeConfirmation(r) \/ SendAnswer(r)
  \/ \E post \in posts : DeliverClarification(post) \/ DeliverConfirmation(post)

\* A run goes on by itself, except while it awaits the model, of which nothing is assumed: a
\* body that never comes hears neither the timer nor the abort.  Nothing is assumed of the
\* users, the clients and the network either.
Spec == Init /\ [][Next]_vars /\ \A r \in Runs : WF_vars(run[r].pc # "calling" /\ RunStep(r))

-----------------------------------------------------------------------------
(* Properties                                                              *)

\* The type invariant: where a run may be, and what the queues and the requests hold.
TypeOK ==
  /\ \A r \in Runs :
       /\ run[r].pc \in {"unborn", "started", "clarify", "clarifying", "clarified", "choose",
                         "confirm", "confirming", "confirmed", "stepping", "calling", "failing",
                         "ended"}
       /\ run[r].pc \notin {"unborn", "ended"} =>
            Request(r) \in Requests /\ run[r].at \in 0..Len(Asked(r)) + 1
       /\ run[r].steps \in 0..MaxSteps
  /\ clarifies \subseteq Runs /\ DOMAIN confirms \subseteq Runs
  /\ sent \in 0..MaxPosts /\ Cardinality(posts) <= sent

\* An entry of a queue is a run that waits at that very question and may still go on, and
\* every run of the server that waits has its entry: nothing is left over in the lists the
\* clients see, and no run waits for an answer nobody can give.
QueuesAreWaits ==
  \A r \in Runs :
    LET waits(pc) == run[r].pc = pc /\ ~run[r].aborted /\ Request(r).surface = "http" IN
      /\ r \in clarifies <=> waits("clarifying")
      /\ r \in DOMAIN confirms <=> waits("confirming")
      /\ r \in DOMAIN confirms => confirms[r] = Asked(r)[run[r].at].name

\* What a step offers was asked for: a skill that only matches half-way is not used without
\* the user's yes, one the mode forbids is never used, with forced skills nothing else is,
\* and a single forced skill that lists its tools leaves the model no other.
OfferIsJustified ==
  \A r \in Runs : \A skill \in Range(run[r].offer.skills) :
    /\ SkillAllowed(skill, run[r].offer.mode)
    /\ Len(Request(r).forced) = 1 => skill.tools = {} \/ run[r].offer.tools \subseteq skill.tools
    /\ IF Request(r).forced # <<>> THEN skill.name \in Range(Request(r).forced)
       ELSE \/ ScoreSkill(Request(r).task, skill).score >= 80
            \/ skill.name \in Range(run[r].confirmed)
            \/ \E plugin \in Range(Plugins) :
                 plugin.name \in Request(r).task.names /\ skill.name \in Range(plugin.skills)

\* A skill the user names is used unless the settings, the mode or forced skills forbid it
\* or the places are taken by other skills that are named: no plugin's skill, no match by
\* file type and no gap between scores puts it out.
NamedSkillsAreOffered ==
  \A r \in Runs :
    LET offer == run[r].offer
        named == {skill \in Range(Skills) :
          /\ skill.name \in Request(r).task.names /\ Enabled(skill.name, Allowlist)
          /\ SkillAllowed(skill, offer.mode)} IN
      run[r].steps > 0 /\ ~offer.closing /\ Request(r).forced = <<>> =>
        \/ named \subseteq Range(offer.skills)
        \/ Len(offer.skills) = RunPolicy(r).most /\ Range(offer.skills) \subseteq named

\* An aborted run ends whichever question it waits with and whoever does not answer, unless it
\* awaits an answer of the model that never comes.
AbortEndsRun ==
  \A r \in Runs : run[r].aborted ~> (run[r].pc = "ended" \/ [](run[r].pc = "calling"))

\* A skill the user confirmed is used: "User-confirmed pending skills from session init" are
\* what the selector takes besides those it finds itself.
ConfirmedSkillsAreOffered ==
  \A r \in Runs :
    LET offer == run[r].offer IN
      run[r].steps > 0 /\ ~offer.closing /\ Len(offer.skills) < RunPolicy(r).most =>
        \A skill \in Range(Skills) :
          skill.name \in Range(run[r].confirmed) /\ SkillAllowed(skill, offer.mode) =>
            skill \in Range(offer.skills)
=============================================================================
