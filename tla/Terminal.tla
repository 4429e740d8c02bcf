------------------------------ MODULE Terminal ------------------------------
(***************************************************************************)
(* The two interactive surfaces of the CLI: the REPL                       *)
(* (src/apps/cli/src/interactive/repl.ts over ui/terminal-composer.ts) and *)
(* the full-screen TUI (src/apps/cli/src/tui/app.ts).  The user types      *)
(* tasks, answers and slash commands while a turn runs, asks for approvals *)
(* through ApprovalCoordinator and may ask for the approval of a plan; all *)
(* of them run on one event loop and interleave at every await.  A turn is *)
(* what AgentLoop models; here it works, asks, and ends.                   *)
(***************************************************************************)
EXTENDS ApprovalCoordinator

CONSTANT Surfaces   \* the surfaces considered: "repl", "tui"

VARIABLES
  surface,    \* the one that was started
  busy,       \* REPL: lineBusy, the handler of a line has not returned
  resuming,   \* REPL: the session whose manifest /resume reads
  sessionId,  \* state.sessionId: what the next turn goes on with
  turns,      \* the turns, in the order they are started
  active,     \* activeTurnPromise with its controller: the number of a turn, or 0
  shown       \* TUI: pendingApproval, the request the modal shows, or 0
coordinatorVars == <<root, reqs, always, answers>>
vars == <<root, reqs, always, answers, surface, busy, resuming, sessionId, turns, active, shown>>

NoTurn == 0
Turn ==
  [pc : {"preparing", "working", "asking", "aborting", "planning", "over"}, aborted : BOOLEAN,
   session : Sessions \cup {NoSession}, home : Roots]

\* The type invariant: the coordinator's state, the turns and what the surface remembers.
TypeOK ==
  /\ CoordinatorTypeOK
  /\ surface \in Surfaces /\ busy \in BOOLEAN
  /\ {resuming, sessionId} \subseteq Sessions \cup {NoSession}
  /\ turns \in Seq(Turn) /\ Len(turns) <= MaxTurns
  /\ active \in DOMAIN turns \cup {NoTurn}
  /\ shown \in DOMAIN reqs \cup {NoRequest}

Init ==
  /\ CoordinatorInit
  /\ surface \in Surfaces
  /\ busy = FALSE
  /\ resuming = NoSession /\ sessionId = NoSession
  /\ turns = <<>> /\ active = NoTurn
  /\ shown = NoRequest

Repl == surface = "repl"
At(t, pc) == t \in DOMAIN turns /\ turns[t].pc = pc
Goes(t, pc) == turns' = [turns EXCEPT ![t].pc = pc]
\* The last request of a turn: it has one at a time.
Asked(t) ==
  {r \in DOMAIN reqs : reqs[r].turn = t /\ \A q \in DOMAIN reqs : reqs[q].turn = t => q <= r}
Planning == {t \in DOMAIN turns : turns[t].pc = "planning"}
BegunSessions == {turns[t].session : t \in DOMAIN turns} \ {NoSession}

-----------------------------------------------------------------------------
(* A turn                                                                  *)

\* The start of a turn.  Its session and its workspace are read only after the loop was
\* created (BeginRun).
Submit ==
  /\ active = NoTurn /\ Len(turns) < MaxTurns
  /\ turns' = Append(turns, [pc |-> "preparing", aborted |-> FALSE, session |-> NoSession,
                             home |-> root])
  /\ active' = Len(turns) + 1

\* runAgentSession: a session of another workspace is not found, and the turn fails.
BeginRun(t) ==
  /\ At(t, "preparing")
  /\ LET found == \E u \in DOMAIN turns : turns[u].session = sessionId /\ turns[u].home = root
         session == IF sessionId = NoSession THEN t ELSE sessionId
     IN IF sessionId = NoSession \/ found
        THEN /\ turns' = [turns EXCEPT ![t].pc = "working", ![t].session = session,
                                       ![t].home = root]
             \* Both surfaces take the session from turn.started.
             /\ sessionId' = session
             /\ UNCHANGED active
        ELSE Goes(t, "over") /\ active' = NoTurn /\ UNCHANGED sessionId
  /\ UNCHANGED <<coordinatorVars, surface, busy, resuming, shown>>

\* The prompter is called whether or not the run was aborted; the wait for it is not begun
\* when it was (waitWithAbortSignal).
Ask(t) ==
  /\ At(t, "working") /\ Len(reqs) < MaxRequests
  /\ \E key \in Keys :
       IF key \in always THEN UNCHANGED <<reqs, turns>>
       ELSE /\ NewRequest(t, turns[t].session, key)
            /\ Goes(t, IF turns[t].aborted THEN "aborting" ELSE "asking")
  /\ UNCHANGED <<root, always, answers, surface, busy, resuming, sessionId,
                 active, shown>>

Save(r) ==
  /\ SaveRequest(r)
  /\ UNCHANGED <<root, always, answers, surface, busy, resuming, sessionId,
                 turns, active, shown>>

\* The event shows the approval in the TUI; the REPL prints it.
Publish(r) ==
  /\ Announce(r)
  /\ shown' = IF Repl THEN shown ELSE r
  /\ UNCHANGED <<root, always, answers, surface, busy, resuming, sessionId,
                 turns, active>>

\* onApprovalRequested shows it once more, and the request enters the map.
EnterMap(r) ==
  /\ Wait(r)
  /\ shown' = IF Repl THEN shown ELSE r
  /\ UNCHANGED <<root, always, answers, surface, busy, resuming, sessionId,
                 turns, active>>

\* The answer reaches the turn: approval.resolved closes the modal, and the call runs or not.
Resolved(t) ==
  /\ At(t, "asking")
  /\ \E r \in Asked(t) : reqs[r].stage \in {"granted", "denied"}
  /\ Goes(t, "working")
  /\ shown' = IF Repl THEN shown ELSE NoRequest
  /\ UNCHANGED <<coordinatorVars, surface, busy, resuming, sessionId, active>>

\* exit_plan_mode waits for the user and for nothing else.
AskForPlan(t) ==
  /\ At(t, "working")
  /\ Goes(t, "planning")
  /\ UNCHANGED <<coordinatorVars, surface, busy, resuming, sessionId, active,
                 shown>>

\* The turn gets a result, also a failed or cancelled one, or throws and leaves no session.
EndTurn(t) ==
  /\ At(t, "working") \/ At(t, "aborting")
  /\ turns' = [turns EXCEPT ![t].pc = "over", ![t].aborted = FALSE]
  /\ active' = NoTurn
  /\ sessionId' \in {turns[t].session, sessionId}
  /\ UNCHANGED <<coordinatorVars, surface, busy, resuming, shown>>

\* Mutant: the wait for an approval does not see the abort.
DeafTurn == [turns[active] EXCEPT !.aborted = TRUE]

\* The controller's abort: a turn that waits for an approval stops waiting.
AbortedTurn ==
  [turns[active] EXCEPT !.aborted = TRUE,
     !.pc = IF /\ @ = "asking"
               /\ \A r \in Asked(active) : reqs[r].stage \notin {"granted", "denied"}
            THEN "aborting" ELSE @]

-----------------------------------------------------------------------------
(* What the coordinator does with an answer, and how its handler ends      *)

Finished ==
  /\ busy' = FALSE
  /\ shown' = NoRequest

\* Mutant: an answer that matches nothing does not end its handler.
LookUpForever(a) ==
  /\ LookUp(a)
  /\ UNCHANGED <<surface, busy, resuming, sessionId, turns, active, shown>>

LookUpAnswer(a) ==
  /\ LookUp(a)
  /\ IF Looked(a.id, a.session) = {} THEN Finished ELSE UNCHANGED <<busy, shown>>
  /\ UNCHANGED <<surface, resuming, sessionId, turns, active>>

SettleAnswer(a) ==
  /\ Settle(a)
  /\ Finished
  /\ UNCHANGED <<surface, resuming, sessionId, turns, active>>

-----------------------------------------------------------------------------
(* The REPL.  The question about a plan reads the same input with a second *)
(* readline, so that every line answers it too, a dropped one as well.     *)

Answered(ts) ==
  [t \in DOMAIN ts |-> IF ts[t].pc = "planning" THEN [ts[t] EXCEPT !.pc = "working"] ELSE ts[t]]
Listening == Repl /\ ~busy

\* The listener drops a line while it handles another; a plain line may also find a turn
\* running, or an approval that it does not answer.
LineIgnored ==
  /\ Repl /\ Planning # {}
  /\ turns' = Answered(turns)
  /\ UNCHANGED <<coordinatorVars, surface, busy, resuming, sessionId, active, shown>>

PlainAnswer(verdict) ==
  /\ Listening /\ Pending # {}
  /\ BeginAnswer(NoRequest, sessionId, verdict,
                 IF Cardinality(Pending) = 1 THEN Announced ELSE Requests)
  /\ busy' = TRUE
  /\ turns' = Answered(turns)
  /\ UNCHANGED <<root, reqs, surface, resuming, sessionId, active, shown>>

\* Any other plain line starts a turn, in the background.
TaskLine ==
  /\ Listening /\ Pending = {}
  /\ Submit
  /\ UNCHANGED <<coordinatorVars, surface, busy, resuming, sessionId, shown>>

AnswerCommand(id, verdict) ==
  /\ Listening
  /\ BeginAnswer(id, sessionId, verdict, Requests)
  /\ busy' = TRUE
  /\ turns' = Answered(turns)
  /\ UNCHANGED <<root, reqs, surface, resuming, sessionId, active, shown>>

\* /new and /cwd.
NewContext(r) ==
  /\ Listening
  /\ SetWorkspaceRoot(r)
  /\ sessionId' = NoSession
  /\ turns' = Answered(turns)
  /\ UNCHANGED <<reqs, always, answers, surface, busy, resuming, active, shown>>

ResumeCommand(session) ==
  /\ Listening
  /\ busy' = TRUE
  /\ resuming' = session
  /\ turns' = Answered(turns)
  /\ UNCHANGED <<coordinatorVars, surface, sessionId, active, shown>>

\* The manifest was read, or is not in this workspace.
ResumeRead ==
  /\ resuming # NoSession
  /\ IF \E t \in DOMAIN turns : turns[t].session = resuming /\ turns[t].home = root
     THEN sessionId' = resuming
     ELSE UNCHANGED <<sessionId>>
  /\ busy' = FALSE
  /\ resuming' = NoSession
  /\ UNCHANGED <<coordinatorVars, surface, turns, active, shown>>

AbortCommand ==
  /\ Listening /\ active # NoTurn
  /\ turns' = [Answered(turns) EXCEPT ![active] =
                 [AbortedTurn EXCEPT !.pc = IF @ = "planning" THEN "working" ELSE @]]
  /\ UNCHANGED <<coordinatorVars, surface, busy, resuming, sessionId, active, shown>>

ReplInput ==
  \/ LineIgnored \/ TaskLine \/ AbortCommand
  \/ \E v \in Verdicts : PlainAnswer(v)
  \/ \E v \in Verdicts, id \in OnDisk(NoSession) \cup {NoRequest} : AnswerCommand(id, v)
  \/ \E r \in Roots : NewContext(r)
  \/ \E session \in BegunSessions : ResumeCommand(session)

-----------------------------------------------------------------------------
(* The TUI.  Keys and lines are handled side by side.                      *)

Tui == surface = "tui"

\* y, a, n: the plan comes first.
AnswerPlan ==
  /\ Tui /\ Planning # {}
  /\ turns' = Answered(turns)
  /\ UNCHANGED <<coordinatorVars, surface, busy, resuming, sessionId, active, shown>>

\* Mutant: the key answers whatever single approval is pending.
AnswerAny(verdict) ==
  /\ Tui /\ Planning = {} /\ shown # NoRequest
  /\ BeginAnswer(NoRequest, sessionId, verdict, Announced)
  /\ UNCHANGED <<root, reqs, surface, busy, resuming, sessionId, turns, active, shown>>

AnswerShown(verdict) ==
  /\ Tui /\ Planning = {} /\ shown # NoRequest
  /\ BeginAnswer(shown, sessionId, verdict, Announced)
  /\ UNCHANGED <<root, reqs, surface, busy, resuming, sessionId, turns, active, shown>>

\* (Bound: a command is typed when no answer is under way; the keys come at any time.)
SlashAnswer(id, verdict) ==
  /\ Tui /\ answers = {}
  /\ BeginAnswer(id, sessionId, verdict, Requests)
  /\ UNCHANGED <<root, reqs, surface, busy, resuming, sessionId, turns, active, shown>>

SubmitTask ==
  /\ Tui
  /\ Submit
  /\ UNCHANGED <<coordinatorVars, surface, busy, resuming, sessionId, shown>>

\* Ctrl+C and /abort.
AbortTurn ==
  /\ Tui /\ active # NoTurn
  /\ turns' = [turns EXCEPT ![active] = AbortedTurn]
  /\ UNCHANGED <<coordinatorVars, surface, busy, resuming, sessionId, active, shown>>

TuiInput ==
  \/ AnswerPlan \/ SubmitTask \/ AbortTurn
  \/ \E v \in Verdicts : AnswerShown(v)
  \/ \E v \in Verdicts, id \in OnDisk(NoSession) \cup {NoRequest} : SlashAnswer(id, v)

-----------------------------------------------------------------------------
TurnStep(t) == BeginRun(t) \/ Resolved(t) \/ EndTurn(t)
RequestStep(r) == r \in DOMAIN reqs /\ (Save(r) \/ Publish(r) \/ EnterMap(r))
AnswerStep(n) == \E a \in answers : a.slot = n /\ (LookUpAnswer(a) \/ SettleAnswer(a))

Next ==
  \/ \E t \in DOMAIN turns : TurnStep(t) \/ Ask(t) \/ AskForPlan(t)
  \/ \E r \in DOMAIN reqs : RequestStep(r)
  \/ \E n \in 1..MaxAnswers : AnswerStep(n)
  \/ ResumeRead
  \/ ReplInput \/ TuiInput

\* What has begun goes on: the disk answers and events are published.  Nothing is assumed of
\* the user, nor of a turn at work: a model call whose body never comes hears neither its
\* timer nor the abort.
Fairness ==
  /\ \A t \in 1..MaxTurns : WF_vars(~At(t, "working") /\ TurnStep(t))
  /\ \A r \in Requests : WF_vars(RequestStep(r))
  /\ \A n \in 1..MaxAnswers : WF_vars(AnswerStep(n))
  /\ WF_vars(ResumeRead)
Spec == Init /\ [][Next]_vars /\ Fairness

-----------------------------------------------------------------------------
(* Properties                                                              *)

\* A plain answer lets through only a call whose approval had been announced when it was
\* typed: the one the TUI shows, or the one that waits at the REPL.  (With several waiting
\* at the REPL, left by aborted turns, the answer goes to the only record on disk, and that
\* may be one that is not announced yet.)
PlainAnswersAreSeen ==
  [][\A r \in DOMAIN reqs : reqs[r].stage # "granted" /\ reqs'[r].stage = "granted" =>
       \E a \in answers : a.id = r /\ r \in a.meant]_vars

\* An aborted turn ends by itself whether or not the user answers, unless it waits for the
\* user's word on a plan, which is not raced with the abort, or for ever for its model: the
\* wait for an approval never holds it.
AbortEndsTurn ==
  \A t \in 1..MaxTurns :
    (t \in DOMAIN turns /\ turns[t].aborted)
      ~> (At(t, "over") \/ At(t, "planning") \/ []At(t, "working"))

\* The REPL hears again after every line: no handler waits for a turn, which may itself be
\* waiting for a line.
LinesAreHeard == busy ~> ~busy

=============================================================================
