--------------------------- MODULE MCCommandLine ---------------------------
(***************************************************************************)
(* Two shells, a session in ask mode, a plan and an executed plan.         *)
(***************************************************************************)
EXTENDS CommandLine, TLC

CONSTANTS one, two

\* An ask session, a plan, and another plan with its execution.
MCExisting ==
  LET Manifest(id, role, mode, link, updatedAt) ==
        [id |-> id, role |-> role, mode |-> mode, link |-> link, updatedAt |-> updatedAt] IN
    <<Manifest(1, "standard", "ask", NoSession, 4), Manifest(2, "standard", "plan", NoSession, 1),
      Manifest(3, "plan", "plan", 4, 2), Manifest(4, "execute", "edit", 3, 3)>>
MCWords == TopLevelCommands \cup AgentModes \cup
  {"start", "x", "id", "/fix", "/ask", "runs", "list", "install", "delete", "resume", "execute"}
\* "/fix" has a mode of its own, "/ask" the mode of the skill it brings with it.
MCSlashCommands == "/fix" :> [mode |-> "edit", skill |-> <<>>]
                     @@ "/ask" :> [mode |-> "none", skill |-> <<"ask">>]
MCSkillModes == <<"ask", "edit">>

Line(words, modes, options) ==
  [before |-> Len(words), words |-> words, modes |-> modes, options |-> options, named |-> 1,
   tty |-> TRUE]
Led(options) == [Line(<<>>, <<>>, options) EXCEPT !.before = 0]

\* "x" is a task.
MCLines ==
  {Line(<<"ask", "x">>, <<>>, {}), Line(<<"ask", "x">>, <<"edit">>, {}),
   Line(<<"run", "/fix">>, <<"ask">>, {"continue"}), Line(<<"run">>, <<"edit">>, {"auto"}),
   Line(<<"run", "x">>, <<"edit">>, {"plan"}), Line(<<"x">>, <<>>, {"session", "fork"}),
   Line(<<"run", "x">>, <<>>, {"skill", "plan"}), Line(<<"run", "/ask">>, <<>>, {"plan"}),
   Line(<<"agent", "x">>, <<"plan">>, {}),
   [Line(<<"agent", "x">>, <<"plan">>, {}) EXCEPT !.before = 1],
   Led({"continue", "fork"}), Led({"session", "tui"}),
   [Led({"session", "fork"}) EXCEPT !.tty = FALSE],
   Line(<<"runs", "list">>, <<>>, {}), Line(<<"plug", "install", "x">>, <<>>, {}),
   Line(<<"skill", "run", "x">>, <<"edit">>, {"auto"}), Line(<<"skill", "run", "x">>, <<>>, {}),
   Line(<<"export", "id">>, <<>>, {}), Line(<<"import", "x">>, <<>>, {}),
   Line(<<"sessions", "list">>, <<>>, {}), Line(<<"sessions", "delete", "id">>, <<>>, {}),
   Line(<<"session", "resume", "id">>, <<"agent">>, {}),
   [Line(<<"session", "execute", "id">>, <<"agent">>, {}) EXCEPT !.named = 2],
   [Led({"session", "fork", "tui"}) EXCEPT !.tty = FALSE],
   [Line(<<"run", "x">>, <<>>, {"session", "fork"}) EXCEPT !.named = 3],
   [Line(<<"session", "execute", "id">>, <<>>, {}) EXCEPT !.named = 5],
   [Line(<<"sessions", "delete", "id">>, <<>>, {}) EXCEPT !.named = 5]}

Symmetric == Permutations({one, two})
=============================================================================
