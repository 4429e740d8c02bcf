---------------------------- MODULE MCQuestions ----------------------------
(***************************************************************************)
(* Two runs, four skills and a plugin: a skill is found by its file type,  *)
(* two share a verb with the vague task, and one only the plugin brings.   *)
(***************************************************************************)
EXTENDS Questions

Skill(name, modes, tools, specialised) ==
  [name |-> name, modes |-> modes, tools |-> tools, specialised |-> specialised]
MCSkills ==
  <<Skill("slides", {}, {"read_file"}, TRUE), Skill("tests", {}, {"read_file", "run_shell"}, FALSE),
    Skill("deploy", {"agent"}, {"run_shell"}, FALSE), Skill("extra", {}, {}, FALSE)>>
MCPlugins ==
  <<[name |-> "kit", enabled |-> TRUE, skills |-> <<"extra", "slides">>],
    [name |-> "off", enabled |-> FALSE, skills |-> <<"tests">>]>>
MCAllowlist == <<"slides", "tests", "deploy">>

MCTools ==
  {[name |-> "run_subagent", modes |-> {"plan", "edit", "agent"}],
   [name |-> "read_file", modes |-> {"ask", "plan", "edit", "agent"}],
   [name |-> "run_shell", modes |-> {"edit", "agent"}], [name |-> "write_file", modes |-> {}],
   [name |-> "apply_patch", modes |-> {"edit", "agent"}], [name |-> "enter_plan_mode", modes |-> {"edit", "agent"}],
   [name |-> "exit_plan_mode", modes |-> {"plan", "edit", "agent"}]}
Call(tool, found) == [tool |-> tool, found |-> found]
MCCalls ==
  {Call("list_dir", {}), Call("read_file", {"manifest", "entry"}),
   Call("run_shell", {"source", "verifies"}), Call("lsp_symbols", {"nopath"})}

TaskNames == {"slides", "tests", "deploy", "extra", "kit", "off"}
Task(vague, repair, names, files, verbs) ==
  [vague |-> vague, repair |-> repair, broad |-> vague \/ repair, specific |-> ~(vague \/ repair),
   names |-> names, files |-> files, verbs |-> verbs,
   alike |-> [name \in TaskNames |-> 90], recalled |-> [name \in TaskNames |-> 40]]
Vague == Task(TRUE, TRUE, {}, {}, {"tests", "deploy", "extra"})
Named == Task(FALSE, FALSE, {"tests", "deploy", "kit"}, {"slides"}, {"slides"})
Drawn == Task(FALSE, FALSE, {"kit", "off"}, {"slides"}, {"deploy"})
Repair == Task(FALSE, TRUE, {"tests", "slides", "deploy"}, {"slides"}, {})

Marked(marks, task, mode, surface, resumed, forced) ==
  [task |-> task, mode |-> mode, surface |-> surface, resumed |-> resumed, forced |-> forced,
   marks |-> marks]
Ask(task, mode, surface, resumed, forced) == Marked({}, task, mode, surface, resumed, forced)
MCRequests ==
  {Ask(Vague, "agent", "http", FALSE, <<>>), Ask(Vague, "agent", "http", TRUE, <<>>),
   Ask(Vague, "edit", "tty", FALSE, <<>>), Ask(Vague, "ask", "http", FALSE, <<>>),
   Ask(Named, "agent", "none", FALSE, <<>>), Ask(Vague, "edit", "subagent", FALSE, <<>>),
   Ask(Drawn, "agent", "http", FALSE, <<>>),
   Ask(Drawn, "agent", "tty", FALSE, <<"deploy", "extra">>),
   Ask(Vague, "edit", "tty", FALSE, <<"tests">>), Ask(Repair, "edit", "none", FALSE, <<>>),
   Ask(Vague, "ask", "tty", FALSE, <<>>),
   Marked({"benchmark"}, Vague, "edit", "tty", FALSE, <<"tests">>)}
=============================================================================
