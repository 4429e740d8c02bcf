---------------------------- MODULE Capabilities ----------------------------
(***************************************************************************)
(* Which skills and plugins a model step offers (src/packages/             *)
(* capabilities/src): capability-selector.ts and skill-policy.ts.  Pure    *)
(* definitions; Questions uses them.                                       *)
(*                                                                         *)
(* A skill has its name, its allowed modes and tools (none: no limit) and  *)
(* whether its description is about slides, browsers or documents.  A task *)
(* has, instead of its text, what the selector finds in it: whether it is  *)
(* a repair, and the skills and plugins it names, hints at by a file type, *)
(* shares a workflow verb with, or resembles (by so many percent).         *)
(***************************************************************************)
EXTENDS Naturals, FiniteSets, SequencesExt

-----------------------------------------------------------------------------
(* Scores                                                                  *)

Match(score, trigger) == [score |-> score, trigger |-> trigger]
NoMatch == Match(0, "none")

\* applyNegativeDomainPenalty
Penalised(task, skill, score) ==
  IF task.repair /\ skill.specialised THEN IF score > 45 THEN score - 45 ELSE 0 ELSE score

\* How much of a description a task has in common with it, of 40 at most: semanticSimilarity of
\* a skill's or plugin's name and description, recallSimilarity of a skill's text as well.
OutOf40(share) == (share * 40 + 50) \div 100
SemanticSimilarity(task, name) == OutOf40(task.alike[name])
RecallSimilarity(task, name) == OutOf40(task.recalled[name])

ExplicitNameMatch(task, name) == name \in task.names
FileTypeMatch(task, name) == IF name \in task.files THEN 80 ELSE 0
WorkflowVerbMatch(task, name) == IF name \in task.verbs THEN 60 ELSE 0

\* scoreSkill: the first of the four tests that succeeds.
ScoreSkill(task, skill) ==
  LET name == skill.name
      file == Penalised(task, skill, FileTypeMatch(task, name))
      verb == Penalised(task, skill, WorkflowVerbMatch(task, name))
      alike == Penalised(task, skill,
                 Max({SemanticSimilarity(task, name), RecallSimilarity(task, name)})) IN
    IF ExplicitNameMatch(task, name) THEN Match(100, "explicit")
    ELSE IF file >= 80 THEN Match(file, "file_type")
    ELSE IF verb >= 50 THEN Match(verb, "workflow")
    ELSE IF alike >= 30 THEN Match(alike, "semantic") ELSE NoMatch

\* Mutant: what should be asked about is enabled as well.
EnableSoftly(score) == score >= 50
ShouldEnableSkill(score) == score >= 80
IsPendingSkill(match) ==
  match.score >= 50 /\ match.score < 80 /\ match.trigger \in {"semantic", "workflow"}

SkillAllowed(skill, mode) == skill.modes = {} \/ mode \in skill.modes
Enabled(name, names) == names = <<>> \/ name \in Range(names)

-----------------------------------------------------------------------------
(* The policy of a run                                                     *)

\* resolveRunSkillPolicy and resolveSkillSelectorInput: --skill and the skill of a slash
\* command are forced, and then nothing else is used; otherwise the workspace's allowlist
\* and at most two skills.
SkillPolicy(forced, allowlist) ==
  IF forced # <<>>
  THEN [force |-> forced, enabled |-> forced, most |-> Len(forced), exclusive |-> TRUE]
  ELSE [force |-> <<>>, enabled |-> allowlist, most |-> 2, exclusive |-> FALSE]

\* collectPendingSkills, of a task before anything is confirmed.  Only a shared verb scores
\* between 50 and 79, and always 60: the sort by score leaves the skills in their order.
PendingSkills(task, mode, skills, policy) ==
  IF policy.exclusive THEN <<>>
  ELSE SelectSeq(skills, LAMBDA skill :
         /\ skill.name \notin Range(policy.force)
         /\ Enabled(skill.name, policy.enabled)
         /\ SkillAllowed(skill, mode)
         /\ IsPendingSkill(ScoreSkill(task, skill)))

-----------------------------------------------------------------------------
(* Selecting: a selection is the skills in the order they came, and the    *)
(* audit reasons about skills, of which the first tells a skill's rank     *)

Has(selection, name) == \E i \in DOMAIN selection.skills : selection.skills[i].name = name
Note(selection, name, match) ==
  [selection EXCEPT !.audit = Append(@, [name |-> name, score |-> match.score,
                                         trigger |-> match.trigger])]
\* A map of skills by name: one that is taken twice keeps its place.
Take(selection, skill, match) ==
  [Note(selection, skill.name, match) EXCEPT
     !.skills = IF Has(selection, skill.name) THEN @ ELSE Append(@, skill)]
WithKept(names, kept, skill) == IF skill.name \in names THEN kept ELSE Append(kept, skill)
Without(skills, names) == FoldLeft(LAMBDA kept, skill : WithKept(names, kept, skill), <<>>, skills)
Drop(selection, names) == [selection EXCEPT !.skills = Without(@, names)]

\* The places of a name in a sequence; find() gives what is at the first of them.
Places(seq, name) == {i \in DOMAIN seq : seq[i].name = name}
Find(seq, name) == seq[Min(Places(seq, name))]
Registered(skills, name) == Places(skills, name) # {}

WithForced(mode, skills, selection, name) ==
  IF ~Registered(skills, name) THEN Note(selection, name, Match(0, "explicit"))
  ELSE IF ~SkillAllowed(Find(skills, name), mode)
       THEN Note(selection, name, Match(0, "runtime_mode"))
       ELSE Take(selection, Find(skills, name), Match(100, "explicit"))
TakeForced(mode, skills, forced, selection) ==
  FoldLeft(LAMBDA sel, name : WithForced(mode, skills, sel, name), selection, forced)

\* A skill that is named, by the user's answer or by a plugin, and not selected yet.
WithNamed(mode, skills, match, selection, name) ==
  IF Has(selection, name) \/ ~Registered(skills, name) \/ ~SkillAllowed(Find(skills, name), mode)
  THEN selection
  ELSE Take(selection, Find(skills, name), match)
TakeNamed(mode, skills, match, names, selection) ==
  FoldLeft(LAMBDA sel, name : WithNamed(mode, skills, match, sel, name), selection, names)

WithMatching(task, mode, policy, selection, skill) ==
  LET match == ScoreSkill(task, skill) IN
    IF Has(selection, skill.name) \/ ~Enabled(skill.name, policy.enabled) THEN selection
    ELSE IF ~SkillAllowed(skill, mode) THEN Note(selection, skill.name, Match(0, "runtime_mode"))
    ELSE IF ShouldEnableSkill(match.score) THEN Take(selection, skill, match) ELSE selection
TakeMatching(task, mode, skills, policy, selection) ==
  FoldLeft(LAMBDA sel, skill : WithMatching(task, mode, policy, sel, skill), selection, skills)

FirstNote(selection, name) ==
  IF Places(selection.audit, name) = {} THEN Match(0, "semantic") ELSE Find(selection.audit, name)

\* applyScoreGapFilter: what is twenty points below the best is dropped.  A confirmed skill
\* has 100 and so drops one that a file type selected.
ScoreGap(policy, selection) ==
  LET names == {skill.name : skill \in Range(selection.skills)} \ Range(policy.force)
      Score(name) == FirstNote(selection, name).score IN
    IF Cardinality(names) <= 1 THEN selection
    ELSE Drop(selection, {name \in names : \E best \in names : Score(best) >= Score(name) + 20})

Priority(trigger) ==
  CASE trigger = "explicit" -> 5 [] trigger = "file_type" -> 4 [] trigger = "workflow" -> 3
    [] trigger = "semantic" -> 2 [] trigger = "runtime_mode" -> 1

\* Mutant: the worst come first.
OutranksUpwards(selection, i, j) ==
  FirstNote(selection, selection.skills[i].name).score
    < FirstNote(selection, selection.skills[j].name).score

\* The i-th selected skill comes before the j-th when the selection is cut.
Outranks(selection, i, j) ==
  LET a == FirstNote(selection, selection.skills[i].name)
      b == FirstNote(selection, selection.skills[j].name) IN
    \/ a.score > b.score
    \/ a.score = b.score /\ Priority(a.trigger) > Priority(b.trigger)
    \/ a.score = b.score /\ Priority(a.trigger) = Priority(b.trigger) /\ i < j

\* truncateSelectedSkills
Truncate(policy, selection) ==
  LET places == DOMAIN selection.skills IN
    Drop(selection, {selection.skills[j].name :
      j \in {k \in places : Cardinality({i \in places : Outranks(selection, i, k)}) >= policy.most}})

\* A plugin that is named; a resemblance would have to reach 50 and is capped at 40.
PluginSelected(task, plugin) ==
  /\ plugin.enabled
  /\ ExplicitNameMatch(task, plugin.name) \/ SemanticSimilarity(task, plugin.name) >= 50

WithPlugin(task, mode, skills, selection, plugin) ==
  IF PluginSelected(task, plugin)
  THEN TakeNamed(mode, skills, Match(0, "workflow"), plugin.skills, selection) ELSE selection
TakePlugins(task, mode, skills, plugins, selection) ==
  FoldLeft(LAMBDA sel, plugin : WithPlugin(task, mode, skills, sel, plugin), selection, plugins)

\* selectCapabilities
SelectSkills(task, mode, skills, plugins, policy, confirmed, closing) ==
  LET none == [skills |-> <<>>, audit |-> <<>>]
      forced == TakeForced(mode, skills, policy.force, none)
      asked == TakeNamed(mode, skills, Match(100, "explicit"), confirmed, forced)
      matched == ScoreGap(policy, TakeMatching(task, mode, skills, policy, asked)) IN
    IF closing THEN <<>>
    ELSE IF policy.exclusive THEN asked.skills
    ELSE Truncate(policy, TakePlugins(task, mode, skills, plugins, matched)).skills

\* applySkillToolConstraints: the tools all selected skills allow, or, when they have none
\* in common, every tool of the mode.
OfferedTools(selected, tools) ==
  LET limits == {skill.tools : skill \in Range(selected)} \ {{}}
      common == {tool \in UNION limits : \A limit \in limits : tool \in limit} IN
    IF common = {} THEN tools ELSE tools \cap common
=============================================================================
