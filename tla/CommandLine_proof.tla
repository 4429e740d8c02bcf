------------------------- MODULE CommandLine_proof -------------------------
(***************************************************************************)
(* Proofs about CommandLine, for any shells, lines, sessions on disk and   *)
(* slash commands, and any number of lines, sessions and writes.           *)
(***************************************************************************)
EXTENDS CommandLine, TLAPS

-----------------------------------------------------------------------------
(* The invariant.                                                          *)

\* Manifests name sessions whose ids were printed, a printed id its own directory, and a
\* copy that is not rewritten yet an older one.
StoreInOrder ==
  \A d \in DOMAIN store :
    /\ store[d].updatedAt > 0
    /\ store[d].id \in known /\ store[d].id <= d
    /\ d \in known => store[d].id = d

Forking == {"fork", "copy", "rewrite", "ready"}
Copying == {"copy", "rewrite"}
Ended == {"executed", "linking", "linked", "linkingBack"}
Begun == Ended \cup {"starting", "working", "ending", "planned", "refusing"}

\* What a command names: ids that were printed, except the copy of a fork.  Its session is
\* younger than what it was forked from and than the plan it executes.
Names(c, ids, last) ==
  /\ {c.source, c.plan, c.line.named} \subseteq ids \cup {NoSession}
  /\ c.pc \in Copying => c.session \in 1..last /\ c.session \notin ids
  /\ c.pc \notin Copying => c.session \in ids \cup {NoSession}
  /\ c.session # NoSession => c.source < c.session /\ c.plan < c.session

\* The manifest it holds, once it has read one.
Holds(c, ids) ==
  /\ c.held.id # NoSession => c.held.id \in ids /\ c.held.updatedAt > 0
  /\ c.pc \in Updating => c.held.id # NoSession
  /\ c.pc = "linking" => c.held.id <= c.plan
  /\ c.pc = "linkingBack" => c.held.id = c.session

\* How far it is.
Proceeds(c) ==
  /\ c.pc \in {"parsed", "fork"} => c.source = NoSession
  /\ c.pc = "parsed" => c.session = NoSession
  /\ c.pc \in {"parsed"} \cup Forking => c.plan = NoSession
  /\ c.pc \in Copying => c.source # NoSession
  /\ c.pc \in Begun => c.session # NoSession
  /\ c.pc \in Ended => c.plan # NoSession

\* The mode a single --mode asks for, once the command has settled it.
InteractiveLine(c) == c.path = <<>> \/ (c.path = <<"run">> /\ "tui" \in c.line.options)
ModeAsked(c) ==
  IF "auto" \in c.line.options /\ c.line.modes[1] = "edit" /\ ~InteractiveLine(c)
  THEN "agent" ELSE c.line.modes[1]
Settled == {"open"} \cup Begun
ModeFits(c) ==
  /\ c.pc # "prompt" => Range(c.line.modes) \subseteq AgentModes
  /\ c.pc \in Forking => c.path \in Surfaces /\ "tui" \notin c.line.options
  /\ c.pc \in Settled => c.mode # "none"
  /\ c.pc \in Settled /\ Len(c.line.modes) = 1 /\ c.path # <<"session", "resume">> =>
       c.mode = ModeAsked(c)

Fits(c, ids, last) == Names(c, ids, last) /\ Holds(c, ids) /\ Proceeds(c) /\ ModeFits(c)

\* A session that the command made itself, as the copy of a fork or to execute a plan.
Own(c) == c.session # NoSession /\ (c.source # NoSession \/ c.plan # NoSession)
OwnSessions ==
  \A s, t \in Shells :
    s # t /\ Own(shell[s]) /\ Own(shell[t]) => shell[s].session # shell[t].session

\* Wherever the manifest of a fork is found, it links the fork to nothing older.
Loose(m) == m.link = NoSession \/ m.link > m.id
Forked(c) == c.session # NoSession /\ c.source # NoSession
OwnLinks ==
  \A s \in Shells : Forked(shell[s]) =>
    /\ \A d \in DOMAIN store : store[d].id = shell[s].session => Loose(store[d])
    /\ \A t \in Shells : shell[t].held.id = shell[s].session => Loose(shell[t].held)

IInv ==
  /\ TypeOK /\ StoreInOrder /\ OwnSessions /\ OwnLinks
  /\ \A s \in Shells : Fits(shell[s], known, created)

-----------------------------------------------------------------------------
(* What a step has to show.                                                *)

\* What a command becomes is no session of its own that it did not have: its session is new,
\* or the one it had, whatever else is cleared.
Follows(c, old, last) ==
  \/ c.session = NoSession \/ c.session > last \/ ~Own(c)
  \/ /\ c.session = old.session
     /\ c.source # NoSession => old.source # NoSession
     /\ c.plan # NoSession => old.plan # NoSession

\* Where a manifest that is written or read comes from: it links to nothing older, says what
\* one on disk or in a command said, or is that of no fork.
Copies(m, n) == m.id = n.id /\ m.link = n.link
Descends(m) ==
  \/ m.id = NoSession \/ Loose(m)
  \/ \E d \in DOMAIN store : Copies(m, store[d])
  \/ \E t \in Shells : Copies(m, shell[t].held) /\ shell[t].held.id # NoSession
Unforked(m, c, s) ==
  /\ Forked(c) => c.session # m.id
  /\ \A t \in Shells \ {s} : Forked(shell[t]) => shell[t].session # m.id
Explained(m, c, s) == Descends(m) \/ Unforked(m, c, s)

\* A shell's command is replaced.
LEMMA ShellChanges ==
  ASSUME TypeOK, NEW s \in Shells, NEW c \in Commands, shell' = [shell EXCEPT ![s] = c]
  PROVE  /\ shell' \in [Shells -> Commands] /\ shell'[s] = c
         /\ \A t \in Shells : t # s => shell'[t] = shell[t]
BY DEF TypeOK

\* The other commands go on fitting while ids are created and printed, but for a copy whose
\* own id is printed.
LEMMA OthersFit ==
  ASSUME NEW c, NEW ids, NEW last \in Nat, NEW more, NEW later \in Nat, ids \subseteq more,
         last <= later, Fits(c, ids, last),
         c.pc \in Copying => c.session \notin more
  PROVE  Fits(c, more, later)
<1>1. Names(c, more, later)
  BY DEF Fits, Names
<1>2. Holds(c, more)
  BY DEF Fits, Holds
<1> QED
  BY <1>1, <1>2 DEF Fits

\* Every step replaces the command of one shell; it keeps the invariant when the new command
\* fits, follows from the old one, and what is on disk is in order and explained.
LEMMA StepKeeps ==
  ASSUME IInv, NEW s \in Shells, NEW c \in Commands, shell' = [shell EXCEPT ![s] = c],
         created' \in created..MaxSessions, known \subseteq known', known' \subseteq 1..created',
         DOMAIN store' \subseteq 1..created',
         \A d \in DOMAIN store' : store'[d] \in Manifests /\ Explained(store'[d], c, s),
         (bundle' \in Manifests \cup {NoManifest}) /\ (setup' \subseteq {"server", "plugin", "enabled"}),
         left' \in 0..MaxLines, writes' \in 0..MaxWrites,
         \A id \in known' \ known :
            id > created \/ (shell[s].pc \in Copying /\ id = shell[s].session),
         StoreInOrder', Fits(c, known', created'),
         Follows(c, shell[s], created), Explained(c.held, c, s)
  PROVE  IInv'
<1>1. TypeOK
  BY DEF IInv
<1>2. /\ shell' \in [Shells -> Commands] /\ shell'[s] = c
      /\ \A t \in Shells : t # s => shell'[t] = shell[t]
  BY <1>1, ShellChanges
<1>3. TypeOK'
  <2>1. created \in Nat /\ MaxSessions \in Nat
    BY <1>1, CommandLineAssumption DEF TypeOK
  <2> QED
    BY <1>2, <2>1 DEF TypeOK
<1>4. ASSUME NEW t \in Shells
      PROVE  Fits(shell'[t], known', created')
  <2>1. CASE t = s
    BY <2>1, <1>2
  <2>2. CASE t # s
    <3>1. Fits(shell[t], known, created)
      BY DEF IInv
    <3>2. ASSUME shell[t].pc \in Copying, shell[t].session \in known'
          PROVE  FALSE
      <4>1. shell[t].session \in 1..created /\ shell[t].session \notin known
        BY <3>1, <3>2 DEF Fits, Names
      <4>2. shell[s].pc \in Copying /\ shell[t].session = shell[s].session
        BY <4>1, <3>2, <1>1 DEF TypeOK
      <4>3. Fits(shell[s], known, created)
        BY DEF IInv
      <4>4. Own(shell[s]) /\ Own(shell[t])
        BY <4>1, <4>2, <4>3, <3>1, <3>2 DEF Own, Fits, Proceeds, Names, NoSession
      <4> QED
        BY <4>2, <4>4, <2>2 DEF IInv, OwnSessions
    <3>3. created \in Nat /\ created' \in Nat /\ created <= created'
      BY <1>1, <1>3 DEF TypeOK
    <3>4. Fits(shell[t], known', created')
      BY <3>1, <3>2, <3>3, OthersFit
    <3> QED
      BY <3>4, <2>2, <1>2
  <2> QED
    BY <2>1, <2>2
<1>5. ASSUME NEW t \in Shells
      PROVE  shell[t].session \in 0..created
  <2>1. Fits(shell[t], known, created)
    BY DEF IInv
  <2>2. known \subseteq 1..created /\ created \in Nat
    BY <1>1 DEF TypeOK
  <2>3. shell[t].session \in 1..created \/ shell[t].session \in known \cup {NoSession}
    BY <2>1 DEF Fits, Names
  <2>4. 1..created \subseteq 0..created /\ NoSession \in 0..created
    BY <2>2 DEF NoSession
  <2> QED
    BY <2>2, <2>3, <2>4
<1>6. OwnSessions'
  <2>1. ASSUME NEW t \in Shells, t # s, Own(c), Own(shell[t])
        PROVE  c.session # shell[t].session
    <3>1. CASE c.session > created
      BY <3>1, <1>5, <1>1 DEF TypeOK
    <3>2. CASE /\ c.session = shell[s].session
               /\ c.source # NoSession => shell[s].source # NoSession
               /\ c.plan # NoSession => shell[s].plan # NoSession
      <4>1. Own(shell[s])
        BY <2>1, <3>2 DEF Own
      <4> QED
        BY <4>1, <3>2, <2>1 DEF IInv, OwnSessions
    <3> QED
      BY <3>1, <3>2, <2>1 DEF Follows, Own
  <2> QED
    BY <2>1, <1>2 DEF OwnSessions, IInv
<1>7. OwnLinks'
  <2>1. ASSUME NEW t \in Shells, Forked(shell'[t]), NEW m,
               m.id = shell'[t].session, Explained(m, c, s)
        PROVE  Loose(m)
    <3>1. CASE Unforked(m, c, s)
      BY <3>1, <2>1, <1>2 DEF Unforked
    <3>2. CASE Descends(m)
      <4>1. CASE Forked(shell[t]) /\ shell'[t].session = shell[t].session
        BY <4>1, <3>2, <2>1 DEF Descends, Copies, Loose, Forked, IInv, OwnLinks
      <4>2. CASE shell'[t].session > created
        <5>1. ASSUME NEW d \in DOMAIN store
              PROVE  store[d].id \in 1..created
          BY <1>1 DEF IInv, StoreInOrder, TypeOK
        <5>2. ASSUME NEW u \in Shells, shell[u].held.id # NoSession
              PROVE  shell[u].held.id \in 1..created
          BY <1>1, <5>2 DEF IInv, Fits, Holds, TypeOK
        <5>3. created \in Nat /\ ~(m.id \in 1..created) /\ m.id # NoSession
          BY <4>2, <2>1, <1>1 DEF TypeOK, NoSession
        <5> QED
          BY <5>1, <5>2, <5>3, <3>2 DEF Descends, Copies
      <4>3. \/ Forked(shell[t]) /\ shell'[t].session = shell[t].session
            \/ shell'[t].session > created
        BY <2>1, <1>2 DEF Forked, Follows, Own
      <4> QED
        BY <4>1, <4>2, <4>3
    <3> QED
      BY <3>1, <3>2, <2>1 DEF Explained
  <2>2. ASSUME NEW u \in Shells, NEW t \in Shells, Forked(shell'[t]),
               shell'[u].held.id = shell'[t].session
        PROVE  Loose(shell'[u].held)
    <3>1. CASE u = s
      BY <3>1, <2>1, <2>2, <1>2
    <3>2. CASE u # s
      <4>1. shell'[u].held = shell[u].held
        BY <3>2, <1>2
      <4>2. shell'[t].session # NoSession
        BY <2>2 DEF Forked
      <4>3. Descends(shell'[u].held)
        BY <4>1, <4>2, <2>2 DEF Descends, Copies
      <4> QED
        BY <4>3, <2>1, <2>2 DEF Explained
    <3> QED
      BY <3>1, <3>2
  <2>3. ASSUME NEW d \in DOMAIN store', NEW t \in Shells, Forked(shell'[t]),
               store'[d].id = shell'[t].session
        PROVE  Loose(store'[d])
    BY <2>1, <2>3
  <2> QED
    BY <2>2, <2>3 DEF OwnLinks
<1> QED
  BY <1>3, <1>4, <1>6, <1>7 DEF IInv

\* A step that leaves what is on disk alone.
LEMMA QuietStep ==
  ASSUME IInv, NEW s \in Shells, NEW c \in Commands, shell' = [shell EXCEPT ![s] = c],
         UNCHANGED <<store, created, known, writes>>,
         (bundle' \in Manifests \cup {NoManifest}) /\ (setup' \subseteq {"server", "plugin", "enabled"}),
         left' \in 0..MaxLines,
         Fits(c, known, created), Follows(c, shell[s], created),
         c.held.id = NoSession \/ c.held = shell[s].held \/ \E d \in DOMAIN store : c.held = store[d]
  PROVE  IInv'
<1>1. TypeOK /\ created \in Nat /\ MaxSessions \in Nat
  BY CommandLineAssumption DEF IInv, TypeOK
<1>2. /\ created' \in created..MaxSessions
      /\ (known \subseteq known') /\ (known' \subseteq 1..created')
      /\ DOMAIN store' \subseteq 1..created' /\ writes' \in 0..MaxWrites
  BY <1>1 DEF TypeOK
<1>3. \A d \in DOMAIN store' : store'[d] \in Manifests /\ Explained(store'[d], c, s)
  BY <1>1 DEF TypeOK, Explained, Descends, Copies
<1>4. \A id \in known' \ known :
            id > created \/ (shell[s].pc \in Copying /\ id = shell[s].session)
  OBVIOUS
<1>5. StoreInOrder' /\ Fits(c, known', created')
  BY DEF IInv, StoreInOrder
<1>6. Explained(c.held, c, s)
  BY DEF Explained, Descends, Copies
<1> QED
  BY <1>1, <1>2, <1>3, <1>4, <1>5, <1>6, StepKeeps

-----------------------------------------------------------------------------
(* The prompt.                                                             *)

\* A shell without a command fits whatever is on disk.
LEMMA PromptFits ==
  /\ Prompt \in Commands /\ Prompt.held.id = NoSession /\ Prompt.session = NoSession
  /\ \A ids, last : Fits(Prompt, ids, last)
<1>1. NoLine \in LineTypes
  BY DEF NoLine, LineTypes
<1>2. Prompt.path \in {c.path : c \in Tree}
  <2>1. Command(<<>>, 0, 0, RunOptions) \in Tree
    BY DEF Tree, TaskCommands
  <2>2. Command(<<>>, 0, 0, RunOptions).path = Prompt.path
    BY DEF Command, Prompt
  <2> QED
    BY <2>1, <2>2
<1>3. Prompt \in Commands
  BY <1>1, <1>2 DEF Prompt, Commands, Pcs, NoManifest
<1>4. ASSUME NEW ids, NEW last
      PROVE  Fits(Prompt, ids, last)
  <2>1. Names(Prompt, ids, last) /\ Holds(Prompt, ids) /\ Proceeds(Prompt)
    BY DEF Names, Holds, Proceeds, Prompt, NoLine, Copying, Updating, Forking, Begun, Ended,
           NoManifest, NoSession
  <2>2. ModeFits(Prompt)
    BY DEF ModeFits, Prompt, Forking, Settled, Begun, Ended
  <2> QED
    BY <2>1, <2>2 DEF Fits
<1> QED
  BY <1>3, <1>4 DEF Prompt, NoManifest

\* The command of a shell ends: its report printed, its error, or the process killed.
LEMMA EndsKeeps ==
  ASSUME IInv, NEW s \in Shells, Ends(s), UNCHANGED <<store, created, known, writes>>,
         (bundle' \in Manifests \cup {NoManifest}) /\ (setup' \subseteq {"server", "plugin", "enabled"}),
         left' \in 0..MaxLines
  PROVE  IInv'
<1>1. PICK c \in Commands : c = Prompt
  BY PromptFits
<1>2. Follows(c, shell[s], created) /\ Fits(c, known, created) /\ c.held.id = NoSession
  BY <1>1, PromptFits DEF Follows
<1> QED
  BY <1>1, <1>2, QuietStep DEF Ends

-----------------------------------------------------------------------------
(* Lines.                                                                  *)

\* One word, or two, make a sequence of words.
LEMMA OneInSeq ==
  ASSUME NEW S, NEW a \in S
  PROVE  <<a>> \in Seq(S)
OBVIOUS

LEMMA TwoInSeq ==
  ASSUME NEW S, NEW a \in S, NEW b \in S
  PROVE  <<a, b>> \in Seq(S)
OBVIOUS

\* A line keeps the modes that were given, and may get one more.
LEMMA NormalizeTyped ==
  ASSUME NEW line \in LineTypes
  PROVE  /\ NormalizeArgv(line) \in LineTypes
         /\ NormalizeArgv(line).named = line.named
         /\ Len(line.modes) > 0 => Len(NormalizeArgv(line).modes) > 0
<1>1. /\ line.words \in Seq(Words) /\ line.modes \in Seq(Words)
      /\ Len(line.modes) \in Nat /\ DOMAIN line.modes = 1..Len(line.modes)
  BY DEF LineTypes
<1>0. /\ "run" \in Words /\ "agent" \in Words /\ AgentModes \subseteq Words
      /\ {"session", "web", "start", "providers", "plugin"} \subseteq Words
  BY CommandLineAssumption DEF TopLevelCommands, AgentModes
<1>2. ASSUME NEW words \in Seq(Words), NEW modes \in Seq(Words)
      PROVE  LET next == [line EXCEPT !.words = words, !.modes = modes] IN
             next \in LineTypes /\ next.named = line.named /\ next.modes = modes
  BY DEF LineTypes
<1>3. ASSUME NEW words \in Seq(Words)
      PROVE  LET next == [line EXCEPT !.words = words] IN
             next \in LineTypes /\ next.named = line.named /\ next.modes = line.modes
  BY DEF LineTypes
<1>4. ASSUME NEW words \in Seq(Words), NEW mode \in Words
      PROVE  /\ RunInMode(line, words, mode) \in LineTypes
             /\ RunInMode(line, words, mode).named = line.named
             /\ Len(RunInMode(line, words, mode).modes) > 0
  <2>1. /\ <<"run">> \o words \in Seq(Words)
        /\ Append(line.modes, mode) \in Seq(Words) /\ Len(Append(line.modes, mode)) > 0
    BY <1>1, <1>0, OneInSeq
  <2> QED
    BY <2>1, <1>2 DEF RunInMode, LineTypes
<1>5. CASE line.before = 0 \/ line.words = <<>>
  BY <1>5 DEF NormalizeArgv
<1>6. CASE ~(line.before = 0 \/ line.words = <<>>)
  <2> DEFINE first == Head(line.words)
             rest == Tail(line.words)
  <2>1. first \in Words /\ rest \in Seq(Words)
    BY <1>1, <1>6
  <2>2. first \in DOMAIN Aliases => Aliases[first] \in Seq(Words)
    <3>1. /\ Aliases["sessions"] = <<"session">> /\ Aliases["serve"] = <<"web", "start">>
          /\ Aliases["auth"] = <<"providers">> /\ Aliases["plug"] = <<"plugin">>
          /\ \A f \in DOMAIN Aliases : f \in {"sessions", "serve", "auth", "plug"}
      BY DEF Aliases
    <3>2. <<"session">> \in Seq(Words) /\ <<"providers">> \in Seq(Words)
          /\ <<"plugin">> \in Seq(Words) /\ <<"web", "start">> \in Seq(Words)
      BY <1>0, OneInSeq, TwoInSeq
    <3> QED
      BY <3>1, <3>2
  <2>4. rest # <<>> => rest[1] \in Words /\ Tail(rest) \in Seq(Words)
    BY <2>1
  <2>5. <<"run">> \o line.words \in Seq(Words)
    BY <1>1, <1>0, OneInSeq
  <2> HIDE DEF first, rest
  <2>6. first \in DOMAIN Aliases => Aliases[first] \o rest \in Seq(Words)
    BY <2>1, <2>2
  <2>7. CASE first \in DOMAIN Aliases
    <3>1. NormalizeArgv(line) = [line EXCEPT !.words = Aliases[first] \o rest]
      <4>1. first \in TopLevelCommands \ AgentModes
        BY <2>7 DEF Aliases, TopLevelCommands, AgentModes
      <4>2. first # "agent" /\ first \notin AgentModes \ {"agent"}
            /\ ~(first \notin TopLevelCommands \cup AgentModes)
        BY <4>1 DEF AgentModes
      <4> QED
        BY <1>6, <2>7, <4>2 DEF NormalizeArgv, first, rest
    <3> QED
      BY <3>1, <2>6, <2>7, <1>3
  <2>8. CASE first \notin DOMAIN Aliases /\ first = "agent"
    <3>1. NormalizeArgv(line) =
            IF rest = <<>> \/ line.before = 1 \/ rest[1] \in {"create", "list"} THEN line
            ELSE IF rest[1] \in AgentModes THEN RunInMode(line, Tail(rest), rest[1])
            ELSE RunInMode(line, rest, "agent")
      BY <1>6, <2>8 DEF NormalizeArgv, first, rest, AgentModes
    <3> QED
      BY <3>1, <2>1, <2>4, <1>0, <1>4
  <2>9. CASE first \notin DOMAIN Aliases /\ first \in AgentModes \ {"agent"}
    <3>1. NormalizeArgv(line) = RunInMode(line, rest, first)
      BY <1>6, <2>9 DEF NormalizeArgv, first, rest
    <3> QED
      BY <3>1, <2>1, <1>4
  <2>10. CASE first \notin DOMAIN Aliases /\ first \notin TopLevelCommands \cup AgentModes
    <3>1. NormalizeArgv(line) = [line EXCEPT !.words = <<"run">> \o line.words]
      BY <1>6, <2>10 DEF NormalizeArgv, first, rest, AgentModes
    <3> QED
      BY <3>1, <2>5, <1>3
  <2>11. CASE first \notin DOMAIN Aliases /\ first \in TopLevelCommands \ AgentModes
    <3>1. NormalizeArgv(line) = line
      BY <1>6, <2>11 DEF NormalizeArgv, first, rest, AgentModes
    <3> QED
      BY <3>1
  <2> QED
    BY <2>7, <2>8, <2>9, <2>10, <2>11
<1> QED
  BY <1>5, <1>6

-----------------------------------------------------------------------------
(* The steps.                                                              *)

\* What is known of a shell before its step.
LEMMA Before ==
  ASSUME IInv, NEW s \in Shells
  PROVE  /\ shell[s] \in Commands /\ Fits(shell[s], known, created)
         /\ shell[s].line \in LineTypes
         /\ created \in Nat /\ MaxSessions \in Nat /\ known \subseteq 1..created
         /\ created <= MaxSessions
         /\ DOMAIN store \subseteq 1..created
         /\ \A d \in DOMAIN store : store[d] \in Manifests
         /\ (bundle \in Manifests \cup {NoManifest}) /\ (setup \subseteq {"server", "plugin", "enabled"})
         /\ left \in 0..MaxLines /\ MaxLines \in Nat
         /\ writes \in 0..MaxWrites /\ MaxWrites \in Nat
BY CommandLineAssumption DEF IInv, TypeOK, Commands

\* A line is typed.
LEMMA TypeKeeps ==
  ASSUME IInv, NEW s \in Shells, Type(s)
  PROVE  IInv'
<1>1. /\ left' \in 0..MaxLines /\ UNCHANGED <<store, created, known, writes, bundle, setup>>
      /\ (bundle' \in Manifests \cup {NoManifest}) /\ (setup' \subseteq {"server", "plugin", "enabled"})
  BY Before DEF Type
<1>2. CASE UNCHANGED shell
  <2>1. TypeOK'
    BY <1>1, <1>2 DEF IInv, TypeOK
  <2> QED
    BY <1>1, <1>2, <2>1 DEF IInv, StoreInOrder, OwnSessions, OwnLinks
<1>3. ASSUME NEW line \in Lines, line.named \in known \cup {NoSession},
             NEW argv, argv = NormalizeArgv(line), NEW command \in Tree, Parses(command, argv),
             NEW c, c = [Prompt EXCEPT !.pc = "parsed", !.line = argv, !.path = command.path],
             shell' = [shell EXCEPT ![s] = c]
      PROVE  IInv'
  <2>1. argv \in LineTypes /\ argv.named = line.named
    BY <1>3, NormalizeTyped, CommandLineAssumption
  <2>2. command.path \in {k.path : k \in Tree}
    OBVIOUS
  <2>3. c \in Commands
    BY <1>3, <2>1, <2>2, PromptFits DEF Commands, Pcs
  <2>4. /\ c.pc = "parsed" /\ c.line = argv /\ c.source = NoSession /\ c.session = NoSession
        /\ c.plan = NoSession /\ c.held = NoManifest
    BY <1>3 DEF Prompt
  <2>5. Names(c, known, created) /\ Proceeds(c)
    BY <1>3, <2>1, <2>4 DEF Names, Proceeds, Copying, Forking, Begun, Ended
  <2>6. Holds(c, known)
    BY <2>4 DEF Holds, Updating, NoManifest
  <2>7. ModeFits(c)
    BY <1>3, <2>4 DEF ModeFits, Parses, Forking, Settled, Begun, Ended
  <2>8. Fits(c, known, created) /\ Follows(c, shell[s], created) /\ c.held.id = NoSession
    BY <2>4, <2>5, <2>6, <2>7 DEF Fits, Follows, NoManifest
  <2> QED
    BY <1>1, <1>3, <2>3, <2>8, QuietStep
<1>4. PICK line \in Lines : line.named \in known \cup {NoSession} /\
        IF \E c \in Tree : Parses(c, NormalizeArgv(line))
        THEN shell' = [shell EXCEPT ![s] =
               [Prompt EXCEPT !.pc = "parsed", !.line = NormalizeArgv(line),
                 !.path = (CHOOSE c \in Tree : Parses(c, NormalizeArgv(line))).path]]
        ELSE UNCHANGED shell
  BY DEF Type
<1>5. CASE \E c \in Tree : Parses(c, NormalizeArgv(line))
  <2>1. PICK command : command = CHOOSE c \in Tree : Parses(c, NormalizeArgv(line))
    OBVIOUS
  <2>2. command \in Tree /\ Parses(command, NormalizeArgv(line))
    BY <1>5, <2>1
  <2> QED
    BY <1>3, <1>4, <1>5, <2>1, <2>2
<1> QED
  BY <1>2, <1>4, <1>5

\* Commands that print, or set the workspace up, or are killed.
LEMMA ReportKeeps ==
  ASSUME IInv, NEW s \in Shells, Report(s) \/ SetUp(s) \/ ExportFails(s) \/ Kill(s)
  PROVE  IInv'
<1>1. Ends(s) /\ UNCHANGED <<store, created, known, writes, bundle, left>>
  BY DEF Report, SetUp, ExportFails, Kill, Quits
<1>2. setup' \subseteq {"server", "plugin", "enabled"}
  <2>1. CASE SetUp(s)
    <3>1. setup' \in {setup \cup {"server"}, setup \cup {"plugin"}, setup \cup {"enabled"},
                      setup \ {"enabled"}, setup \ {"plugin", "enabled"}}
      BY <2>1 DEF SetUp
    <3> QED
      BY <3>1, Before
  <2>2. CASE UNCHANGED setup
    BY <2>2, Before
  <2> QED
    BY <2>1, <2>2 DEF Report, ExportFails, Kill, Quits
<1> QED
  BY <1>1, <1>2, EndsKeeps, Before

\* A session is exported, or a session to delete looked for.
LEMMA ExportKeeps ==
  ASSUME IInv, NEW s \in Shells, ExportSession(s)
  PROVE  IInv'
<1>1. Ends(s) /\ UNCHANGED <<store, created, known, writes, setup, left>>
  BY DEF ExportSession
<1>2. bundle' \in Manifests
  BY Before DEF ExportSession, Exists
<1> QED
  BY <1>1, <1>2, EndsKeeps, Before

\* A session to delete is looked for.
LEMMA FindDeletedKeeps ==
  ASSUME IInv, NEW s \in Shells, FindDeleted(s)
  PROVE  IInv'
<1>1. /\ UNCHANGED <<store, created, known, writes, bundle, setup, left>>
      /\ shell[s].pc = "parsed" /\ (Goes(s, "removing") \/ Ends(s))
  BY DEF FindDeleted, At
<1>2. CASE Ends(s)
  BY <1>1, <1>2, EndsKeeps, Before
<1>3. CASE Goes(s, "removing")
  <2>1. PICK c : c = [shell[s] EXCEPT !.pc = "removing"]
    OBVIOUS
  <2>2. shell' = [shell EXCEPT ![s] = c] /\ c \in Commands
    BY <1>3, <2>1, Before DEF Goes, IInv, TypeOK, Commands, Pcs
  <2>3. /\ c.pc = "removing" /\ c.line = shell[s].line /\ c.path = shell[s].path
        /\ c.source = shell[s].source /\ c.session = shell[s].session /\ c.plan = shell[s].plan
        /\ c.held = shell[s].held
    BY <2>1, Before DEF Commands
  <2>4. Names(c, known, created) /\ Holds(c, known) /\ Proceeds(c) /\ ModeFits(c)
    BY <1>1, <2>3, Before DEF Fits, Names, Holds, Proceeds, ModeFits, Copying, Updating, Forking,
       Settled, Begun, Ended
  <2>5. Follows(c, shell[s], created)
    BY <2>3 DEF Follows
  <2> QED
    BY <1>1, <2>2, <2>3, <2>4, <2>5, QuietStep, Before DEF Fits
<1> QED
  BY <1>1, <1>2, <1>3

\* A command opens the session it goes on with, or a new one, in the mode it has settled.
LEMMA OpensKeeps ==
  ASSUME IInv, NEW s \in Shells, NEW session, NEW mode \in AgentModes \cup {"several"}, NEW plan,
         Opens(s, session, mode, plan),
         UNCHANGED <<store, created, known, writes, bundle, setup, left>>,
         shell[s].pc \in {"parsed", "ready", "planned"},
         plan \in known \cup {NoSession},
         \/ session = NoSession
         \/ session = shell[s].session /\ plan = NoSession /\ shell[s].pc = "ready"
         \/ session \in known /\ plan = NoSession /\ shell[s].pc = "parsed",
         Len(shell[s].line.modes) = 1 /\ shell[s].path # <<"session", "resume">> =>
           mode = ModeAsked(shell[s])
  PROVE  IInv'
<1>1. PICK c : c = [shell[s] EXCEPT !.pc = "open", !.session = session, !.mode = mode, !.plan = plan]
  OBVIOUS
<1>2. session \in known \cup {NoSession} /\ shell[s].source \in known \cup {NoSession}
      /\ shell[s].line.named \in known \cup {NoSession}
  BY Before DEF Fits, Names, Copying
<1>3. known \cup {NoSession} \subseteq Sessions \cup {NoSession}
  BY Before DEF Sessions
<1>4. c \in Commands
  <2>1. session \in Sessions \cup {NoSession} /\ plan \in Sessions \cup {NoSession}
    BY <1>2, <1>3
  <2>2. "open" \in Pcs /\ mode \in AgentModes \cup {"several", "none"}
    BY DEF Pcs
  <2>3. shell[s] \in Commands
    BY Before
  <2> QED
    BY <1>1, <2>1, <2>2, <2>3 DEF Commands
<1>5. shell' = [shell EXCEPT ![s] = c]
  BY <1>1 DEF Opens, IInv, TypeOK
<1>6. /\ c.pc = "open" /\ c.line = shell[s].line /\ c.path = shell[s].path
      /\ c.source = shell[s].source /\ c.session = session /\ c.plan = plan
      /\ c.held = shell[s].held /\ c.mode = mode
  BY <1>1, Before DEF Commands
<1>7. Names(c, known, created)
  <2>1. c.session # NoSession => c.source < c.session /\ c.plan < c.session
    <3>1. CASE session = shell[s].session /\ plan = NoSession /\ shell[s].pc = "ready"
      BY <3>1, <1>6, Before DEF Fits, Names, Proceeds, Forking
    <3>2. CASE session \in known /\ plan = NoSession /\ shell[s].pc = "parsed"
      <4>1. session > 0 /\ shell[s].source = NoSession
        BY <3>2, Before DEF Fits, Proceeds
      <4> QED
        BY <4>1, <3>2, <1>6 DEF NoSession
    <3> QED
      BY <3>1, <3>2, <1>6
  <2> QED
    BY <1>2, <1>6, <2>1 DEF Names, Copying
<1>8. Holds(c, known) /\ Proceeds(c)
  BY <1>6, Before DEF Fits, Holds, Proceeds, Updating, Forking, Begun, Ended, Copying
<1>9. ModeFits(c)
  <2>1. ModeAsked(c) = ModeAsked(shell[s]) /\ mode # "none"
    BY <1>6 DEF ModeAsked, InteractiveLine, AgentModes
  <2> QED
    BY <1>6, <2>1, Before DEF Fits, ModeFits, Forking, Settled
<1>10. Follows(c, shell[s], created)
  <2>1. CASE session = shell[s].session /\ plan = NoSession
    BY <2>1, <1>6 DEF Follows
  <2>2. CASE session \in known /\ plan = NoSession /\ shell[s].pc = "parsed"
    BY <2>2, <1>6, Before DEF Follows, Own, Fits, Proceeds
  <2> QED
    BY <2>1, <2>2, <1>6 DEF Follows
<1>11. c.held = shell[s].held /\ Fits(c, known, created)
  BY <1>6, <1>7, <1>8, <1>9 DEF Fits
<1> QED
  BY <1>4, <1>5, <1>10, <1>11, QuietStep, Before

\* The modes a line can give.
LEMMA ModesTyped ==
  ASSUME NEW line \in LineTypes, Range(line.modes) \subseteq AgentModes
  PROVE  /\ ModeGiven(line) \in AgentModes \cup {"several"}
         /\ RunMode(line) \in AgentModes \cup {"several"}
         /\ Len(line.modes) = 1 =>
              /\ ModeGiven(line) = line.modes[1] /\ ModeExplicit(line)
              /\ RunMode(line) = IF "auto" \in line.options /\ line.modes[1] = "edit"
                                 THEN "agent" ELSE line.modes[1]
<1>1. line.modes \in Seq(Words) /\ Len(line.modes) \in Nat
  BY DEF LineTypes
<1>2. Len(line.modes) = 1 => line.modes[1] \in AgentModes /\ line.modes # <<>>
  BY <1>1 DEF Range
<1>3. ModeGiven(line) \in AgentModes \cup {"several"}
      /\ (Len(line.modes) = 1 => ModeGiven(line) = line.modes[1])
  BY <1>1, <1>2 DEF ModeGiven, AgentModes
<1>4. RunMode(line) \in AgentModes \cup {"several"}
  BY <1>3 DEF RunMode, AgentModes
<1>5. Len(line.modes) = 1 => ModeExplicit(line)
  <2>1. \A next \in LineTypes : Len(next.modes) > 0 => next.modes # <<>>
    BY DEF LineTypes
  <2>2. NormalizeArgv(line) \in LineTypes
        /\ (Len(line.modes) > 0 => Len(NormalizeArgv(line).modes) > 0)
    BY NormalizeTyped
  <2> QED
    BY <2>1, <2>2 DEF ModeExplicit
<1> QED
  BY <1>3, <1>4, <1>5 DEF RunMode, Promotes

\* The modes of a command's line.
LEMMA LineModes ==
  ASSUME IInv, NEW s \in Shells, shell[s].pc # "prompt"
  PROVE  LET line == shell[s].line IN
         /\ Range(line.modes) \subseteq AgentModes
         /\ ModeGiven(line) \in AgentModes \cup {"several"}
         /\ RunMode(line) \in AgentModes \cup {"several"}
         /\ Len(line.modes) = 1 =>
              /\ ModeGiven(line) = line.modes[1] /\ ModeExplicit(line)
              /\ RunMode(line) = IF "auto" \in line.options /\ line.modes[1] = "edit"
                                 THEN "agent" ELSE line.modes[1]
         /\ line.named \in known \cup {NoSession}
<1>1. shell[s].line \in LineTypes /\ Range(shell[s].line.modes) \subseteq AgentModes
      /\ shell[s].line.named \in known \cup {NoSession}
  BY Before DEF Fits, ModeFits, Names
<1> QED
  BY <1>1, ModesTyped

\* The interactive surfaces start.
LEMMA StartTuiKeeps ==
  ASSUME IInv, NEW s \in Shells, StartTui(s)
  PROVE  IInv'
<1>1. /\ shell[s].pc = "parsed" /\ shell[s].path \in Surfaces /\ Given(s, "tui")
      /\ UNCHANGED <<store, created, known, writes, bundle, setup, left>>
  BY DEF StartTui
<1>2. CASE Ends(s)
  BY <1>1, <1>2, EndsKeeps, Before
<1>3. PICK session : session = IF Given(s, "session") THEN Named(s) ELSE NoSession
  OBVIOUS
<1>4. PICK mode \in AgentModes \cup {"several"} : mode = ModeGiven(shell[s].line)
  BY <1>1, LineModes
<1>5. CASE Opens(s, session, mode, NoSession)
  <2>1. InteractiveLine(shell[s])
    BY <1>1 DEF InteractiveLine, Surfaces, Given
  <2>2. Len(shell[s].line.modes) = 1 => mode = ModeAsked(shell[s])
    BY <1>1, <1>4, <2>1, LineModes DEF ModeAsked
  <2>3. session = NoSession \/ session \in known
    BY <1>1, <1>3, LineModes DEF Named
  <2> QED
    BY <1>1, <1>5, <2>2, <2>3, OpensKeeps
<1> QED
  BY <1>2, <1>3, <1>4, <1>5 DEF StartTui

LEMMA StartReplKeeps ==
  ASSUME IInv, NEW s \in Shells, StartRepl(s)
  PROVE  IInv'
<1>1. /\ shell[s].pc = "ready" /\ shell[s].path = <<>>
      /\ UNCHANGED <<store, created, known, writes, bundle, setup, left>>
  BY DEF StartRepl, At
<1>2. CASE Ends(s)
  BY <1>1, <1>2, EndsKeeps, Before
<1>3. PICK mode \in AgentModes \cup {"several"} : mode = ModeGiven(shell[s].line)
  BY <1>1, LineModes
<1>4. CASE Opens(s, shell[s].session, mode, NoSession)
  <2>1. InteractiveLine(shell[s])
    BY <1>1 DEF InteractiveLine
  <2>2. Len(shell[s].line.modes) = 1 => mode = ModeAsked(shell[s])
    BY <1>1, <1>3, <2>1, LineModes DEF ModeAsked
  <2> QED
    BY <1>1, <1>4, <2>2, OpensKeeps
<1> QED
  BY <1>2, <1>3, <1>4 DEF StartRepl

\* A run starts, on the session it goes on with unless it plans first.
LEMMA StartRunKeeps ==
  ASSUME IInv, NEW s \in Shells, StartRun(s)
  PROVE  IInv'
<1>1. /\ shell[s].pc = "ready" /\ shell[s].path = <<"run">>
      /\ UNCHANGED <<store, created, known, writes, bundle, setup, left>>
  BY DEF StartRun, At
<1>2. CASE Ends(s)
  BY <1>1, <1>2, EndsKeeps, Before
<1>3. PICK manifest : manifest =
        IF shell[s].session = NoSession THEN NoManifest ELSE store[shell[s].session]
  OBVIOUS
<1>4. PICK mode : mode = ModeOfRun(s, manifest)
  OBVIOUS
<1>5. PICK session : session = IF Given(s, "plan") /\ mode \in ExecutionModes
                               THEN NoSession ELSE shell[s].session
  OBVIOUS
<1>6. CASE /\ shell[s].session # NoSession => Exists(shell[s].session)
           /\ Opens(s, session, mode, NoSession)
  <2>1. manifest = NoManifest \/ manifest \in Manifests
    BY <1>3, <1>6, Before DEF Exists
  <2> DEFINE task == IF Len(shell[s].line.words) > 1 THEN shell[s].line.words[2] ELSE "none"
             command == IF task \in DOMAIN SlashCommands THEN SlashCommands[task]
                        ELSE [mode |-> "none", skill |-> <<>>]
  <2>2. command.mode \in AgentModes \cup {"none"} /\ command.skill \in Seq(AgentModes)
    BY CommandLineAssumption
  <2>8. command.skill # <<>> => command.skill[1] \in AgentModes
    BY <2>2
  <2>3. SkillModes # <<>> => SkillModes[1] \in AgentModes
    BY CommandLineAssumption
  <2>4. RunMode(shell[s].line) \in AgentModes \cup {"several"}
    BY <1>1, LineModes
  <2>5. mode \in AgentModes \cup {"several"}
    <3>1. (IF manifest = NoManifest THEN RunMode(shell[s].line) ELSE manifest.mode)
            \in AgentModes \cup {"several"}
      BY <2>1, <2>4 DEF Manifests
    <3> QED
      BY <1>4, <2>2, <2>3, <2>4, <2>8, <3>1 DEF ModeOfRun
  <2>6. ~InteractiveLine(shell[s])
    BY <1>1, Before DEF InteractiveLine, Fits, ModeFits, Forking
  <2>7. Len(shell[s].line.modes) = 1 => mode = ModeAsked(shell[s])
    BY <1>1, <1>4, <2>6, LineModes DEF ModeAsked, ModeOfRun
  <2> QED
    BY <1>1, <1>5, <1>6, <2>5, <2>7, OpensKeeps
<1> QED
  BY <1>2, <1>3, <1>4, <1>5, <1>6 DEF StartRun

\* "session resume", "session execute", "skill run", and the execution of an approved plan.
LEMMA ResumeSessionKeeps ==
  ASSUME IInv, NEW s \in Shells, ResumeSession(s)
  PROVE  IInv'
<1>1. /\ shell[s].pc = "parsed" /\ shell[s].path = <<"session", "resume">>
      /\ UNCHANGED <<store, created, known, writes, bundle, setup, left>>
  BY DEF ResumeSession, At
<1>2. CASE Ends(s)
  BY <1>1, <1>2, EndsKeeps, Before
<1>3. CASE Exists(Named(s)) /\ Opens(s, Named(s), store[Named(s)].mode, NoSession)
  <2>1. PICK mode \in AgentModes \cup {"several"} : mode = store[Named(s)].mode
    BY <1>3, Before DEF Exists, Manifests
  <2>2. Named(s) \in known \cup {NoSession}
    BY <1>1, LineModes DEF Named
  <2> QED
    BY <1>1, <1>3, <2>1, <2>2, OpensKeeps
<1> QED
  BY <1>2, <1>3 DEF ResumeSession

LEMMA ExecutePlanKeeps ==
  ASSUME IInv, NEW s \in Shells, ExecutePlan(s)
  PROVE  IInv'
<1>1. /\ shell[s].pc = "parsed" /\ shell[s].path = <<"session", "execute">>
      /\ UNCHANGED <<store, created, known, writes, bundle, setup, left>>
  BY DEF ExecutePlan, At
<1>2. CASE Ends(s)
  BY <1>1, <1>2, EndsKeeps, Before
<1>3. PICK mode : mode = ExecutionMode(shell[s].line)
  OBVIOUS
<1>4. CASE mode \in ExecutionModes /\ Opens(s, NoSession, mode, Named(s))
  <2>1. ~InteractiveLine(shell[s])
    <3>1. <<"session", "execute">> # <<>> /\ <<"session", "execute">> # <<"run">>
      OBVIOUS
    <3> QED
      BY <1>1, <3>1 DEF InteractiveLine
  <2>2. mode \in AgentModes \cup {"several"}
    BY <1>4 DEF ExecutionModes, AgentModes
  <2>3. Len(shell[s].line.modes) = 1 => mode = ModeAsked(shell[s])
    <3>1. ASSUME Len(shell[s].line.modes) = 1
          PROVE  mode = ModeAsked(shell[s])
      <4>1. /\ ModeExplicit(shell[s].line) /\ ModeGiven(shell[s].line) = shell[s].line.modes[1]
            /\ ModeGiven(shell[s].line) \in AgentModes
        <5>1. shell[s].line.modes[1] \in AgentModes
          BY <1>1, <3>1, LineModes, Before DEF Range, LineTypes
        <5> QED
          BY <1>1, <3>1, <5>1, LineModes
      <4> QED
        BY <1>3, <2>1, <4>1 DEF ModeAsked, ExecutionMode, ModeOverride, Promotes, AgentModes
    <3> QED
      BY <3>1
  <2>4. Named(s) \in known \cup {NoSession}
    BY <1>1, LineModes DEF Named
  <2> QED
    BY <1>1, <1>4, <2>2, <2>3, <2>4, OpensKeeps
<1> QED
  BY <1>2, <1>3, <1>4 DEF ExecutePlan

LEMMA RunSkillKeeps ==
  ASSUME IInv, NEW s \in Shells, RunSkill(s)
  PROVE  IInv'
<1>1. /\ shell[s].pc = "parsed" /\ shell[s].path = <<"skill">>
      /\ UNCHANGED <<store, created, known, writes, bundle, setup, left>>
  BY DEF RunSkill, At, Quits
<1>2. CASE Ends(s)
  BY <1>1, <1>2, EndsKeeps, Before
<1>3. PICK mode : mode = IF ModeExplicit(shell[s].line) \/ SkillModes = <<>>
                         THEN RunMode(shell[s].line) ELSE SkillModes[1]
  OBVIOUS
<1>4. CASE Opens(s, NoSession, mode, NoSession)
  <2>1. ~InteractiveLine(shell[s])
    <3>1. <<"skill">> # <<>> /\ <<"skill">> # <<"run">>
      OBVIOUS
    <3> QED
      BY <1>1, <3>1 DEF InteractiveLine
  <2>2. SkillModes # <<>> => SkillModes[1] \in AgentModes
    BY CommandLineAssumption
  <2>3. mode \in AgentModes \cup {"several"}
    BY <1>1, <1>3, <2>2, LineModes
  <2>4. Len(shell[s].line.modes) = 1 => mode = ModeAsked(shell[s])
    BY <1>1, <1>3, <2>1, LineModes DEF ModeAsked
  <2> QED
    BY <1>1, <1>4, <2>3, <2>4, OpensKeeps
<1> QED
  BY <1>2, <1>3, <1>4 DEF RunSkill

LEMMA ApprovePlanKeeps ==
  ASSUME IInv, NEW s \in Shells, ApprovePlan(s)
  PROVE  IInv'
<1>1. /\ shell[s].pc = "planned"
      /\ UNCHANGED <<store, created, known, writes, bundle, setup, left>>
      /\ Opens(s, NoSession, shell[s].mode, shell[s].session)
  BY DEF ApprovePlan
<1>2. PICK mode \in AgentModes \cup {"several"} : mode = shell[s].mode
  BY <1>1, Before DEF Fits, ModeFits, Settled, Begun, Commands
<1>3. shell[s].session \in known \cup {NoSession}
  BY <1>1, Before DEF Fits, Names, Copying
<1>4. Len(shell[s].line.modes) = 1 /\ shell[s].path # <<"session", "resume">> =>
        mode = ModeAsked(shell[s])
  BY <1>1, <1>2, Before DEF Fits, ModeFits, Settled, Begun
<1> QED
  BY <1>1, <1>2, <1>3, <1>4, OpensKeeps

\* The session to go on with is chosen.
LEMMA ChooseSessionKeeps ==
  ASSUME IInv, NEW s \in Shells, ChooseSession(s)
  PROVE  IInv'
<1>1. /\ shell[s].pc = "parsed" /\ shell[s].path \in Surfaces /\ ~Given(s, "tui")
      /\ UNCHANGED <<store, created, known, writes, bundle, setup, left>>
  BY DEF ChooseSession
<1>2. CASE Ends(s)
  BY <1>1, <1>2, EndsKeeps, Before
<1>3. ASSUME NEW id \in known \cup {NoSession}, NEW pc,
             pc = IF Given(s, "fork") /\ id # NoSession THEN "fork" ELSE "ready",
             NEW c, c = [shell[s] EXCEPT !.session = id, !.pc = pc],
             shell' = [shell EXCEPT ![s] = c]
      PROVE  IInv'
  <2>1. shell[s] \in Commands /\ id \in Sessions \cup {NoSession} /\ pc \in {"fork", "ready"}
    BY <1>3, Before DEF Sessions
  <2>2. "fork" \in Pcs /\ "ready" \in Pcs
    BY DEF Pcs
  <2>3. c \in Commands
    BY <1>3, <2>1, <2>2 DEF Commands
  <2>4. /\ c.pc = pc /\ c.line = shell[s].line /\ c.path = shell[s].path
        /\ c.source = shell[s].source /\ c.session = id /\ c.plan = shell[s].plan
        /\ c.held = shell[s].held
    BY <1>3, <2>1 DEF Commands
  <2>5. c.source = NoSession /\ c.plan = NoSession /\ (id # NoSession => id > 0)
    BY <1>1, <2>4, Before DEF Fits, Proceeds, NoSession
  <2>6. Names(c, known, created)
    BY <2>1, <2>4, <2>5, Before DEF Fits, Names, Copying, NoSession
  <2>7. Holds(c, known) /\ Proceeds(c)
    BY <2>1, <2>4, <2>5, Before DEF Fits, Holds, Proceeds, Updating, Copying, Begun, Ended
  <2>8. ModeFits(c)
    BY <1>1, <2>1, <2>4, Before DEF Fits, ModeFits, Given, Settled, Begun, Ended
  <2>9. Follows(c, shell[s], created)
    BY <2>5 DEF Follows, Own
  <2> QED
    BY <1>1, <1>3, <2>3, <2>4, <2>6, <2>7, <2>8, <2>9, QuietStep, Before DEF Fits
<1>4. Continuable \subseteq known
  BY DEF Continuable, IInv, StoreInOrder
<1>5. CASE \E id \in IF Given(s, "session") THEN {Named(s)}
                     ELSE IF Given(s, "continue") THEN Continuable ELSE {NoSession} :
             shell' = [shell EXCEPT ![s].session = id,
               ![s].pc = IF Given(s, "fork") /\ id # NoSession THEN "fork" ELSE "ready"]
  <2>1. Named(s) \in known \cup {NoSession}
    BY <1>1, LineModes DEF Named
  <2>2. PICK id \in known \cup {NoSession} :
          shell' = [shell EXCEPT ![s].session = id,
            ![s].pc = IF Given(s, "fork") /\ id # NoSession THEN "fork" ELSE "ready"]
    BY <1>4, <1>5, <2>1
  <2>3. PICK pc : pc = IF Given(s, "fork") /\ id # NoSession THEN "fork" ELSE "ready"
    OBVIOUS
  <2>4. PICK c : c = [shell[s] EXCEPT !.session = id, !.pc = pc]
    OBVIOUS
  <2>5. shell' = [shell EXCEPT ![s] = c]
    BY <2>2, <2>3, <2>4 DEF IInv, TypeOK
  <2> QED
    BY <1>3, <2>3, <2>4, <2>5
<1> QED
  BY <1>2, <1>5 DEF ChooseSession

-----------------------------------------------------------------------------
(* Manifests are read and written.                                         *)

\* The first half of an update: what is on disk is in the command's hand now.
LEMMA ReadKeeps ==
  ASSUME IInv, NEW s \in Shells, NEW id, NEW pc \in Updating, ReadManifest(s, id, pc),
         shell[s].pc \in {"open", "working", "planned", "executed", "linked"},
         shell[s].session # NoSession,
         pc \in {"linking", "linkingBack"} => shell[s].plan # NoSession,
         pc = "linking" => id = shell[s].plan,
         pc = "linkingBack" => id = shell[s].session
  PROVE  IInv'
<1>1. UNCHANGED <<store, created, known, writes, bundle, setup, left>>
  BY DEF ReadManifest
<1>2. CASE Ends(s)
  BY <1>1, <1>2, EndsKeeps, Before
<1>3. CASE Exists(id) /\ shell' = [shell EXCEPT ![s].pc = pc, ![s].held = store[id]]
  <2>1. PICK c : c = [shell[s] EXCEPT !.pc = pc, !.held = store[id]]
    OBVIOUS
  <2>2. shell' = [shell EXCEPT ![s] = c]
    BY <1>3, <2>1 DEF IInv, TypeOK
  <2>3. /\ shell[s] \in Commands /\ store[id] \in Manifests /\ pc \in Pcs
        /\ id \in 1..created /\ id \in DOMAIN store
    BY <1>3, Before DEF Pcs, Exists
  <2>4. c \in Commands
    BY <2>1, <2>3 DEF Commands
  <2>5. /\ c.pc = pc /\ c.line = shell[s].line /\ c.path = shell[s].path /\ c.mode = shell[s].mode
        /\ c.source = shell[s].source /\ c.session = shell[s].session /\ c.plan = shell[s].plan
        /\ c.held = store[id]
    BY <2>1, <2>3 DEF Commands
  <2>6. /\ store[id].id \in known /\ store[id].updatedAt > 0 /\ store[id].id <= id
        /\ id \in known => store[id].id = id
    BY <2>3 DEF IInv, StoreInOrder
  <2>7. shell[s].session \in known /\ pc \notin Copying
    BY Before DEF Fits, Names, Copying, Updating
  <2>8. Names(c, known, created)
    BY <2>5, <2>7, Before DEF Fits, Names
  <2>9. Holds(c, known)
    <3>1. store[id].id # NoSession
      BY <2>6, Before DEF NoSession
    <3> QED
      BY <2>5, <2>6, <2>7, <3>1 DEF Holds
  <2>10. Proceeds(c)
    BY <2>5 DEF Proceeds, Updating, Copying, Forking, Begun, Ended
  <2>11. ModeFits(c)
    <3>1. shell[s].pc \in Settled /\ pc \notin Forking
      BY DEF Settled, Begun, Ended, Updating, Forking
    <3>2. ModeAsked(c) = ModeAsked(shell[s])
      BY <2>5 DEF ModeAsked, InteractiveLine
    <3> QED
      BY <2>5, <3>1, <3>2, Before DEF Fits, ModeFits
  <2>12. Follows(c, shell[s], created)
    BY <2>5 DEF Follows
  <2> QED
    BY <1>1, <2>2, <2>3, <2>4, <2>5, <2>8, <2>9, <2>10, <2>11, <2>12, QuietStep, Before DEF Fits
<1> QED
  BY <1>2, <1>3 DEF ReadManifest

\* A manifest is written under an id that was printed, or that is printed from now on.
LEMMA WrittenInOrder ==
  ASSUME IInv, NEW id \in Nat \ {0}, NEW manifest \in Manifests, Written(id, manifest),
         manifest.id = id, created' \in created..MaxSessions, id <= created',
         NEW s \in Shells, NEW c \in Commands,
         \A m \in Manifests : Copies(m, manifest) => Explained(m, c, s)
  PROVE  /\ StoreInOrder' /\ known' = known \cup {id} /\ known' \subseteq 1..created'
         /\ DOMAIN store' \subseteq 1..created' /\ writes' \in 0..MaxWrites
         /\ \A d \in DOMAIN store' : store'[d] \in Manifests /\ Explained(store'[d], c, s)
<1>1. /\ created \in Nat /\ created' \in Nat /\ created <= created' /\ known \subseteq 1..created
      /\ DOMAIN store \subseteq 1..created /\ writes \in 0..MaxWrites /\ MaxWrites \in Nat
      /\ MaxSessions \in Nat
  BY CommandLineAssumption DEF IInv, TypeOK
<1>2. writes < MaxWrites /\ writes' = writes + 1 /\ known' = known \cup {id}
  BY DEF Written
<1>3. PICK m : m = [manifest EXCEPT !.updatedAt = writes + 1]
  OBVIOUS
<1>4. m \in Manifests /\ m.id = id /\ m.link = manifest.link /\ m.updatedAt > 0
  BY <1>1, <1>2, <1>3 DEF Manifests
<1>5. /\ DOMAIN store' = DOMAIN store \cup {id} /\ store'[id] = m
      /\ \A d \in DOMAIN store \ {id} : store'[d] = store[d]
  BY <1>3 DEF Written, Put
<1>6. StoreInOrder'
  BY <1>1, <1>2, <1>4, <1>5 DEF IInv, StoreInOrder
<1>7. \A d \in DOMAIN store' : store'[d] \in Manifests /\ Explained(store'[d], c, s)
  <2>1. Explained(m, c, s)
    BY <1>4 DEF Copies
  <2>2. \A d \in DOMAIN store : store[d] \in Manifests /\ Explained(store[d], c, s)
    BY DEF IInv, TypeOK, Explained, Descends, Copies
  <2> QED
    BY <1>4, <1>5, <2>1, <2>2
<1>8. known' \subseteq 1..created' /\ DOMAIN store' \subseteq 1..created'
  BY <1>1, <1>2, <1>5
<1>9. writes' \in 0..MaxWrites
  BY <1>1, <1>2
<1> QED
  BY <1>2, <1>6, <1>7, <1>8, <1>9

\* The second half of an update.  What is written links to what the manifest linked to, or to
\* a younger execution, or is the execution itself, which is no fork.
LEMMA WriteKeeps ==
  ASSUME IInv, NEW s \in Shells, NEW pc \in Updating,
         NEW next \in {"working", "planned", "executed", "linked", "prompt"},
         WriteManifest(s, pc, next),
         next = "executed" => shell[s].plan # NoSession,
         next = "linked" => pc = "linking",
         pc = "linkingBack" => next = "prompt"
  PROVE  IInv'
<1>1. /\ shell[s].pc = pc /\ UNCHANGED <<created, bundle, setup, left>>
      /\ Written(shell[s].held.id, Updated(s))
  BY DEF WriteManifest
<1>2. /\ shell[s] \in Commands /\ shell[s].held \in Manifests /\ shell[s].held.id \in known
      /\ shell[s].session \in known /\ shell[s].source \in known \cup {NoSession}
      /\ shell[s].plan \in known \cup {NoSession}
  <2>1. shell[s].session # NoSession
    BY <1>1, Before DEF Fits, Proceeds, Updating, Begun, Ended
  <2> QED
    BY <1>1, <2>1, Before DEF Fits, Names, Holds, Commands, NoManifest, Copying, Updating
<1>3. PICK manifest : manifest = Updated(s)
  OBVIOUS
<1>4. manifest \in Manifests /\ manifest.id = shell[s].held.id
  <2>1. shell[s].session \in Sessions /\ shell[s].plan \in Sessions \cup {NoSession}
    BY <1>2, Before DEF Sessions
  <2> QED
    BY <1>2, <1>3, <2>1 DEF Updated, Manifests
<1>5. PICK c : c = IF next = "prompt" THEN Prompt
                   ELSE [shell[s] EXCEPT !.pc = next, !.held = NoManifest]
  OBVIOUS
<1>6. shell' = [shell EXCEPT ![s] = c]
  BY <1>5, Before DEF WriteManifest, Ends, IInv, TypeOK
<1>7. c \in Commands /\ Fits(c, known, created) /\ c.held.id = NoSession
      /\ Follows(c, shell[s], created)
  <2>1. CASE next # "prompt"
    <3>1. next \in Pcs
      BY <2>1 DEF Pcs
    <3>2. /\ c.pc = next /\ c.line = shell[s].line /\ c.path = shell[s].path /\ c.mode = shell[s].mode
          /\ c.source = shell[s].source /\ c.session = shell[s].session /\ c.plan = shell[s].plan
          /\ c.held = NoManifest
      BY <1>2, <1>5, <2>1 DEF Commands
    <3>3. c \in Commands
      BY <1>2, <1>5, <2>1, <3>1 DEF Commands
    <3>4. Names(c, known, created) /\ Holds(c, known)
      BY <1>1, <2>1, <3>2, Before DEF Fits, Names, Holds, Copying, Updating, NoManifest
    <3>5. Proceeds(c)
      <4>1. shell[s].plan # NoSession \/ next \notin Ended
        BY <1>1, <2>1, Before DEF Fits, Proceeds, Ended
      <4> QED
        BY <1>2, <2>1, <3>2, <4>1, Before DEF Proceeds, Copying, Forking, Begun, Ended, NoSession
    <3>6. ModeFits(c)
      <4>1. shell[s].pc \in Settled /\ next \notin Forking /\ shell[s].pc # "prompt"
        BY <1>1, <2>1 DEF Settled, Begun, Ended, Updating, Forking
      <4>2. ModeAsked(c) = ModeAsked(shell[s])
        BY <3>2 DEF ModeAsked, InteractiveLine
      <4> QED
        BY <3>2, <4>1, <4>2, Before DEF Fits, ModeFits
    <3> QED
      BY <3>2, <3>3, <3>4, <3>5, <3>6 DEF Fits, Follows, NoManifest
  <2>2. CASE next = "prompt"
    BY <1>5, <2>2, PromptFits DEF Follows
  <2> QED
    BY <2>1, <2>2
<1>8. \A m \in Manifests : Copies(m, manifest) => Explained(m, c, s)
  <2>1. CASE pc = "linking"
    <3>1. manifest.link = shell[s].session /\ manifest.id <= shell[s].plan
      BY <1>1, <1>2, <1>3, <1>4, <2>1, Before DEF Updated, Manifests, Fits, Holds
    <3>2. manifest.link > manifest.id
      <4>1. shell[s].plan < shell[s].session /\ shell[s].session # NoSession
        BY <1>2, Before DEF Fits, Names, NoSession
      <4>2. /\ shell[s].plan \in Nat /\ shell[s].session \in Nat /\ manifest.id \in Nat
        BY <1>2, <1>4, Before DEF NoSession
      <4> QED
        BY <3>1, <4>1, <4>2
    <3> QED
      BY <3>2 DEF Explained, Descends, Loose, Copies
  <2>2. CASE pc = "linkingBack"
    <3>1. manifest.id = shell[s].session /\ shell[s].plan # NoSession
      BY <1>1, <1>4, <2>2, Before DEF Fits, Holds, Proceeds, Ended
    <3>2. Own(shell[s])
      BY <1>2, <3>1, Before DEF Own, NoSession
    <3>3. ~Forked(c)
      BY <1>5, <2>2, PromptFits DEF Forked
    <3>4. ASSUME NEW t \in Shells \ {s}, Forked(shell[t])
          PROVE  shell[t].session # manifest.id
      BY <3>1, <3>2, <3>4 DEF Forked, Own, IInv, OwnSessions
    <3> QED
      BY <3>3, <3>4 DEF Explained, Unforked, Copies
  <2>3. CASE pc \notin {"linking", "linkingBack"}
    <3>1. manifest.link = shell[s].held.link
      BY <1>1, <1>2, <1>3, <2>3 DEF Updated, Manifests
    <3>2. shell[s].held.id # NoSession
      BY <1>2, Before DEF NoSession
    <3> QED
      BY <1>4, <3>1, <3>2 DEF Explained, Descends, Copies
  <2> QED
    BY <2>1, <2>2, <2>3
<1>9. /\ created' \in created..MaxSessions /\ shell[s].held.id \in Nat \ {0}
       /\ shell[s].held.id <= created'
  BY <1>1, <1>2, Before
<1>10. /\ StoreInOrder' /\ known' = known \cup {shell[s].held.id} /\ known' \subseteq 1..created'
       /\ DOMAIN store' \subseteq 1..created' /\ writes' \in 0..MaxWrites
       /\ \A d \in DOMAIN store' : store'[d] \in Manifests /\ Explained(store'[d], c, s)
  BY <1>1, <1>3, <1>4, <1>7, <1>8, <1>9, WrittenInOrder
<1>11. known' = known /\ Fits(c, known', created')
  BY <1>1, <1>2, <1>7, <1>10
<1>12. Explained(c.held, c, s)
  BY <1>7 DEF Explained, Descends
<1> QED
  BY <1>1, <1>6, <1>7, <1>9, <1>10, <1>11, <1>12, StepKeeps, Before

-----------------------------------------------------------------------------
(* Sessions are created, forked, imported and deleted.                     *)

\* The steps that leave the disk as it is keep it in order and explained.
LEMMA DiskStays ==
  ASSUME IInv, UNCHANGED <<store, known, writes>>, NEW s \in Shells, NEW c
  PROVE  /\ StoreInOrder' /\ known' = known /\ writes' \in 0..MaxWrites
         /\ DOMAIN store' \subseteq 1..created
         /\ \A d \in DOMAIN store' : store'[d] \in Manifests /\ Explained(store'[d], c, s)
BY DEF IInv, TypeOK, StoreInOrder, Explained, Descends, Copies

\* A fork gets an id of its own.
LEMMA ForkReadKeeps ==
  ASSUME IInv, NEW s \in Shells, ForkRead(s)
  PROVE  IInv'
<1>1. shell[s].pc = "fork" /\ UNCHANGED <<store, known, writes, bundle, setup, left>>
  BY DEF ForkRead
<1>2. CASE Ends(s) /\ UNCHANGED created
  BY <1>1, <1>2, EndsKeeps, Before
<1>3. CASE /\ Exists(shell[s].session) /\ Create
           /\ shell' = [shell EXCEPT ![s].pc = "copy", ![s].source = shell[s].session,
                                     ![s].session = Fresh]
  <2>1. PICK c : c = [shell[s] EXCEPT !.pc = "copy", !.source = shell[s].session,
                                      !.session = Fresh]
    OBVIOUS
  <2>2. shell' = [shell EXCEPT ![s] = c]
    BY <1>3, <2>1 DEF IInv, TypeOK
  <2>3. /\ created' = created + 1 /\ created + 1 \in Sessions /\ created' \in created..MaxSessions
        /\ created' \in Nat
    BY <1>3, Before DEF Create, Fresh, Sessions
  <2>4. shell[s].session \in known /\ shell[s].session \in 1..created /\ shell[s].plan = NoSession
    BY <1>1, <1>3, Before DEF Fits, Names, Proceeds, Copying, Forking, Exists, NoSession
  <2>5. shell[s].session \in Sessions
    BY <2>4, Before DEF Sessions
  <2>6. c \in Commands
    <3>1. "copy" \in Pcs /\ shell[s] \in Commands
      BY Before DEF Pcs
    <3> QED
      BY <2>1, <2>3, <2>5, <3>1 DEF Commands, Fresh
  <2>7. /\ c.pc = "copy" /\ c.line = shell[s].line /\ c.path = shell[s].path
        /\ c.source = shell[s].session /\ c.session = created + 1 /\ c.plan = NoSession
        /\ c.held = shell[s].held
    BY <2>1, <2>4, Before DEF Commands, Fresh
  <2>8. Names(c, known, created')
    <3>1. created + 1 \notin known /\ created + 1 \in 1..created'
      BY <2>3, Before
    <3>2. shell[s].session < created + 1 /\ NoSession < created + 1
      BY <2>4, Before DEF NoSession
    <3> QED
      BY <2>4, <2>7, <3>1, <3>2, Before DEF Fits, Names, Copying
  <2>9. Holds(c, known) /\ Proceeds(c)
    BY <2>4, <2>7, Before DEF Fits, Holds, Proceeds, Updating, Copying, Begun, Ended, NoSession
  <2>10. ModeFits(c)
    BY <1>1, <2>7, Before DEF Fits, ModeFits, Forking, Settled, Begun, Ended
  <2>11. Follows(c, shell[s], created)
    BY <2>7, Before DEF Follows
  <2>12. Fits(c, known', created')
    BY <1>1, <2>8, <2>9, <2>10 DEF Fits
  <2>13. Explained(c.held, c, s)
    BY <2>7 DEF Explained, Descends, Copies
  <2>14. /\ StoreInOrder' /\ known' = known /\ writes' \in 0..MaxWrites
         /\ DOMAIN store' \subseteq 1..created
         /\ \A d \in DOMAIN store' : store'[d] \in Manifests /\ Explained(store'[d], c, s)
    BY <1>1, DiskStays
  <2>15. DOMAIN store' \subseteq 1..created' /\ known' \subseteq 1..created'
    BY <2>3, <2>14, Before
  <2> QED
    BY <1>1, <2>2, <2>3, <2>6, <2>11, <2>12, <2>13, <2>14, <2>15, StepKeeps, Before
<1> QED
  BY <1>2, <1>3 DEF ForkRead

\* The source's directory is copied: the copy names the source until it is rewritten.
LEMMA ForkCopyKeeps ==
  ASSUME IInv, NEW s \in Shells, ForkCopy(s)
  PROVE  IInv'
<1>1. shell[s].pc = "copy" /\ UNCHANGED <<created, known, writes, bundle, setup, left>>
  BY DEF ForkCopy
<1>2. CASE Ends(s) /\ UNCHANGED store
  BY <1>1, <1>2, EndsKeeps, Before
<1>3. CASE Exists(shell[s].source) /\ Put(shell[s].session, store[shell[s].source])
           /\ Goes(s, "rewrite")
  <2>1. PICK c : c = [shell[s] EXCEPT !.pc = "rewrite"]
    OBVIOUS
  <2>2. shell' = [shell EXCEPT ![s] = c] /\ c \in Commands
    BY <1>3, <2>1, Before DEF Goes, IInv, TypeOK, Commands, Pcs
  <2>3. /\ c.pc = "rewrite" /\ c.line = shell[s].line /\ c.path = shell[s].path
        /\ c.source = shell[s].source /\ c.session = shell[s].session /\ c.plan = shell[s].plan
        /\ c.held = shell[s].held
    BY <2>1, Before DEF Commands
  <2>4. /\ shell[s].session \in 1..created /\ shell[s].session \notin known
        /\ shell[s].source \in known /\ shell[s].source < shell[s].session
    BY <1>1, Before DEF Fits, Names, Proceeds, Copying, NoSession
  <2>5. Names(c, known, created) /\ Holds(c, known) /\ Proceeds(c) /\ ModeFits(c)
    BY <1>1, <2>3, Before DEF Fits, Names, Holds, Proceeds, ModeFits, Copying, Updating, Forking,
       Settled, Begun, Ended
  <2>6. Follows(c, shell[s], created)
    BY <2>3 DEF Follows
  <2>7. Explained(c.held, c, s)
    BY <2>3 DEF Explained, Descends, Copies
  <2>8. /\ DOMAIN store' = DOMAIN store \cup {shell[s].session}
        /\ store'[shell[s].session] = store[shell[s].source]
        /\ shell[s].source \in DOMAIN store
        /\ \A d \in DOMAIN store \ {shell[s].session} : store'[d] = store[d]
    BY <1>3 DEF Put, Exists
  <2>9. store[shell[s].source].id = shell[s].source /\ store[shell[s].source].updatedAt > 0
    BY <2>4, <2>8 DEF IInv, StoreInOrder
  <2>10. StoreInOrder'
    <3>1. ASSUME NEW d \in DOMAIN store'
          PROVE  /\ store'[d].updatedAt > 0 /\ store'[d].id \in known /\ store'[d].id <= d
                 /\ d \in known => store'[d].id = d
      <4>1. CASE d = shell[s].session
        <5>1. shell[s].source \in Nat /\ shell[s].session \in Nat
          BY <2>4, Before
        <5>2. shell[s].source <= shell[s].session
          BY <2>4, <5>1
        <5>3. store'[d] = store[shell[s].source]
          BY <2>8, <4>1
        <5> QED
          BY <2>4, <2>9, <4>1, <5>2, <5>3
      <4>2. CASE d # shell[s].session
        BY <2>8, <4>2 DEF IInv, StoreInOrder
      <4> QED
        BY <4>1, <4>2
    <3> QED
      BY <1>1, <3>1 DEF StoreInOrder
  <2>11. \A d \in DOMAIN store' : store'[d] \in Manifests /\ Explained(store'[d], c, s)
    BY <2>8, Before DEF Explained, Descends, Copies
  <2>12. /\ created' \in created..MaxSessions /\ known' \subseteq 1..created' /\ known' = known
         /\ DOMAIN store' \subseteq 1..created'
    BY <1>1, <2>4, <2>8, Before
  <2>13. Fits(c, known', created')
    BY <1>1, <2>5 DEF Fits
  <2> QED
    BY <1>1, <2>2, <2>6, <2>7, <2>10, <2>11, <2>12, <2>13, StepKeeps, Before
<1> QED
  BY <1>2, <1>3 DEF ForkCopy

\* The copy's manifest names the copy, and links to nothing.
LEMMA ForkWriteKeeps ==
  ASSUME IInv, NEW s \in Shells, ForkWrite(s)
  PROVE  IInv'
<1>1. shell[s].pc = "rewrite" /\ UNCHANGED <<created, bundle, setup, left>>
  BY DEF ForkWrite
<1>2. CASE Ends(s) /\ UNCHANGED <<store, known, writes>>
  BY <1>1, <1>2, EndsKeeps, Before
<1>3. PICK manifest : manifest = ForkManifest(store[shell[s].source], shell[s].session)
  OBVIOUS
<1>4. CASE /\ Exists(shell[s].source) /\ Exists(shell[s].session)
           /\ Written(shell[s].session, manifest) /\ Goes(s, "ready")
  <2>1. PICK c : c = [shell[s] EXCEPT !.pc = "ready"]
    OBVIOUS
  <2>2. shell' = [shell EXCEPT ![s] = c] /\ c \in Commands
    BY <1>4, <2>1, Before DEF Goes, IInv, TypeOK, Commands, Pcs
  <2>3. /\ c.pc = "ready" /\ c.line = shell[s].line /\ c.path = shell[s].path
        /\ c.source = shell[s].source /\ c.session = shell[s].session /\ c.plan = shell[s].plan
        /\ c.held = shell[s].held
    BY <2>1, Before DEF Commands
  <2>4. /\ shell[s].session \in 1..created /\ shell[s].session \in Sessions
        /\ shell[s].session \in Nat \ {0} /\ shell[s].session <= created
    BY <1>1, Before DEF Fits, Names, Copying, Sessions
  <2>5. manifest \in Manifests /\ manifest.id = shell[s].session /\ manifest.link = NoSession
    <3>1. store[shell[s].source] \in Manifests
      BY <1>4, Before DEF Exists
    <3>2. NoSession \in Sessions \cup {NoSession}
      OBVIOUS
    <3> QED
      BY <1>3, <2>4, <3>1, <3>2 DEF ForkManifest, Manifests
  <2>6. \A m \in Manifests : Copies(m, manifest) => Explained(m, c, s)
    BY <2>5 DEF Explained, Descends, Loose, Copies
  <2>7. created' \in created..MaxSessions /\ shell[s].session <= created'
    BY <1>1, <2>4, Before
  <2>8. /\ StoreInOrder' /\ known' = known \cup {shell[s].session} /\ known' \subseteq 1..created'
        /\ DOMAIN store' \subseteq 1..created' /\ writes' \in 0..MaxWrites
        /\ \A d \in DOMAIN store' : store'[d] \in Manifests /\ Explained(store'[d], c, s)
    BY <1>4, <2>2, <2>4, <2>5, <2>6, <2>7, WrittenInOrder
  <2>9. Names(c, known', created')
    BY <2>3, <2>8, Before DEF Fits, Names, Copying
  <2>10. Holds(c, known') /\ Proceeds(c) /\ ModeFits(c)
    BY <1>1, <2>3, <2>8, Before DEF Fits, Holds, Proceeds, ModeFits, Copying, Updating, Forking,
       Settled, Begun, Ended
  <2>11. Follows(c, shell[s], created)
    BY <2>3 DEF Follows
  <2>12. Explained(c.held, c, s)
    BY <2>3 DEF Explained, Descends, Copies
  <2>13. /\ known \subseteq known' /\ Fits(c, known', created')
         /\ \A id \in known' \ known :
              id > created \/ (shell[s].pc \in Copying /\ id = shell[s].session)
    BY <1>1, <2>8, <2>9, <2>10 DEF Fits, Copying
  <2> QED
    BY <1>1, <2>2, <2>7, <2>8, <2>11, <2>12, <2>13, StepKeeps, Before
<1> QED
  BY <1>2, <1>3, <1>4 DEF ForkWrite

\* A run creates its session.
LEMMA CreateSessionKeeps ==
  ASSUME IInv, NEW s \in Shells, CreateSession(s)
  PROVE  IInv'
<1>1. /\ shell[s].pc = "open" /\ shell[s].session = NoSession /\ Create
      /\ UNCHANGED <<bundle, setup, left>>
  BY DEF CreateSession
<1>2. /\ created' = created + 1 /\ created + 1 \in Sessions /\ created' \in created..MaxSessions
      /\ created' \in Nat /\ Fresh = created + 1 /\ Fresh \in Nat \ {0}
  BY <1>1, Before DEF Create, Fresh, Sessions
<1>3. PICK manifest : manifest =
        [id |-> Fresh, role |-> "standard", link |-> NoSession,
         mode |-> IF PlansFirst(s) THEN "plan" ELSE shell[s].mode, updatedAt |-> 0]
  OBVIOUS
<1>4. shell[s].mode \in AgentModes \cup {"several"}
  BY <1>1, Before DEF Fits, ModeFits, Settled, Commands
<1>5. manifest \in Manifests /\ manifest.id = Fresh /\ manifest.link = NoSession
  BY <1>2, <1>3, <1>4, Before DEF Manifests, AgentModes
<1>6. PICK c : c = [shell[s] EXCEPT !.pc = "working", !.session = Fresh]
  OBVIOUS
<1>7. shell' = [shell EXCEPT ![s] = c] /\ c \in Commands
  <2>1. shell' = [shell EXCEPT ![s] = c]
    BY <1>6 DEF CreateSession, IInv, TypeOK
  <2>2. "working" \in Pcs /\ Fresh \in Sessions /\ shell[s] \in Commands
    BY <1>2, Before DEF Pcs
  <2> QED
    BY <1>6, <2>1, <2>2 DEF Commands
<1>8. /\ c.pc = "working" /\ c.line = shell[s].line /\ c.path = shell[s].path
      /\ c.source = shell[s].source /\ c.session = created + 1 /\ c.plan = shell[s].plan
      /\ c.held = shell[s].held /\ c.mode = shell[s].mode
  BY <1>2, <1>6, Before DEF Commands
<1>9. \A m \in Manifests : Copies(m, manifest) => Explained(m, c, s)
  BY <1>5 DEF Explained, Descends, Loose, Copies
<1>10. Written(Fresh, manifest)
  BY <1>3 DEF CreateSession
<1>11. /\ StoreInOrder' /\ known' = known \cup {Fresh} /\ known' \subseteq 1..created'
       /\ DOMAIN store' \subseteq 1..created' /\ writes' \in 0..MaxWrites
       /\ \A d \in DOMAIN store' : store'[d] \in Manifests /\ Explained(store'[d], c, s)
  BY <1>2, <1>5, <1>7, <1>9, <1>10, WrittenInOrder
<1>12. Names(c, known', created')
  <2>1. /\ shell[s].source \in known \cup {NoSession} /\ shell[s].plan \in known \cup {NoSession}
        /\ shell[s].line.named \in known \cup {NoSession}
    BY Before DEF Fits, Names
  <2>2. shell[s].source < created + 1 /\ shell[s].plan < created + 1
    BY <2>1, Before DEF NoSession
  <2>3. c.session \in known' /\ c.pc \notin Copying
    BY <1>2, <1>8, <1>11 DEF Copying
  <2> QED
    BY <1>8, <1>11, <2>1, <2>2, <2>3 DEF Names
<1>13. Holds(c, known') /\ Proceeds(c)
  BY <1>1, <1>2, <1>8, <1>11, Before DEF Fits, Holds, Proceeds, Updating, Copying, Forking, Begun,
     Ended, NoSession
<1>14. ModeFits(c)
  <2>1. ModeAsked(c) = ModeAsked(shell[s])
    BY <1>8 DEF ModeAsked, InteractiveLine
  <2> QED
    BY <1>1, <1>8, <2>1, Before DEF Fits, ModeFits, Forking, Settled, Begun, Ended
<1>15. Follows(c, shell[s], created) /\ Explained(c.held, c, s)
  BY <1>8, Before DEF Follows, Explained, Descends, Copies
<1>16. /\ known \subseteq known' /\ Fits(c, known', created')
       /\ \A id \in known' \ known :
            id > created \/ (shell[s].pc \in Copying /\ id = shell[s].session)
  BY <1>2, <1>11, <1>12, <1>13, <1>14, Before DEF Fits
<1> QED
  BY <1>1, <1>2, <1>7, <1>11, <1>15, <1>16, StepKeeps, Before

\* An exported session is imported under a new id.
LEMMA ImportSessionKeeps ==
  ASSUME IInv, NEW s \in Shells, ImportSession(s)
  PROVE  IInv'
<1>1. CASE Quits(s)
  BY <1>1, EndsKeeps, Before DEF Quits, ImportSession
<1>2. CASE /\ bundle # NoManifest /\ Create /\ Written(Fresh, [bundle EXCEPT !.id = Fresh])
           /\ Ends(s) /\ UNCHANGED <<bundle, setup, left>>
  <2>1. /\ created' = created + 1 /\ created + 1 \in Sessions /\ created' \in created..MaxSessions
        /\ created' \in Nat /\ Fresh = created + 1 /\ Fresh \in Nat \ {0}
    BY <1>2, Before DEF Create, Fresh, Sessions
  <2>2. PICK manifest : manifest = [bundle EXCEPT !.id = Fresh]
    OBVIOUS
  <2>3. manifest \in Manifests /\ manifest.id = Fresh
    BY <1>2, <2>1, <2>2, Before DEF Manifests
  <2>4. PICK c \in Commands : c = Prompt
    BY PromptFits
  <2>5. /\ Follows(c, shell[s], created) /\ Fits(c, known', created') /\ Explained(c.held, c, s)
        /\ ~Forked(c)
    BY <2>4, PromptFits DEF Follows, Explained, Descends, Forked
  <2>6. ASSUME NEW t \in Shells
        PROVE  shell[t].session # Fresh
    <3>1. shell[t].session \in 1..created \/ shell[t].session \in known \cup {NoSession}
      BY Before DEF Fits, Names
    <3>2. Fresh \notin 1..created /\ Fresh \notin known /\ Fresh # NoSession
      BY <2>1, Before DEF NoSession
    <3> QED
      BY <3>1, <3>2
  <2>7. \A m \in Manifests : Copies(m, manifest) => Explained(m, c, s)
    BY <2>3, <2>5, <2>6 DEF Explained, Unforked, Copies
  <2>8. /\ StoreInOrder' /\ known' = known \cup {Fresh} /\ known' \subseteq 1..created'
        /\ DOMAIN store' \subseteq 1..created' /\ writes' \in 0..MaxWrites
        /\ \A d \in DOMAIN store' : store'[d] \in Manifests /\ Explained(store'[d], c, s)
    <3>1. Written(Fresh, manifest)
      BY <1>2, <2>2
    <3> QED
      BY <2>1, <2>3, <2>7, <3>1, WrittenInOrder
  <2>9. /\ known \subseteq known'
        /\ \A id \in known' \ known :
             id > created \/ (shell[s].pc \in Copying /\ id = shell[s].session)
    BY <2>1, <2>8, Before
  <2> QED
    BY <1>2, <2>1, <2>4, <2>5, <2>8, <2>9, StepKeeps, Before DEF Ends
<1> QED
  BY <1>1, <1>2 DEF ImportSession

\* A session's directory is removed.
LEMMA RemoveDeletedKeeps ==
  ASSUME IInv, NEW s \in Shells, RemoveDeleted(s)
  PROVE  IInv'
<1>1. /\ Ends(s) /\ UNCHANGED <<created, known, writes, bundle, setup, left>>
      /\ DOMAIN store' \subseteq DOMAIN store /\ \A d \in DOMAIN store' : store'[d] = store[d]
  BY DEF RemoveDeleted
<1>2. PICK c \in Commands : c = Prompt
  BY PromptFits
<1>3. Follows(c, shell[s], created) /\ Fits(c, known', created') /\ Explained(c.held, c, s)
  BY <1>2, PromptFits DEF Follows, Explained, Descends
<1>4. StoreInOrder'
  BY <1>1 DEF IInv, StoreInOrder
<1>5. \A d \in DOMAIN store' : store'[d] \in Manifests /\ Explained(store'[d], c, s)
  BY <1>1, Before DEF Explained, Descends, Copies
<1>6. /\ created' \in created..MaxSessions /\ known \subseteq known'
      /\ DOMAIN store' \subseteq 1..created' /\ known' \subseteq 1..created'
  BY <1>1, Before
<1> QED
  BY <1>1, <1>2, <1>3, <1>4, <1>5, <1>6, StepKeeps, Before DEF Ends

-----------------------------------------------------------------------------
(* The theorems.                                                           *)

\* The invariant holds at first.
LEMMA InitInv ==
  ASSUME Init
  PROVE  IInv
<1>1. \A s \in Shells : shell[s] = Prompt /\ Fits(shell[s], known, created)
  BY PromptFits DEF Init
<1>2. /\ Existing \in Seq(Manifests) /\ Len(Existing) \in Nat
      /\ DOMAIN Existing = 1..Len(Existing)
      /\ \A d \in DOMAIN Existing : Existing[d] \in Manifests
  BY CommandLineAssumption
<1>3. TypeOK
  <2>1. created \in 0..MaxSessions /\ writes \in 0..MaxWrites /\ left \in 0..MaxLines
    BY <1>2, CommandLineAssumption DEF Init
  <2>2. shell \in [Shells -> Commands]
    BY PromptFits DEF Init
  <2> QED
    BY <1>2, <2>1, <2>2 DEF Init, TypeOK
<1>4. StoreInOrder
  BY <1>2, CommandLineAssumption DEF Init, StoreInOrder
<1>5. OwnSessions /\ OwnLinks
  BY <1>1, PromptFits DEF OwnSessions, OwnLinks, Own, Forked
<1> QED
  BY <1>1, <1>3, <1>4, <1>5 DEF IInv

\* Every step keeps it.
LEMMA NextInv ==
  ASSUME IInv, [Next]_vars
  PROVE  IInv'
<1>1. CASE UNCHANGED vars
  BY <1>1 DEF vars, IInv, TypeOK, StoreInOrder, OwnSessions, OwnLinks
<1>2. ASSUME NEW s \in Shells, Step(s)
      PROVE  IInv'
  <2>1. CASE BeginResumed(s)
    BY <2>1, ReadKeeps DEF BeginResumed, Updating
  <2>2. CASE EndRun(s)
    <3>1. shell[s].session # NoSession
      BY <2>2, Before DEF EndRun, Fits, Proceeds, Begun
    <3> QED
      BY <2>2, <3>1, ReadKeeps DEF EndRun, Updating
  <2>3. CASE RefusePlan(s)
    <3>1. shell[s].session # NoSession
      BY <2>3, Before DEF RefusePlan, Fits, Proceeds, Begun
    <3> QED
      BY <2>3, <3>1, ReadKeeps DEF RefusePlan, Updating
  <2>4. CASE FindPlan(s)
    <3>1. shell[s].session # NoSession /\ shell[s].plan # NoSession
      BY <2>4, Before DEF FindPlan, Fits, Proceeds, Begun, Ended
    <3> QED
      BY <2>4, <3>1, ReadKeeps DEF FindPlan, Updating
  <2>5. CASE FindExecution(s)
    <3>1. shell[s].session # NoSession /\ shell[s].plan # NoSession
      BY <2>5, Before DEF FindExecution, Fits, Proceeds, Begun, Ended
    <3> QED
      BY <2>5, <3>1, ReadKeeps DEF FindExecution, Updating
  <2>6. CASE MarkRunning(s)
    BY <2>6, WriteKeeps DEF MarkRunning, Updating
  <2>7. CASE MarkEnded(s)
    <3>1. PICK next : next = IF PlansFirst(s) THEN "planned"
                             ELSE IF shell[s].plan # NoSession THEN "executed" ELSE "prompt"
      OBVIOUS
    <3>2. /\ next \in {"working", "planned", "executed", "linked", "prompt"}
          /\ next = "executed" => shell[s].plan # NoSession
      BY <3>1
    <3>3. next # "linked" /\ "ending" \in Updating
      BY <3>1 DEF Updating
    <3> QED
      BY <2>7, <3>1, <3>2, <3>3, WriteKeeps DEF MarkEnded
  <2>8. CASE MarkRefused(s)
    BY <2>8, WriteKeeps DEF MarkRefused, Updating
  <2>9. CASE LinkPlan(s)
    BY <2>9, WriteKeeps DEF LinkPlan, Updating
  <2>10. CASE LinkExecution(s)
    BY <2>10, WriteKeeps DEF LinkExecution, Updating
  <2>11. CASE Report(s) \/ SetUp(s) \/ ExportFails(s) \/ Kill(s)
    BY <2>11, ReportKeeps
  <2>12. CASE \/ Type(s) \/ ExportSession(s) \/ ImportSession(s) \/ FindDeleted(s)
              \/ RemoveDeleted(s)
    BY <2>12, TypeKeeps, ExportKeeps, ImportSessionKeeps, FindDeletedKeeps, RemoveDeletedKeeps
  <2>13. CASE StartTui(s) \/ ChooseSession(s) \/ ForkRead(s) \/ ForkCopy(s) \/ ForkWrite(s)
    BY <2>13, StartTuiKeeps, ChooseSessionKeeps, ForkReadKeeps, ForkCopyKeeps, ForkWriteKeeps
  <2>14. CASE \/ StartRepl(s) \/ StartRun(s) \/ ResumeSession(s) \/ ExecutePlan(s) \/ RunSkill(s)
              \/ CreateSession(s) \/ ApprovePlan(s)
    BY <2>14, StartReplKeeps, StartRunKeeps, ResumeSessionKeeps, ExecutePlanKeeps, RunSkillKeeps,
       CreateSessionKeeps, ApprovePlanKeeps
  <2> QED
    BY <1>2, <2>1, <2>2, <2>3, <2>4, <2>5, <2>6, <2>7, <2>8, <2>9, <2>10, <2>11, <2>12, <2>13,
       <2>14 DEF Step
<1> QED
  BY <1>1, <1>2 DEF Next

\* The invariant, with the types: whatever lines are typed in whatever shells, the sessions on
\* disk, the commands and the ids they go by fit together.
THEOREM Invariance == Spec => []IInv
BY InitInv, NextInv, PTL DEF Spec

\* A single --mode is the mode of the run: rewriting, sessions, slash commands, skills and
\* --auto do not change what the user asked for.
THEOREM ModesRun == Spec => []ExplicitModeRuns
<1>1. ASSUME IInv
      PROVE  ExplicitModeRuns
  <2>1. ASSUME NEW s \in Shells, Running(s), Len(shell[s].line.modes) = 1,
               shell[s].path # <<"session", "resume">>
        PROVE  shell[s].mode = ModeAsked(shell[s])
    BY <1>1, <2>1, Before DEF Running, Fits, ModeFits, Settled, Begun
  <2>2. ASSUME NEW s \in Shells
        PROVE  ModeAsked(shell[s]) =
          IF "auto" \in shell[s].line.options /\ shell[s].line.modes[1] = "edit" /\ ~Interactive(s)
          THEN "agent" ELSE shell[s].line.modes[1]
    BY DEF ModeAsked, InteractiveLine, Interactive, Given
  <2> QED
    BY <2>1, <2>2 DEF ExplicitModeRuns
<1> QED
  BY <1>1, Invariance, PTL

\* No run works in a half-made copy, and a fork is a session of its own: it does not work in
\* its source, nor goes on pointing at the source's plan or execution.
THEOREM ForksOwn == Spec => []ForksAreOwn
<1>1. ASSUME IInv
      PROVE  ForksAreOwn
  <2>1. ASSUME NEW s \in Shells, Running(s)
        PROVE  /\ Exists(shell[s].session) =>
                    /\ store[shell[s].session].id = shell[s].session
                    /\ shell[s].session # NoSession
               /\ shell[s].source # NoSession => shell[s].session # shell[s].source
    <3>1. shell[s].session \in known \cup {NoSession}
      BY <1>1, <2>1, Before DEF Running, Fits, Names, Copying
    <3>2. Exists(shell[s].session) => shell[s].session \in known /\ shell[s].session # NoSession
      BY <1>1, <3>1, Before DEF Exists, NoSession
    <3>3. shell[s].source # NoSession => shell[s].session # shell[s].source
      <4>1. shell[s].session \in Nat /\ shell[s].source \in Nat
        BY <1>1, <3>1, Before DEF Fits, Names, NoSession
      <4>2. shell[s].session # NoSession => shell[s].source < shell[s].session
        BY <1>1, Before DEF Fits, Names
      <4> QED
        BY <4>1, <4>2
    <3> QED
      BY <1>1, <3>2, <3>3 DEF IInv, StoreInOrder, Exists
  <2>2. ASSUME NEW s \in Shells, Running(s), shell[s].source # NoSession, Exists(shell[s].session)
        PROVE  \/ store[shell[s].session].link = NoSession
               \/ store[shell[s].session].link > shell[s].session
    BY <1>1, <2>1, <2>2 DEF IInv, OwnLinks, Forked, Loose, Exists
  <2> QED
    BY <2>1, <2>2 DEF ForksAreOwn
<1> QED
  BY <1>1, Invariance, PTL

\* What brings a deleted session back is the write of an update that had read it before.
THEOREM DeletedStays == Spec => DeletedStaysDeleted
<1> DEFINE Stays == \A d \in 1..created : ~Exists(d) /\ Exists(d)' =>
                      \E s \in Shells : \/ shell[s].pc = "copy" /\ shell[s].session = d
                                        \/ shell[s].held.id = d /\ shell[s].held.updatedAt > 0
<1>1. ASSUME IInv, [Next]_vars
      PROVE  [Stays]_vars
  <2>1. ASSUME NEW s \in Shells, Step(s), NEW d \in 1..created, ~Exists(d), Exists(d)'
        PROVE  \/ shell[s].pc = "copy" /\ shell[s].session = d
               \/ shell[s].held.id = d /\ shell[s].held.updatedAt > 0
    <3>1. ASSUME NEW id, NEW manifest, Written(id, manifest)
          PROVE  d = id
      BY <2>1, <3>1 DEF Written, Put, Exists
    <3>2. CASE \E pc \in Updating : \E next : WriteManifest(s, pc, next)
      <4>1. shell[s].held.id = d /\ shell[s].pc \in Updating
        BY <3>1, <3>2 DEF WriteManifest
      <4> QED
        BY <1>1, <4>1, Before DEF Fits, Holds
    <3>3. CASE ForkCopy(s)
      BY <2>1, <3>3 DEF ForkCopy, Put, Exists
    <3>4. CASE ForkWrite(s)
      <4>1. d = shell[s].session /\ Exists(shell[s].session)
        BY <2>1, <3>1, <3>4 DEF ForkWrite, Exists
      <4> QED
        BY <2>1, <4>1
    <3>5. CASE CreateSession(s) \/ ImportSession(s)
      <4>1. UNCHANGED store \/ d = Fresh
        BY <3>1, <3>5 DEF CreateSession, ImportSession, Quits
      <4> QED
        BY <1>1, <2>1, <4>1, Before DEF Fresh, Exists
    <3>6. CASE UNCHANGED store \/ RemoveDeleted(s)
      BY <2>1, <3>6 DEF RemoveDeleted, Exists
    <3>7. \/ UNCHANGED store \/ RemoveDeleted(s) \/ ForkCopy(s) \/ ForkWrite(s)
          \/ CreateSession(s) \/ ImportSession(s)
          \/ MarkRunning(s) \/ MarkEnded(s) \/ MarkRefused(s) \/ LinkPlan(s) \/ LinkExecution(s)
      BY <2>1 DEF Step, Type, Report, SetUp, ExportSession, ExportFails, FindDeleted, StartTui,
         ChooseSession, ForkRead, StartRepl, StartRun, ResumeSession, ExecutePlan, RunSkill,
         BeginResumed, EndRun, RefusePlan, ApprovePlan, FindPlan, FindExecution, ReadManifest,
         Kill, Quits
    <3>8. ASSUME MarkRunning(s) \/ MarkEnded(s) \/ MarkRefused(s) \/ LinkPlan(s) \/ LinkExecution(s)
          PROVE  \E pc \in Updating : \E next : WriteManifest(s, pc, next)
      BY <3>8 DEF MarkRunning, MarkEnded, MarkRefused, LinkPlan, LinkExecution, Updating
    <3> QED
      BY <3>2, <3>3, <3>4, <3>5, <3>6, <3>7, <3>8
  <2>2. CASE Next
    BY <2>1, <2>2 DEF Next
  <2> QED
    BY <1>1, <2>2
<1>2. [][Stays]_vars => DeletedStaysDeleted
  BY PTL DEF DeletedStaysDeleted
<1>3. IInv /\ [Next]_vars => [Stays]_vars
  BY <1>1
<1> HIDE DEF Stays
<1> QED
  BY <1>2, <1>3, Invariance, PTL DEF Spec
=============================================================================
