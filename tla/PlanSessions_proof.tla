------------------------- MODULE PlanSessions_proof -------------------------
(***************************************************************************)
(* Proofs about PlanSessions, for any number of tasks, commands and        *)
(* crashes: the invariant, and that plan-first tasks keep PlanProtocol.    *)
(***************************************************************************)
EXTENDS PlanSessions, TLAPS

Undecided == {"idle", "planning", "planned", "proposing", "waiting"}
AfterExecution == {"executed", "linked", "ended"}
OfTasks == {"planning", "planned", "proposing", "waiting", "refused"}

\* Only tasks plan and are refused, only commands check; a command that went
\* on has a target.
PlacesAgree ==
  /\ \A p \in Plans : at[p] # "checked"
  /\ \A c \in Commands :
       at[c] \notin OfTasks /\ (at[c] \notin {"idle", "ended"} => target[c] \in Plans)

\* How far a task has come tells whether its plan was decided on, and how.
AnswerAgrees ==
  \A p \in Plans :
    /\ p \in pending => at[p] = "waiting"
    /\ at[p] \in Undecided => answer[p] = "none"
    /\ at[p] = "refused" => answer[p] \notin Consents
    /\ at[p] \in {"executing", "executed", "linked"} => answer[p] \in Consents

\* Whoever executes, or has a link to write, is known to have executed.
ExecutionAgrees ==
  \A a \in Actors :
    at[a] \in {"executing", "executed", "linked"} => a \in executed[PlanOf(a)]

\* A manifest of plan session p names an execution of p that is over.
TrueLink(p, manifest) ==
  LET a == manifest.execute IN
  a # "none" => a \in executed[p] /\ at[a] \in AfterExecution

\* So do the manifests on disk and those still to be written.
ManifestsAreTrue ==
  /\ \A p \in Plans : TrueLink(p, file[p].content)
  /\ \A a \in Actors : update[a].stage # "idle" =>
       at[a] \in {"refused", "executed"} /\ TrueLink(PlanOf(a), update[a].manifest)

BacklinksAreTrue ==
  \A a \in Actors : backlink[a] # "none" => a \in executed[backlink[a]]

IInv ==
  /\ TypeOK /\ PlacesAgree /\ AnswerAgrees /\ AnswerIsCarriedOut
  /\ ExecutionAgrees /\ ManifestsAreTrue /\ BacklinksAreTrue

\* The values actions store are in the domains of TypeOK.
LEMMA ValueTypes ==
  /\ NoManifest \in Manifests /\ NewManifest \in Manifests /\ NoUpdate \in Updates
  /\ \A status \in {"success", "failed"} : [NewManifest EXCEPT !.status = status] \in Manifests
  /\ \A m \in Manifests, a \in Actors : Updated(a, m) \in Manifests
  /\ OpenedFile(NoManifest) \in [state: FileStates, content: Manifests]
  /\ \A m \in Manifests : WholeFile(m) \in [state: FileStates, content: Manifests]
  /\ \A m \in Manifests : \A f : \A g \in WrittenOver(f, m, NoManifest) :
       g \in [state: FileStates, content: Manifests]
<1>1. NoManifest \in Manifests /\ NewManifest \in Manifests
  BY DEF NoManifest, NewManifest, Manifests
<1>2. NoUpdate \in Updates
  BY <1>1 DEF NoUpdate, Updates
<1>3. \A m \in Manifests : WholeFile(m) \in [state: FileStates, content: Manifests]
  BY DEF WholeFile, FileStates
<1>4. OpenedFile(NoManifest) \in [state: FileStates, content: Manifests]
  BY <1>1 DEF OpenedFile, FileStates
<1>5. GarbledFile(NoManifest) \in [state: FileStates, content: Manifests]
  BY <1>1 DEF GarbledFile, FileStates
<1>6. \A status \in {"success", "failed"} : [NewManifest EXCEPT !.status = status] \in Manifests
  BY DEF NewManifest, Manifests
<1>7. \A m \in Manifests, a \in Actors : Updated(a, m) \in Manifests
  BY DEF Updated, Manifests
<1> QED
  BY <1>1, <1>2, <1>3, <1>4, <1>5, <1>6, <1>7 DEF WrittenOver

\* The invariant holds before anything has begun.
LEMMA InitHolds == Init => IInv
<1> SUFFICES ASSUME Init PROVE IInv
  OBVIOUS
<1>1. TypeOK
  BY ValueTypes, PlansAssumption DEF Init, TypeOK, Places, Answers, AbsentFile, FileStates
<1>2. PlacesAgree /\ AnswerAgrees
  BY PlansAssumption DEF Init, PlacesAgree, AnswerAgrees, OfTasks, Actors
<1>3. AnswerIsCarriedOut /\ ExecutionAgrees /\ BacklinksAreTrue
  BY DEF Init, AnswerIsCarriedOut, ExecutionAgrees, BacklinksAreTrue, Consents
<1>4. ManifestsAreTrue
  BY DEF Init, ManifestsAreTrue, TrueLink, AbsentFile, NoManifest, NoUpdate
<1> QED
  BY <1>1, <1>2, <1>3, <1>4 DEF IInv

\* True links, on disk and in updates under way, stay true while executions
\* are not forgotten and those that are over stay over.
LEMMA ManifestsStay ==
  ASSUME IInv, file' = file, target' = target,
         \A a \in Actors : at[a] \in AfterExecution => at'[a] \in AfterExecution,
         \A p \in Plans : executed[p] \subseteq executed'[p],
         \A a \in Actors : update'[a].stage # "idle" =>
            update'[a] = update[a] /\ at'[a] = at[a]
  PROVE  ManifestsAreTrue'
<1>1. ASSUME NEW p \in Plans PROVE TrueLink(p, file[p].content)'
  <2>1. file[p].content \in Manifests /\ TrueLink(p, file[p].content)
    BY DEF IInv, TypeOK, ManifestsAreTrue
  <2> DEFINE m == file[p].content
  <2>2. TrueLink(p, m)'
    BY <2>1 DEF TrueLink, Manifests
  <2> QED
    BY <2>2
<1>2. ASSUME NEW a \in Actors, update'[a].stage # "idle"
      PROVE  at'[a] \in {"refused", "executed"} /\ TrueLink(PlanOf(a), update[a].manifest)'
  <2>1. update'[a] = update[a] /\ at'[a] = at[a] /\ at[a] \in {"refused", "executed"}
    BY <1>2 DEF IInv, ManifestsAreTrue
  <2>2. PlanOf(a) \in Plans /\ PlanOf(a)' = PlanOf(a)
    BY <2>1, PlansAssumption DEF IInv, PlacesAgree, PlanOf, Actors, OfTasks
  <2>3. update[a].manifest \in Manifests /\ TrueLink(PlanOf(a), update[a].manifest)
    BY <1>2, <2>1 DEF IInv, TypeOK, ManifestsAreTrue, Updates
  <2> QED
    BY <2>1, <2>2, <2>3 DEF TrueLink, Manifests
<1> QED
  BY <1>1, <1>2 DEF ManifestsAreTrue

\* A decision on a plan that is not decided on yet.
LEMMA DecisionKeeps ==
  ASSUME IInv, NEW p \in Plans, NEW how \in Answers \ {"none"},
         at[p] \in {"proposing", "waiting"}, Decide(p, how),
         aborted' \in [Plans -> BOOLEAN], pending' = pending \ {p},
         UNCHANGED <<target, saved, file, update, backlink, crashes>>
  PROVE  IInv'
<1>1. /\ \A a \in Actors : a # p => at'[a] = at[a]
      /\ at'[p] = IF how \in Consents THEN "executing" ELSE "refused"
      /\ \A q \in Plans : q # p => executed'[q] = executed[q]
      /\ executed'[p] = IF how \in Consents THEN executed[p] \cup {p} ELSE executed[p]
      /\ answer'[p] = how /\ \A q \in Plans : q # p => answer'[q] = answer[q]
      /\ at' \in [Actors -> Places] /\ executed' \in [Plans -> SUBSET Actors]
      /\ answer' \in [Plans -> Answers]
  <2>1. CASE how \in Consents
    BY <2>1 DEF IInv, TypeOK, Decide, Execute, Places, Actors
  <2>2. CASE how \notin Consents
    BY <2>2 DEF IInv, TypeOK, Decide, Places, Actors
  <2> QED
    BY <2>1, <2>2
<1>2. TypeOK'
  BY <1>1 DEF IInv, TypeOK
<1>3. PlacesAgree'
  BY <1>1, PlansAssumption DEF IInv, PlacesAgree, Actors, OfTasks
<1>4. AnswerAgrees'
  BY <1>1 DEF IInv, AnswerAgrees, Actors, Undecided
<1>5. AnswerIsCarriedOut'
  BY <1>1 DEF IInv, AnswerAgrees, AnswerIsCarriedOut, Undecided, Consents
<1>6. ExecutionAgrees'
  <2> SUFFICES ASSUME NEW a \in Actors, at'[a] \in {"executing", "executed", "linked"}
               PROVE  a \in executed'[PlanOf(a)]
    BY DEF ExecutionAgrees, PlanOf
  <2>1. CASE a = p
    BY <1>1, <2>1 DEF PlanOf
  <2>2. CASE a # p
    <3>1. a \in executed[PlanOf(a)] /\ PlanOf(a) \in Plans
      BY <1>1, <2>2, PlansAssumption
      DEF IInv, TypeOK, ExecutionAgrees, PlacesAgree, PlanOf, Actors
    <3> QED
      BY <1>1, <3>1
  <2> QED
    BY <2>1, <2>2
<1>7. ManifestsAreTrue'
  <2>1. update[p].stage = "idle"
    BY DEF IInv, ManifestsAreTrue, Actors
  <2>2. \A a \in Actors : at[a] \in AfterExecution => at'[a] \in AfterExecution
    BY <1>1 DEF AfterExecution
  <2> QED
    BY <1>1, <2>1, <2>2, ManifestsStay
<1>8. BacklinksAreTrue'
  BY <1>1 DEF IInv, TypeOK, BacklinksAreTrue
<1> QED
  BY <1>2, <1>3, <1>4, <1>5, <1>6, <1>7, <1>8 DEF IInv

\* A new plan session names no execution.
LEMMA StartKeeps == ASSUME IInv, NEW p \in Plans, Start(p) PROVE IInv'
<1>1. TypeOK'
  BY ValueTypes, PlansAssumption DEF IInv, TypeOK, Actors, Start, Places, Answers
<1>2. PlacesAgree'
  BY PlansAssumption DEF IInv, PlacesAgree, Start
<1>3. AnswerAgrees'
  BY DEF IInv, AnswerAgrees, Undecided, Start
<1>4. AnswerIsCarriedOut'
  BY DEF IInv, AnswerIsCarriedOut, Start
<1>5. ExecutionAgrees'
  BY DEF IInv, ExecutionAgrees, PlanOf, Start
<1>6. ManifestsAreTrue'
  <2>1. /\ \A a \in Actors : a # p => at'[a] = at[a]
        /\ file'[p] = WholeFile(NewManifest) /\ \A q \in Plans : q # p => file'[q] = file[q]
    BY DEF IInv, TypeOK, Start
  <2>2. at[p] \notin AfterExecution /\ update[p].stage = "idle"
    BY DEF IInv, ManifestsAreTrue, Start, AfterExecution, Actors
  <2>3. ASSUME NEW q \in Plans PROVE TrueLink(q, file[q].content)'
    <3>1. CASE q = p
      <4>1. file'[q].content.execute = "none"
        BY <2>1, <3>1 DEF WholeFile, NewManifest
      <4> QED
        BY <4>1 DEF TrueLink
    <3>2. CASE q # p
      <4>1. file'[q] = file[q] /\ file[q].content \in Manifests /\ TrueLink(q, file[q].content)
        BY <2>1, <3>2 DEF IInv, TypeOK, ManifestsAreTrue
      <4> QED
        BY <2>1, <2>2, <4>1 DEF Start, TrueLink, Manifests
    <3> QED
      BY <3>1, <3>2
  <2>4. ASSUME NEW a \in Actors, update[a].stage # "idle"
        PROVE  at'[a] \in {"refused", "executed"} /\ TrueLink(PlanOf(a), update[a].manifest)'
    <3>1. a # p /\ at[a] \in {"refused", "executed"} /\ TrueLink(PlanOf(a), update[a].manifest)
      BY <2>2, <2>4 DEF IInv, ManifestsAreTrue
    <3>2. update[a].manifest \in Manifests
      BY DEF IInv, TypeOK, Updates
    <3> QED
      BY <2>1, <2>2, <3>1, <3>2 DEF Start, TrueLink, Manifests, PlanOf
  <2> QED
    BY <2>3, <2>4 DEF ManifestsAreTrue, Start
<1>7. BacklinksAreTrue'
  BY DEF IInv, BacklinksAreTrue, Start
<1> QED
  BY <1>1, <1>2, <1>3, <1>4, <1>5, <1>6, <1>7 DEF IInv

\* Saving a plan decides nothing and links nothing.
LEMMA SavePlanKeeps == ASSUME IInv, NEW p \in Plans, SavePlan(p) PROVE IInv'
<1>1. TypeOK'
  BY ValueTypes, PlansAssumption DEF IInv, TypeOK, Actors, SavePlan, Places, Answers
<1>2. PlacesAgree'
  BY PlansAssumption DEF IInv, PlacesAgree, SavePlan
<1>3. AnswerAgrees'
  BY DEF IInv, AnswerAgrees, Undecided, SavePlan
<1>4. AnswerIsCarriedOut'
  BY DEF IInv, AnswerIsCarriedOut, SavePlan
<1>5. ExecutionAgrees'
  BY DEF IInv, ExecutionAgrees, PlanOf, SavePlan
<1>6. ManifestsAreTrue'
  <2>1. \A a \in Actors : a # p => at'[a] = at[a]
    BY DEF IInv, TypeOK, SavePlan
  <2>2. at[p] \notin AfterExecution /\ update[p].stage = "idle"
    BY DEF IInv, ManifestsAreTrue, SavePlan, AfterExecution, Actors
  <2> QED
    BY <2>1, <2>2, ManifestsStay DEF SavePlan
<1>7. BacklinksAreTrue'
  BY DEF IInv, BacklinksAreTrue, SavePlan
<1> QED
  BY <1>1, <1>2, <1>3, <1>4, <1>5, <1>6, <1>7 DEF IInv

\* The end of planning overwrites a manifest without a link with another.
LEMMA EndPlanningKeeps ==
  ASSUME IInv, NEW p \in Plans, NEW status \in {"success", "failed"}, EndPlanning(p, status)
  PROVE  IInv'
<1>1. TypeOK'
  BY ValueTypes DEF IInv, TypeOK, EndPlanning, Places
<1>2. PlacesAgree'
  BY PlansAssumption DEF IInv, PlacesAgree, EndPlanning
<1>3. AnswerAgrees'
  BY DEF IInv, AnswerAgrees, Undecided, EndPlanning
<1>4. AnswerIsCarriedOut'
  BY DEF IInv, AnswerIsCarriedOut, EndPlanning
<1>5. ExecutionAgrees'
  BY DEF IInv, ExecutionAgrees, PlanOf, EndPlanning
<1>6. ManifestsAreTrue'
  <2>1. /\ \A a \in Actors : a # p => at'[a] = at[a]
        /\ file'[p] = WholeFile([NewManifest EXCEPT !.status = status])
        /\ \A q \in Plans : q # p => file'[q] = file[q]
    BY DEF IInv, TypeOK, EndPlanning
  <2>2. at[p] \notin AfterExecution /\ update[p].stage = "idle"
    BY DEF IInv, ManifestsAreTrue, EndPlanning, AfterExecution, Actors
  <2>3. ASSUME NEW q \in Plans PROVE TrueLink(q, file[q].content)'
    <3>1. CASE q = p
      <4>1. file'[q].content.execute = "none"
        BY <2>1, <3>1 DEF WholeFile, NewManifest
      <4> QED
        BY <4>1 DEF TrueLink
    <3>2. CASE q # p
      <4>1. file'[q] = file[q] /\ file[q].content \in Manifests /\ TrueLink(q, file[q].content)
        BY <2>1, <3>2 DEF IInv, TypeOK, ManifestsAreTrue
      <4> QED
        BY <2>1, <2>2, <4>1 DEF EndPlanning, TrueLink, Manifests
    <3> QED
      BY <3>1, <3>2
  <2>4. ASSUME NEW a \in Actors, update[a].stage # "idle"
        PROVE  at'[a] \in {"refused", "executed"} /\ TrueLink(PlanOf(a), update[a].manifest)'
    <3>1. a # p /\ at[a] \in {"refused", "executed"} /\ TrueLink(PlanOf(a), update[a].manifest)
      BY <2>2, <2>4 DEF IInv, ManifestsAreTrue
    <3>2. update[a].manifest \in Manifests
      BY DEF IInv, TypeOK, Updates
    <3> QED
      BY <2>1, <2>2, <3>1, <3>2 DEF EndPlanning, TrueLink, Manifests, PlanOf
  <2> QED
    BY <2>3, <2>4 DEF ManifestsAreTrue, EndPlanning
<1>7. BacklinksAreTrue'
  BY DEF IInv, BacklinksAreTrue, EndPlanning
<1> QED
  BY <1>1, <1>2, <1>3, <1>4, <1>5, <1>6, <1>7 DEF IInv

\* A plan that enters the queue is undecided, or is denied at once.
LEMMA ProposeKeeps == ASSUME IInv, NEW p \in Plans, Propose(p) PROVE IInv'
<1>1. CASE aborted[p]
  <2>1. p \notin pending
    BY DEF IInv, AnswerAgrees, Propose
  <2> QED
    BY <1>1, <2>1, DecisionKeeps DEF Propose, Answers, IInv, TypeOK
<1>2. CASE ~aborted[p]
  <2>1. /\ at[p] = "proposing" /\ at' = [at EXCEPT ![p] = "waiting"] /\ pending' = pending \cup {p}
        /\ UNCHANGED <<target, aborted, answer, saved, file, update, executed, backlink, crashes>>
    BY <1>2 DEF Propose
  <2>2. /\ \A a \in Actors : a # p => at'[a] = at[a]
        /\ at'[p] = "waiting" /\ at' \in [Actors -> Places]
    BY <2>1 DEF IInv, TypeOK, Actors, Places
  <2>3. TypeOK'
    BY <2>1, <2>2 DEF IInv, TypeOK
  <2>4. PlacesAgree'
    BY <2>1, <2>2, PlansAssumption DEF IInv, PlacesAgree, Actors, OfTasks
  <2>5. AnswerAgrees' /\ AnswerIsCarriedOut'
    BY <2>1, <2>2 DEF IInv, AnswerAgrees, AnswerIsCarriedOut, Undecided
  <2>6. ExecutionAgrees' /\ BacklinksAreTrue'
    BY <2>1, <2>2 DEF IInv, ExecutionAgrees, BacklinksAreTrue, PlanOf
  <2>7. ManifestsAreTrue'
    <3>1. update[p].stage = "idle"
      BY <2>1 DEF IInv, ManifestsAreTrue, Actors
    <3> QED
      BY <2>1, <2>2, <3>1, ManifestsStay DEF AfterExecution
  <2> QED
    BY <2>3, <2>4, <2>5, <2>6, <2>7 DEF IInv
<1> QED
  BY <1>1, <1>2

\* Without a handler the plan is decided before it is in the queue.
LEMMA DecideWithoutAskingKeeps ==
  ASSUME IInv, NEW p \in Plans, NEW how \in {"auto", "unattended"}, DecideWithoutAsking(p, how)
  PROVE  IInv'
<1>1. p \notin pending
  BY DEF IInv, AnswerAgrees, DecideWithoutAsking
<1> QED
  BY <1>1, DecisionKeeps DEF DecideWithoutAsking, Answers, IInv, TypeOK

\* A plan in the queue is undecided when it is answered.
LEMMA AnswerKeeps ==
  ASSUME IInv, NEW p \in Plans, NEW how \in {"approved", "denied"}, Answer(p, how)
  PROVE  IInv'
  BY DecisionKeeps DEF Answer, Answers, IInv, TypeOK, AnswerAgrees

\* An abort decides on a plan in the queue and on no other.
LEMMA AbortKeeps == ASSUME IInv, NEW p \in Plans, Abort(p) PROVE IInv'
<1>1. aborted' \in [Plans -> BOOLEAN]
  BY DEF IInv, TypeOK, Abort
<1>2. CASE p \in pending
  BY <1>1, <1>2, DecisionKeeps DEF Abort, Answers, IInv, AnswerAgrees
<1>3. CASE p \notin pending
  <2>1. UNCHANGED <<at, target, pending, answer, saved, file, update, executed, backlink, crashes>>
    BY <1>3 DEF Abort
  <2> QED
    BY <1>1, <2>1 DEF IInv, TypeOK, PlacesAgree, AnswerAgrees, AnswerIsCarriedOut,
      ExecutionAgrees, ManifestsAreTrue, TrueLink, BacklinksAreTrue, PlanOf
<1> QED
  BY <1>2, <1>3

\* A command that goes on has a target.
LEMMA CheckKeeps ==
  ASSUME IInv, NEW c \in Commands, NEW p \in Plans, Check(c, p)
  PROVE  IInv'
<1>1. TypeOK'
  BY ValueTypes, PlansAssumption DEF IInv, TypeOK, Actors, Check, Places, Answers
<1>2. PlacesAgree'
  BY PlansAssumption DEF IInv, TypeOK, PlacesAgree, OfTasks, Check
<1>3. AnswerAgrees'
  BY PlansAssumption DEF IInv, AnswerAgrees, Check
<1>4. AnswerIsCarriedOut'
  BY DEF IInv, AnswerIsCarriedOut, Check
<1>5. ExecutionAgrees'
  BY DEF IInv, ExecutionAgrees, PlanOf, Check
<1>6. ManifestsAreTrue'
  BY DEF IInv, ManifestsAreTrue, TrueLink, AfterExecution, PlanOf, Check
<1>7. BacklinksAreTrue'
  BY DEF IInv, BacklinksAreTrue, Check
<1> QED
  BY <1>1, <1>2, <1>3, <1>4, <1>5, <1>6, <1>7 DEF IInv

\* A command that executes is known to have executed.
LEMMA ReadPlanKeeps ==
  ASSUME IInv, NEW c \in Commands, ReadPlan(c)
  PROVE  IInv'
<1>1. TypeOK'
  <2>1. at' \in [Actors -> Places] /\ executed' \in [Plans -> SUBSET Actors]
    <3>1. CASE target[c] \in saved
      <4>1. /\ at' = [at EXCEPT ![c] = "executing"]
            /\ executed' = [executed EXCEPT ![target[c]] = @ \cup {c}]
        BY <3>1 DEF ReadPlan, Execute
      <4>2. at' \in [Actors -> Places]
        BY <4>1 DEF IInv, TypeOK, Places
      <4>3. executed' \in [Plans -> SUBSET Actors]
        BY <4>1 DEF IInv, TypeOK, Actors
      <4> QED
        BY <4>2, <4>3
    <3>2. CASE target[c] \notin saved
      BY <3>2 DEF IInv, TypeOK, ReadPlan, Places, Actors
    <3> QED
      BY <3>1, <3>2
  <2> QED
    BY <2>1 DEF IInv, TypeOK, ReadPlan
<1>2. PlacesAgree'
  BY DEF IInv, TypeOK, PlacesAgree, Actors, OfTasks, ReadPlan, Execute
<1>3. AnswerAgrees'
  BY PlansAssumption DEF IInv, TypeOK, AnswerAgrees, Actors, ReadPlan, Execute
<1>4. AnswerIsCarriedOut'
  BY PlansAssumption DEF IInv, TypeOK, AnswerAgrees, AnswerIsCarriedOut, ReadPlan, Execute
<1>5. ExecutionAgrees'
  BY DEF IInv, TypeOK, PlacesAgree, ExecutionAgrees, Actors, PlanOf, ReadPlan, Execute
<1>6. ManifestsAreTrue'
  <2>1. /\ \A a \in Actors : a # c => at'[a] = at[a]
        /\ \A p \in Plans : executed[p] \subseteq executed'[p]
    BY DEF IInv, TypeOK, ReadPlan, Execute
  <2>2. at[c] \notin AfterExecution /\ update[c].stage = "idle"
    BY DEF IInv, ManifestsAreTrue, ReadPlan, AfterExecution, Actors
  <2> QED
    BY <2>1, <2>2, ManifestsStay DEF ReadPlan
<1>7. BacklinksAreTrue'
  BY DEF IInv, TypeOK, BacklinksAreTrue, ReadPlan, Execute
<1> QED
  BY <1>1, <1>2, <1>3, <1>4, <1>5, <1>6, <1>7 DEF IInv

\* An execution that ends makes no link, and breaks none.
LEMMA EndExecutionKeeps ==
  ASSUME IInv, NEW a \in Actors, NEW place \in {"executed", "ended"}, EndExecution(a, place)
  PROVE  IInv'
<1>1. TypeOK'
  BY DEF IInv, TypeOK, EndExecution, Places
<1>2. PlacesAgree'
  BY DEF IInv, PlacesAgree, OfTasks, EndExecution
<1>3. AnswerAgrees'
  BY DEF IInv, AnswerAgrees, Undecided, EndExecution
<1>4. AnswerIsCarriedOut'
  BY DEF IInv, AnswerIsCarriedOut, EndExecution
<1>5. ExecutionAgrees'
  BY DEF IInv, ExecutionAgrees, PlanOf, EndExecution
<1>6. ManifestsAreTrue'
  BY DEF IInv, ManifestsAreTrue, TrueLink, AfterExecution, PlanOf, EndExecution
<1>7. BacklinksAreTrue'
  BY DEF IInv, BacklinksAreTrue, EndExecution
<1> QED
  BY <1>1, <1>2, <1>3, <1>4, <1>5, <1>6, <1>7 DEF IInv

\* What is to be written is true: the link is to an execution that is over.
LEMMA ReadManifestKeeps ==
  ASSUME IInv, NEW a \in Actors, ReadManifest(a)
  PROVE  IInv'
<1>1. TypeOK'
  <2>1. PlanOf(a) \in Plans
    BY DEF IInv, PlacesAgree, ReadManifest, MustUpdate, PlanOf, Actors
  <2>2. CASE file[PlanOf(a)].state = "whole"
    <3>1. Updated(a, file[PlanOf(a)].content) \in Manifests
      BY <2>1, ValueTypes DEF IInv, TypeOK
    <3>2. update' \in [Actors -> Updates]
      BY <2>2, <3>1 DEF IInv, TypeOK, ReadManifest, Updates
    <3> QED
      BY <2>2, <3>2 DEF IInv, TypeOK, ReadManifest
  <2>3. CASE file[PlanOf(a)].state # "whole"
    BY <2>3 DEF IInv, TypeOK, ReadManifest, Places
  <2> QED
    BY <2>2, <2>3
<1>2. PlacesAgree'
  BY DEF IInv, TypeOK, PlacesAgree, Actors, OfTasks, ReadManifest
<1>3. AnswerAgrees'
  BY DEF IInv, TypeOK, AnswerAgrees, Actors, Undecided, ReadManifest, MustUpdate
<1>4. AnswerIsCarriedOut'
  BY DEF IInv, AnswerIsCarriedOut, ReadManifest
<1>5. ExecutionAgrees'
  BY DEF IInv, TypeOK, ExecutionAgrees, PlanOf, ReadManifest
<1>6. ManifestsAreTrue'
  <2>1. CASE file[PlanOf(a)].state = "whole"
    <3>1. at' = at /\ executed' = executed /\ file' = file /\ target' = target
      BY <2>1 DEF ReadManifest
    <3>2. \A b \in Actors : b # a => update'[b] = update[b]
      BY <2>1 DEF IInv, TypeOK, ReadManifest
    <3>3. PlanOf(a) \in Plans /\ at[a] \in {"refused", "executed"}
      BY DEF IInv, PlacesAgree, ReadManifest, MustUpdate, PlanOf, Actors
    <3>4. update'[a].manifest = Updated(a, file[PlanOf(a)].content)
      BY <2>1 DEF IInv, TypeOK, ReadManifest
    <3>5. TrueLink(PlanOf(a), file[PlanOf(a)].content) /\ file[PlanOf(a)].content \in Manifests
      BY <3>3 DEF IInv, TypeOK, ManifestsAreTrue
    <3>6. TrueLink(PlanOf(a), Updated(a, file[PlanOf(a)].content))
      <4>1. CASE at[a] = "refused"
        BY <3>5, <4>1 DEF TrueLink, Updated, Manifests
      <4>2. CASE at[a] = "executed"
        BY <4>2 DEF TrueLink, Updated, AfterExecution, IInv, ExecutionAgrees
      <4> QED
        BY <3>3, <4>1, <4>2
    <3> QED
      BY <3>1, <3>2, <3>3, <3>4, <3>6 DEF IInv, ManifestsAreTrue, TrueLink, PlanOf
  <2>2. CASE file[PlanOf(a)].state # "whole"
    <3>1. \A b \in Actors : b # a => at'[b] = at[b]
      BY <2>2 DEF IInv, TypeOK, ReadManifest
    <3>2. at'[a] = "ended" /\ update[a].stage = "idle"
      BY <2>2 DEF IInv, TypeOK, ReadManifest
    <3> QED
      BY <2>2, <3>1, <3>2, ManifestsStay DEF ReadManifest, AfterExecution
  <2> QED
    BY <2>1, <2>2
<1>7. BacklinksAreTrue'
  BY DEF IInv, BacklinksAreTrue, ReadManifest
<1> QED
  BY <1>1, <1>2, <1>3, <1>4, <1>5, <1>6, <1>7 DEF IInv

\* An empty manifest names no execution.
LEMMA OpenManifestKeeps ==
  ASSUME IInv, NEW a \in Actors, OpenManifest(a)
  PROVE  IInv'
<1>1. TypeOK'
  <2>1. update' \in [Actors -> Updates]
    BY DEF IInv, TypeOK, OpenManifest, Updates
  <2>2. file' \in [Plans -> [state: FileStates, content: Manifests]]
    BY ValueTypes DEF IInv, TypeOK, OpenManifest
  <2> QED
    BY <2>1, <2>2 DEF IInv, TypeOK, OpenManifest
<1>2. PlacesAgree'
  BY DEF IInv, PlacesAgree, OpenManifest
<1>3. AnswerAgrees'
  BY DEF IInv, AnswerAgrees, OpenManifest
<1>4. AnswerIsCarriedOut'
  BY DEF IInv, AnswerIsCarriedOut, OpenManifest
<1>5. ExecutionAgrees'
  BY DEF IInv, ExecutionAgrees, PlanOf, OpenManifest
<1>6. ManifestsAreTrue'
  BY DEF IInv, ManifestsAreTrue, TrueLink, PlanOf, OpenManifest, OpenedFile, NoManifest
<1>7. BacklinksAreTrue'
  BY DEF IInv, BacklinksAreTrue, OpenManifest
<1> QED
  BY <1>1, <1>2, <1>3, <1>4, <1>5, <1>6, <1>7 DEF IInv

\* What is written was true when it was read, and still is.
LEMMA WriteManifestKeeps ==
  ASSUME IInv, NEW a \in Actors, WriteManifest(a)
  PROVE  IInv'
<1>0. at[a] \in {"refused", "executed"} /\ update[a].manifest \in Manifests
  BY DEF IInv, TypeOK, ManifestsAreTrue, WriteManifest, Updates
<1>a. /\ \A b \in Actors : b # a => at'[b] = at[b]
      /\ at'[a] = IF at[a] = "refused" THEN "ended" ELSE "linked"
      /\ at' \in [Actors -> Places]
  BY DEF IInv, TypeOK, WriteManifest, Places
<1>1. TypeOK'
  <2>1. update' \in [Actors -> Updates]
    BY ValueTypes DEF IInv, TypeOK, WriteManifest
  <2>2. PICK f \in WrittenOver(file[PlanOf(a)], update[a].manifest, NoManifest) :
          file' = [file EXCEPT ![PlanOf(a)] = f]
    BY DEF WriteManifest
  <2>3. f \in [state: FileStates, content: Manifests]
    BY <1>0, <2>2, ValueTypes
  <2>4. file' \in [Plans -> [state: FileStates, content: Manifests]]
    BY <2>2, <2>3 DEF IInv, TypeOK
  <2> QED
    BY <1>a, <2>1, <2>4 DEF IInv, TypeOK, WriteManifest
<1>2. PlacesAgree'
  BY <1>0 DEF IInv, PlacesAgree, OfTasks, WriteManifest
<1>3. AnswerAgrees'
  BY <1>0 DEF IInv, AnswerAgrees, Undecided, WriteManifest
<1>4. AnswerIsCarriedOut'
  BY DEF IInv, AnswerIsCarriedOut, WriteManifest
<1>5. ExecutionAgrees'
  BY DEF IInv, ExecutionAgrees, ManifestsAreTrue, PlanOf, WriteManifest
<1>6. ManifestsAreTrue'
  BY DEF IInv, TypeOK, ManifestsAreTrue, TrueLink, AfterExecution, PlanOf, WriteManifest,
    WrittenOver, WholeFile, GarbledFile, NoManifest, NoUpdate
<1>7. BacklinksAreTrue'
  BY DEF IInv, BacklinksAreTrue, WriteManifest
<1> QED
  BY <1>1, <1>2, <1>3, <1>4, <1>5, <1>6, <1>7 DEF IInv

\* The link back names the plan that was executed.
LEMMA WriteBacklinkKeeps ==
  ASSUME IInv, NEW a \in Actors, WriteBacklink(a)
  PROVE  IInv'
<1>1. TypeOK'
  <2>1. PlanOf(a) \in Plans
    BY PlansAssumption DEF IInv, PlacesAgree, WriteBacklink, PlanOf, Actors
  <2> QED
    BY <2>1 DEF IInv, TypeOK, WriteBacklink, Places
<1>2. PlacesAgree'
  BY DEF IInv, PlacesAgree, OfTasks, WriteBacklink
<1>3. AnswerAgrees'
  BY DEF IInv, AnswerAgrees, Undecided, WriteBacklink
<1>4. AnswerIsCarriedOut'
  BY DEF IInv, AnswerIsCarriedOut, WriteBacklink
<1>5. ExecutionAgrees'
  BY DEF IInv, ExecutionAgrees, PlanOf, WriteBacklink
<1>6. ManifestsAreTrue'
  BY DEF IInv, ManifestsAreTrue, TrueLink, AfterExecution, PlanOf, WriteBacklink
<1>7. BacklinksAreTrue'
  BY DEF IInv, ExecutionAgrees, BacklinksAreTrue, WriteBacklink
<1> QED
  BY <1>1, <1>2, <1>3, <1>4, <1>5, <1>6, <1>7 DEF IInv

\* A failed update leaves executions over, and manifests as they are.
LEMMA UpdateFailsKeeps ==
  ASSUME IInv, NEW a \in Actors, UpdateFails(a)
  PROVE  IInv'
<1>1. TypeOK'
  BY ValueTypes DEF IInv, TypeOK, UpdateFails, Places
<1>2. PlacesAgree'
  BY DEF IInv, PlacesAgree, OfTasks, UpdateFails
<1>3. AnswerAgrees'
  BY DEF IInv, AnswerAgrees, Undecided, UpdateFails
<1>4. AnswerIsCarriedOut'
  BY DEF IInv, AnswerIsCarriedOut, UpdateFails
<1>5. ExecutionAgrees'
  BY DEF IInv, ExecutionAgrees, PlanOf, UpdateFails
<1>6. ManifestsAreTrue'
  BY DEF IInv, TypeOK, ManifestsAreTrue, TrueLink, AfterExecution, PlanOf, UpdateFails,
    NoUpdate
<1>7. BacklinksAreTrue'
  BY DEF IInv, BacklinksAreTrue, UpdateFails
<1> QED
  BY <1>1, <1>2, <1>3, <1>4, <1>5, <1>6, <1>7 DEF IInv

\* A crash ends executions and forgets updates, and changes no file.
LEMMA CrashKeeps ==
  ASSUME IInv, NEW as \in SUBSET Actors, Crash(as)
  PROVE  IInv'
<1>1. TypeOK'
  <2>1. at' \in [Actors -> Places] /\ update' \in [Actors -> Updates]
    BY ValueTypes DEF IInv, TypeOK, Crash, Places
  <2>2. crashes' \in 0..MaxCrashes
    BY PlansAssumption DEF IInv, TypeOK, Crash
  <2> QED
    BY <2>1, <2>2 DEF IInv, TypeOK, Crash
<1>2. PlacesAgree'
  BY DEF IInv, PlacesAgree, Actors, OfTasks, Crash
<1>3. AnswerAgrees'
  BY DEF IInv, AnswerAgrees, Actors, Undecided, Crash
<1>4. AnswerIsCarriedOut'
  BY DEF IInv, AnswerIsCarriedOut, Crash
<1>5. ExecutionAgrees'
  BY DEF IInv, ExecutionAgrees, PlanOf, Crash
<1>6. ManifestsAreTrue'
  BY ManifestsStay DEF IInv, TypeOK, Crash, AfterExecution, NoUpdate
<1>7. BacklinksAreTrue'
  BY DEF IInv, BacklinksAreTrue, Crash
<1> QED
  BY <1>1, <1>2, <1>3, <1>4, <1>5, <1>6, <1>7 DEF IInv

\* Links, denials and places of tasks and commands agree in every reachable
\* state, for any number of tasks, commands and crashes.
THEOREM Invariance == Spec => []IInv
<1>1. IInv /\ [Next]_vars => IInv'
  <2> SUFFICES ASSUME IInv, [Next]_vars PROVE IInv'
    OBVIOUS
  <2>1. ASSUME NEW p \in Plans, Start(p) \/ PlanStep(p) \/ AnswerStep(p) \/ Abort(p)
        PROVE  IInv'
    BY <2>1, StartKeeps, SavePlanKeeps, EndPlanningKeeps, ProposeKeeps,
      DecideWithoutAskingKeeps, AnswerKeeps, AbortKeeps DEF PlanStep, AnswerStep
  <2>2. ASSUME NEW c \in Commands, ReadPlan(c) \/ (\E p \in Plans : Check(c, p)) PROVE IInv'
    BY <2>2, ReadPlanKeeps, CheckKeeps
  <2>3. ASSUME NEW a \in Actors, ExecuteStep(a) \/ UpdateFails(a) PROVE IInv'
    BY <2>3, EndExecutionKeeps, ReadManifestKeeps, OpenManifestKeeps, WriteManifestKeeps,
      WriteBacklinkKeeps, UpdateFailsKeeps DEF ExecuteStep
  <2>4. ASSUME Crash(Plans) \/ (\E c \in Commands : Crash({c})) PROVE IInv'
    <3>1. Plans \subseteq Actors /\ \A c \in Commands : {c} \subseteq Actors
      BY DEF Actors
    <3> QED
      BY <2>4, <3>1, CrashKeeps
  <2>5. ASSUME UNCHANGED vars PROVE IInv'
    BY <2>5 DEF vars, IInv, TypeOK, PlacesAgree, AnswerAgrees, AnswerIsCarriedOut,
      ExecutionAgrees, ManifestsAreTrue, TrueLink, BacklinksAreTrue, PlanOf
  <2> QED
    BY <2>1, <2>2, <2>3, <2>4, <2>5 DEF Next
<1> QED
  BY <1>1, InitHolds, PTL DEF Spec

\* Every variable of the plan sessions has its type.
THEOREM TypeCorrect == Spec => []TypeOK
<1>1. IInv => TypeOK
  BY DEF IInv
<1> QED
  BY <1>1, Invariance, PTL

\* A task executes its plan exactly if that was agreed to, whatever order
\* answers, aborts and crashes come in (runPlanFirstSession).
THEOREM AnswersAreCarriedOut == Spec => []AnswerIsCarriedOut
<1>1. IInv => AnswerIsCarriedOut
  BY DEF IInv
<1> QED
  BY <1>1, Invariance, PTL

\* However updates of a manifest overlap, a plan session names only an
\* execution of its plan that is over (linkPlanAndExecuteSessions).
THEOREM LinksTrue == Spec => []LinksAreTrue
<1>1. IInv => LinksAreTrue
  BY DEF IInv, LinksAreTrue, ManifestsAreTrue, BacklinksAreTrue, TrueLink, AfterExecution
<1> QED
  BY <1>1, Invariance, PTL

\* Tasks that come to an end, or stay at their stage, keep the protocol.
LEMMA EndStep ==
  ASSUME answer' = answer, \A p \in Plans : StageOf(p)' \in {StageOf(p), "over"}
  PROVE  Protocol!Next
<1> DEFINE ps == {p \in Plans : StageOf(p)' = "over"}
<1>1. [p \in Plans |-> StageOf(p)]' =
        [p \in Plans |-> IF p \in ps THEN "over" ELSE [q \in Plans |-> StageOf(q)][p]]
  OBVIOUS
<1>2. [p \in Plans |-> DecisionOn(p)]' = [p \in Plans |-> DecisionOn(p)]
  BY DEF DecisionOn
<1>3. Protocol!End(ps)
  BY <1>1, <1>2 DEF Protocol!End
<1> QED
  BY <1>3 DEF Protocol!Next

\* The decision of a task on its plan is one of the protocol's.
LEMMA DecisionStep ==
  ASSUME IInv, NEW p \in Plans, NEW how \in Answers \ {"none"},
         at[p] \in {"proposing", "waiting"}, Decide(p, how)
  PROVE  Protocol!Next
<1>1. answer[p] = "none"
  BY DEF IInv, AnswerAgrees, Undecided
<1>2. DecisionOn(p) = "none" /\ StageOf(p) = "planning"
  <2>1. DecisionOn(p) = "none"
    BY <1>1 DEF DecisionOn
  <2>2. StageOf(p) = "planning"
    BY DEF StageOf
  <2> QED
    BY <2>1, <2>2
<1>3. /\ answer'[p] = how /\ \A q \in Plans : q # p => answer'[q] = answer[q]
      /\ at'[p] = IF how \in Consents THEN "executing" ELSE "refused"
      /\ \A q \in Plans : q # p => at'[q] = at[q]
  BY DEF IInv, TypeOK, Decide, Execute, Actors
<1>4. ASSUME NEW q \in Plans, q # p
      PROVE  DecisionOn(q)' = DecisionOn(q) /\ StageOf(q)' = StageOf(q)
  <2>1. answer'[q] = answer[q] /\ at'[q] = at[q]
    BY <1>3, <1>4
  <2>2. DecisionOn(q)' = DecisionOn(q)
    BY <2>1 DEF DecisionOn
  <2>3. StageOf(q)' = StageOf(q)
    BY <2>1 DEF StageOf
  <2> QED
    BY <2>2, <2>3
<1>5. CASE how \in Consents
  <2>1. DecisionOn(p)' = "approved" /\ StageOf(p)' = "executing"
    BY <1>3, <1>5 DEF DecisionOn, StageOf, Consents
  <2>2. Protocol!Approve(p)
    BY <1>2, <1>4, <2>1 DEF Protocol!Approve
  <2> QED
    BY <2>2 DEF Protocol!Next
<1>6. CASE how \notin Consents
  <2>1. DecisionOn(p)' = "denied" /\ StageOf(p)' = "planning"
    BY <1>3, <1>6 DEF DecisionOn, StageOf
  <2>2. Protocol!Deny(p)
    BY <1>2, <1>4, <2>1 DEF Protocol!Deny
  <2> QED
    BY <2>2 DEF Protocol!Next
<1> QED
  BY <1>5, <1>6

\* Every step of a task that moves it from one place to another without
\* beginning to execute keeps the protocol.
LEMMA MoveStep ==
  ASSUME IInv, NEW a \in Actors, NEW place \in Places \ {"executing"}, answer' = answer,
         at' = [at EXCEPT ![a] = place],
         at[a] \in AfterExecution => place \in AfterExecution,
         at[a] = "executing" => place \in AfterExecution
  PROVE  Protocol!Next
<1>1. ASSUME NEW p \in Plans PROVE StageOf(p)' \in {StageOf(p), "over"}
  <2>1. CASE p = a
    BY <2>1 DEF IInv, TypeOK, StageOf, AfterExecution
  <2>2. CASE p # a
    BY <2>2 DEF IInv, TypeOK, StageOf, Actors
  <2> QED
    BY <2>1, <2>2
<1> QED
  BY <1>1, EndStep

\* Plan-first tasks keep PlanProtocol: a plan is decided on at most once, and
\* carried out by its task at most once and only if it was approved, for any
\* number of tasks, of commands and of crashes (runPlanFirstSession and
\* HttpPlanApprovalQueue).
THEOREM TasksKeepProtocol == Spec => KeepsProtocol
<1>1. Init => Protocol!Init
  <2> SUFFICES ASSUME Init PROVE Protocol!Init
    OBVIOUS
  <2>1. ASSUME NEW p \in Plans PROVE DecisionOn(p) = "none" /\ StageOf(p) = "planning"
    <3>1. answer[p] = "none" /\ at[p] = "idle"
      BY DEF Init, Actors
    <3>2. DecisionOn(p) = "none" /\ StageOf(p) = "planning"
      <4>1. DecisionOn(p) = "none"
        BY <3>1 DEF DecisionOn
      <4>2. StageOf(p) = "planning"
        BY <3>1 DEF StageOf
      <4> QED
        BY <4>1, <4>2
    <3> QED
      BY <3>2
  <2> QED
    BY <2>1 DEF Protocol!Init
<1>2. IInv /\ [Next]_vars =>
        [Protocol!Next]_<<[p \in Plans |-> DecisionOn(p)], [p \in Plans |-> StageOf(p)]>>
  <2> SUFFICES ASSUME IInv, [Next]_vars
               PROVE  Protocol!Next \/ UNCHANGED <<[p \in Plans |-> DecisionOn(p)],
                                                   [p \in Plans |-> StageOf(p)]>>
    OBVIOUS
  <2>0. ASSUME at' = at, answer' = answer
        PROVE  UNCHANGED <<[p \in Plans |-> DecisionOn(p)], [p \in Plans |-> StageOf(p)]>>
    BY <2>0 DEF DecisionOn, StageOf
  <2>1. ASSUME NEW p \in Plans, Start(p) \/ SavePlan(p) PROVE Protocol!Next
    BY <2>1, MoveStep DEF Start, SavePlan, Places, Actors, AfterExecution
  <2>2. ASSUME NEW p \in Plans, NEW status \in {"success", "failed"}, EndPlanning(p, status)
        PROVE  Protocol!Next
    BY <2>2, MoveStep DEF EndPlanning, Places, Actors, AfterExecution
  <2>3. ASSUME NEW p \in Plans, Propose(p) PROVE Protocol!Next
    <3>1. CASE aborted[p]
      BY <2>3, <3>1, DecisionStep DEF Propose, Answers
    <3>2. CASE ~aborted[p]
      BY <2>3, <3>2, MoveStep DEF Propose, Places, Actors, AfterExecution
    <3> QED
      BY <3>1, <3>2
  <2>4. ASSUME NEW p \in Plans, NEW how \in {"auto", "unattended"}, DecideWithoutAsking(p, how)
        PROVE  Protocol!Next
    BY <2>4, DecisionStep DEF DecideWithoutAsking, Answers
  <2>5. ASSUME NEW p \in Plans, NEW how \in {"approved", "denied"}, Answer(p, how)
        PROVE  Protocol!Next
    BY <2>5, DecisionStep DEF Answer, Answers, IInv, AnswerAgrees
  <2>6. ASSUME NEW p \in Plans, Abort(p)
        PROVE  Protocol!Next \/ (at' = at /\ answer' = answer)
    <3>1. CASE p \in pending
      BY <2>6, <3>1, DecisionStep DEF Abort, Answers, IInv, AnswerAgrees
    <3>2. CASE p \notin pending
      BY <2>6, <3>2 DEF Abort
    <3> QED
      BY <3>1, <3>2
  <2>7. ASSUME NEW c \in Commands, ReadPlan(c) \/ (\E p \in Plans : Check(c, p))
        PROVE  Protocol!Next
    <3>1. answer' = answer /\ \A p \in Plans : at'[p] = at[p]
      BY <2>7, PlansAssumption DEF IInv, TypeOK, ReadPlan, Execute, Check, Actors
    <3>2. \A p \in Plans : StageOf(p)' = StageOf(p)
      BY <3>1 DEF StageOf
    <3> QED
      BY <3>1, <3>2, EndStep
  <2>8. ASSUME NEW a \in Actors, ExecuteStep(a) \/ UpdateFails(a)
        PROVE  Protocol!Next \/ (at' = at /\ answer' = answer)
    <3>1. ASSUME NEW place \in {"executed", "ended"}, EndExecution(a, place) PROVE Protocol!Next
      BY <3>1, MoveStep DEF EndExecution, Places, AfterExecution
    <3>2. ASSUME ReadManifest(a) PROVE Protocol!Next \/ (at' = at /\ answer' = answer)
      <4>1. CASE file[PlanOf(a)].state = "whole"
        BY <3>2, <4>1 DEF ReadManifest
      <4>2. CASE file[PlanOf(a)].state # "whole"
        BY <3>2, <4>2, MoveStep DEF ReadManifest, Places, AfterExecution
      <4> QED
        BY <4>1, <4>2
    <3>3. ASSUME OpenManifest(a) PROVE at' = at /\ answer' = answer
      BY <3>3 DEF OpenManifest
    <3>4. ASSUME WriteManifest(a) PROVE Protocol!Next
      <4>1. at[a] \in {"refused", "executed"}
        BY <3>4 DEF WriteManifest, IInv, ManifestsAreTrue
      <4>2. CASE at[a] = "refused"
        BY <3>4, MoveStep DEF WriteManifest, Places, AfterExecution
      <4>3. CASE at[a] = "executed"
        BY <3>4, MoveStep DEF WriteManifest, Places, AfterExecution
      <4> QED
        BY <4>1, <4>2, <4>3
    <3>5. ASSUME WriteBacklink(a) \/ UpdateFails(a) PROVE Protocol!Next
      BY <3>5, MoveStep DEF WriteBacklink, UpdateFails, Places, AfterExecution
    <3> QED
      BY <2>8, <3>1, <3>2, <3>3, <3>4, <3>5 DEF ExecuteStep
  <2>9. ASSUME NEW as \in SUBSET Actors, Crash(as) PROVE Protocol!Next
    <3>1. answer' = answer
      BY <2>9 DEF Crash
    <3>2. ASSUME NEW p \in Plans PROVE StageOf(p)' \in {StageOf(p), "over"}
      BY <2>9 DEF Crash, StageOf, Actors
    <3> QED
      BY <3>1, <3>2, EndStep
  <2>10. ASSUME UNCHANGED vars PROVE at' = at /\ answer' = answer
    BY <2>10 DEF vars
  <2>11. Plans \in SUBSET Actors /\ \A c \in Commands : {c} \in SUBSET Actors
    BY DEF Actors
  <2> QED
    BY <2>0, <2>1, <2>2, <2>3, <2>4, <2>5, <2>6, <2>7, <2>8, <2>9, <2>10, <2>11
    DEF Next, PlanStep, AnswerStep
<1> QED
  BY <1>1, <1>2, Invariance, PTL DEF Spec, KeepsProtocol, Protocol!Spec
=============================================================================
