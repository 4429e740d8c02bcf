-------------------------- MODULE AsyncRuns_proof --------------------------
(***************************************************************************)
(* Proofs about AsyncRuns, for any number of runs, saves and crashes and   *)
(* any number of ended runs the map keeps.                                 *)
(***************************************************************************)
EXTENDS AsyncRuns, TLAPS

\* What is known of a run before it is started.
UnstartedIsUnknown ==
  \A j \in Jobs \ started :
    /\ job[j] = "absent" /\ entry[j] = "absent"
    /\ file[j].content = "absent" /\ loading.read[j] = "absent"
    /\ \A kind \in SaveKinds : save[j][kind] = NoSave

\* The status of a job object follows its execution, and the signal is raised
\* when the status of a run that executes is not running any more.
JobFollowsExecution ==
  \A j \in Jobs :
    /\ job[j] = "running" => j \in executing
    /\ j \in executing => job[j] \in {"running", "aborted"}
    /\ j \in executing /\ job[j] = "aborted" => j \in signalled

\* A client who waits for the save of an abort will be told the truth.
AbortsAreSignalled ==
  \A j \in Jobs, kind \in {"abort", "abortCopy"} :
    save[j][kind].stage # "idle" /\ j \in executing => j \in signalled

\* Neither does a status that is still to be written tell an end too early.
SavesAreNotAhead ==
  \A j \in Jobs, kind \in SaveKinds :
    /\ job[j] = "running" => save[j][kind].status \in {"absent", "running"}
    /\ job[j] = "running" => save[j]["abortCopy"].stage = "idle"
    /\ job[j] # "absent" /\ save[j][kind].status \in {"completed", "failed"} =>
         job[j] = save[j][kind].status

\* The request that hydrates is about a run that was started.
LoadingIsStarted == loading.request # "none" => loading.job \in started

IInv ==
  /\ TypeOK /\ UnstartedIsUnknown /\ JobFollowsExecution
  /\ AbortsAreSignalled /\ SavesAreNotAhead /\ LoadingIsStarted
  /\ ExecutingIsKnown /\ AbortReachesRun /\ FileIsNotAhead

-----------------------------------------------------------------------------
(* Lemmas about the operators.                                             *)

\* A save begins or goes on, and the others stay as they are.
LEMMA OneSave ==
  ASSUME save \in [Jobs -> [SaveKinds -> Saves]],
         NEW j \in Jobs, NEW kind \in SaveKinds, NEW s \in Saves
  PROVE  LET after == [save EXCEPT ![j][kind] = s] IN
         /\ after \in [Jobs -> [SaveKinds -> Saves]]
         /\ after[j][kind] = s
         /\ \A i \in Jobs, k \in SaveKinds :
              <<i, k>> # <<j, kind>> => after[i][k] = save[i][k]
OBVIOUS

\* A save that was just begun.
LEMMA NewSaveFacts ==
  /\ NewSave \in Saves /\ NewSave.stage = "mkdir" /\ NewSave.status = "absent"
  /\ NoSave \in Saves /\ NoSave.stage = "idle" /\ NoSave.status = "absent"
BY DEF NewSave, NoSave, Saves

\* Finishing a run changes the order of ends within its domain.
LEMMA FinishType ==
  ASSUME TypeOK, NEW j \in Jobs
  PROVE  Finish(j) \in [Jobs -> SUBSET Jobs]
BY DEF TypeOK, Finish

\* Pruning takes entries away, and none of a run that is running.
LEMMA PrunedKeepsRunning ==
  ASSUME NEW jobs \in [Jobs -> Statuses \cup {"absent"}],
         NEW entries \in [Jobs -> Entries], NEW order
  PROVE  /\ Pruned(jobs, entries, order) \in [Jobs -> Entries]
         /\ \A j \in Jobs :
              /\ Pruned(jobs, entries, order)[j] \in {entries[j], "absent"}
              /\ StatusOf(jobs, entries, j) = "running" =>
                   Pruned(jobs, entries, order)[j] = entries[j]
<1> DEFINE completed == {j \in Jobs : StatusOf(jobs, entries, j) \in Ended}
           excess == Cardinality(completed) - MaxCompletedRuns
           dropped == {j \in completed : Cardinality(completed \cap order[j]) <= excess}
<1>1. Pruned(jobs, entries, order) =
        [j \in Jobs |-> IF j \in dropped THEN "absent" ELSE entries[j]]
  BY DEF Pruned
<1>2. \A j \in dropped : StatusOf(jobs, entries, j) \in Ended
  OBVIOUS
<1> HIDE DEF dropped
<1>3. "absent" \in Entries /\ "running" \notin Ended
  BY DEF Entries, Ended
<1> QED
  BY <1>1, <1>2, <1>3

-----------------------------------------------------------------------------
(* The invariant holds at the start and is preserved by every action.      *)

\* The invariant holds when the server is started for the first time.
LEMMA InitHolds == Init => IInv
<1> SUFFICES ASSUME Init PROVE IInv
  OBVIOUS
<1>1. NotLoading \in [request: Requests, job: Jobs \cup {"none"}, unread: SUBSET Jobs,
                     read: [Jobs -> Statuses \cup {"absent"}]]
  BY DEF NotLoading, Requests
<1>2. save \in [Jobs -> [SaveKinds -> Saves]]
  BY NewSaveFacts DEF Init
<1>3. TypeOK
  <2>1. /\ job \in [Jobs -> Statuses \cup {"absent"}] /\ entry \in [Jobs -> Entries]
        /\ finished \in [Jobs -> SUBSET Jobs]
    BY DEF Init, Entries
  <2>2. file \in [Jobs -> [state: FileStates, content: Statuses \cup {"absent"}]]
    BY DEF Init, AbsentFile, FileStates
  <2>3. crashes \in 0..MaxCrashes
    BY RegistryAssumption DEF Init
  <2>4. /\ started \subseteq Jobs /\ executing \subseteq started /\ signalled \subseteq started
        /\ told \subseteq started /\ loading = NotLoading /\ hydrated \in BOOLEAN
    BY DEF Init
  <2> QED
    BY <1>1, <1>2, <2>1, <2>2, <2>3, <2>4 DEF TypeOK
<1>4. UnstartedIsUnknown /\ JobFollowsExecution /\ AbortsAreSignalled /\ LoadingIsStarted
  BY NewSaveFacts DEF Init, UnstartedIsUnknown, JobFollowsExecution, AbortsAreSignalled,
    LoadingIsStarted, NotLoading, AbsentFile
<1>5. SavesAreNotAhead /\ ExecutingIsKnown /\ AbortReachesRun /\ FileIsNotAhead
  BY NewSaveFacts DEF Init, SavesAreNotAhead, ExecutingIsKnown, AbortReachesRun, FileIsNotAhead,
    AbsentFile
<1> QED
  BY <1>3, <1>4, <1>5 DEF IInv

\* A run is started: nothing was known of it, so nothing contradicts it.
LEMMA StartHolds ==
  ASSUME IInv, NEW j \in Jobs, Start(j)
  PROVE  IInv'
<1>1. /\ save' \in [Jobs -> [SaveKinds -> Saves]]
      /\ save'[j]["start"] = NewSave
      /\ \A i \in Jobs, k \in SaveKinds :
           <<i, k>> # <<j, "start">> => save'[i][k] = save[i][k]
  BY OneSave, NewSaveFacts DEF IInv, TypeOK, Start, SaveKinds
<1>2. TypeOK'
  BY <1>1 DEF IInv, TypeOK, Start, Statuses, Entries
<1>3. UnstartedIsUnknown' /\ LoadingIsStarted'
  BY <1>1 DEF IInv, TypeOK, Start, UnstartedIsUnknown, LoadingIsStarted, SaveKinds
<1>4. JobFollowsExecution'
  BY DEF IInv, TypeOK, Start, JobFollowsExecution
<1>5. AbortsAreSignalled'
  BY <1>1, NewSaveFacts DEF IInv, TypeOK, Start, AbortsAreSignalled, UnstartedIsUnknown, SaveKinds
<1>6. SavesAreNotAhead'
  BY <1>1, NewSaveFacts DEF IInv, TypeOK, Start, SavesAreNotAhead, UnstartedIsUnknown, SaveKinds
<1>7. ExecutingIsKnown' /\ AbortReachesRun' /\ FileIsNotAhead'
  BY DEF IInv, TypeOK, Start, ExecutingIsKnown, AbortReachesRun, FileIsNotAhead,
    UnstartedIsUnknown
<1> QED
  BY <1>2, <1>3, <1>4, <1>5, <1>6, <1>7 DEF IInv

\* execute() settles: the run is not executing any more, and its status is what it was, or
\* the end of a run that was running, or "aborted" once more.
LEMMA SettleHolds ==
  ASSUME IInv, NEW j \in Jobs, Resolves(j) \/ Rejects(j)
  PROVE  IInv'
<1>1. j \in executing /\ executing' = executing \ {j} /\ j \in started
  BY DEF Resolves, Rejects, IInv, TypeOK
<1>2. UNCHANGED <<started, signalled, file, hydrated, loading, told, crashes>>
  BY DEF Resolves, Rejects
<1>3. job[j] \in {"running", "aborted"} /\ (job[j] = "aborted" => j \in signalled)
  BY <1>1 DEF IInv, JobFollowsExecution
<1>4. CASE UNCHANGED <<job, finished, save, entry>> /\ job[j] = "aborted"
  <2>1. TypeOK' /\ UnstartedIsUnknown' /\ LoadingIsStarted'
    BY <1>1, <1>2, <1>4 DEF IInv, TypeOK, UnstartedIsUnknown, LoadingIsStarted
  <2>2. JobFollowsExecution' /\ AbortsAreSignalled' /\ SavesAreNotAhead'
    BY <1>1, <1>2, <1>4 DEF IInv, JobFollowsExecution, AbortsAreSignalled, SavesAreNotAhead
  <2>3. ExecutingIsKnown' /\ AbortReachesRun' /\ FileIsNotAhead'
    BY <1>1, <1>2, <1>4 DEF IInv, ExecutingIsKnown, AbortReachesRun, FileIsNotAhead
  <2> QED
    BY <2>1, <2>2, <2>3 DEF IInv
<1>5. ASSUME NEW status \in Ended, EndWith(j, status), job[j] = "aborted" => status = "aborted"
      PROVE  IInv'
  <2>1. /\ save' \in [Jobs -> [SaveKinds -> Saves]]
        /\ save'[j]["end"] = NewSave
        /\ \A i \in Jobs, k \in SaveKinds :
             <<i, k>> # <<j, "end">> => save'[i][k] = save[i][k]
    BY <1>5, OneSave, NewSaveFacts DEF IInv, TypeOK, EndWith, SaveKinds
  <2>2. job' \in [Jobs -> Statuses \cup {"absent"}] /\ finished' \in [Jobs -> SUBSET Jobs]
    BY <1>5, FinishType DEF IInv, TypeOK, EndWith, Statuses
  <2>3. /\ entry' \in [Jobs -> Entries]
        /\ \A i \in Jobs :
             /\ entry'[i] \in {entry[i], "absent"}
             /\ entry[i] = "live" /\ job'[i] = "running" => entry'[i] = "live"
    <3>1. entry' = Pruned(job', entry, Finish(j)) /\ entry \in [Jobs -> Entries]
      BY <1>5 DEF EndWith, IInv, TypeOK
    <3> QED
      BY <2>2, <3>1, PrunedKeepsRunning DEF StatusOf
  <2>4. /\ job'[j] = status /\ status # "running" /\ status # "absent"
        /\ \A i \in Jobs : i # j => job'[i] = job[i]
    BY <1>5 DEF EndWith, IInv, TypeOK, Ended
  <2>5. TypeOK'
    BY <1>1, <1>2, <2>1, <2>2, <2>3 DEF IInv, TypeOK
  <2>6. UnstartedIsUnknown' /\ LoadingIsStarted'
    <3>1. \A i \in Jobs \ started :
            i # j /\ entry'[i] = "absent" /\ \A k \in SaveKinds : save'[i][k] = NoSave
      BY <1>1, <2>1, <2>3 DEF IInv, UnstartedIsUnknown
    <3> QED
      BY <1>2, <2>4, <3>1 DEF IInv, UnstartedIsUnknown, LoadingIsStarted
  <2>7. JobFollowsExecution' /\ AbortsAreSignalled'
    BY <1>1, <1>2, <2>1, <2>4
       DEF IInv, JobFollowsExecution, AbortsAreSignalled, SaveKinds
  <2>8. SavesAreNotAhead'
    BY <1>3, <1>5, <2>1, <2>4, NewSaveFacts DEF IInv, SavesAreNotAhead, SaveKinds
  <2>9. ExecutingIsKnown'
    <3> SUFFICES ASSUME NEW i \in executing', job'[i] = "running"
                 PROVE  entry'[i] = "live"
      BY DEF ExecutingIsKnown
    <3>1. i \in executing /\ i \in Jobs /\ i # j
      BY <1>1 DEF IInv, TypeOK
    <3>2. entry[i] = "live"
      BY <2>4, <3>1 DEF IInv, ExecutingIsKnown
    <3> QED
      BY <2>3, <3>1, <3>2
  <2>10. AbortReachesRun' /\ FileIsNotAhead'
    BY <1>1, <1>2, <1>3, <1>5, <2>4 DEF IInv, AbortReachesRun, FileIsNotAhead
  <2> QED
    BY <2>5, <2>6, <2>7, <2>8, <2>9, <2>10 DEF IInv
<1>6. CASE Resolves(j)
  BY <1>3, <1>4, <1>5, <1>6 DEF Resolves, Ended
<1>7. CASE Rejects(j)
  BY <1>3, <1>5, <1>7 DEF Rejects, Ended
<1> QED
  BY <1>6, <1>7

\* The steps of a save: what is written is the status of the job when it was taken.
LEMMA SaveStepHolds ==
  ASSUME IInv, NEW j \in Jobs, NEW kind \in SaveKinds, SaveStep(j, kind)
  PROVE  IInv'
<1>1. /\ UNCHANGED <<started, job, executing, signalled, entry, finished, hydrated, loading,
                     crashes>>
      /\ save[j][kind].stage # "idle"
  BY DEF SaveStep, TakeSnapshot, OpenJobFile, WriteJobFile
<1>2. j \in started /\ save[j][kind] \in Saves
  BY <1>1, NewSaveFacts DEF IInv, TypeOK, UnstartedIsUnknown
<1>3. JobFollowsExecution' /\ LoadingIsStarted' /\ ExecutingIsKnown'
  BY <1>1 DEF IInv, JobFollowsExecution, LoadingIsStarted, ExecutingIsKnown
<1>4. ASSUME NEW s \in Saves, save' = [save EXCEPT ![j][kind] = s],
             file' = file \/ (file'[j].content \in {"absent", save[j][kind].status}
                             /\ \A i \in Jobs : i # j => file'[i] = file[i]),
             file' \in [Jobs -> [state: FileStates, content: Statuses \cup {"absent"}]],
             told' = told \/ (kind \in {"abort", "abortCopy"} /\ told' = told \cup {j}),
             s.stage = "idle" => s.status = "absent",
             s.status \in {"absent", save[j][kind].status}
               \/ s.status = IF kind = "abortCopy" THEN "aborted" ELSE job[j]
      PROVE  IInv'
  <2>1. /\ save' \in [Jobs -> [SaveKinds -> Saves]]
        /\ save'[j][kind] = s
        /\ \A i \in Jobs, k \in SaveKinds :
             <<i, k>> # <<j, kind>> => save'[i][k] = save[i][k]
    BY <1>4, OneSave DEF IInv, TypeOK
  <2>2. TypeOK'
    BY <1>1, <1>2, <1>4, <2>1 DEF IInv, TypeOK
  <2>3. UnstartedIsUnknown'
    BY <1>1, <1>2, <1>4, <2>1 DEF IInv, UnstartedIsUnknown
  <2>4. AbortsAreSignalled' /\ AbortReachesRun'
    BY <1>1, <1>4, <2>1 DEF IInv, AbortsAreSignalled, AbortReachesRun, SaveKinds
  <2>5. SavesAreNotAhead'
    BY <1>1, <1>4, <2>1 DEF IInv, SavesAreNotAhead, SaveKinds
  <2>6. FileIsNotAhead'
    BY <1>1, <1>4 DEF IInv, FileIsNotAhead, SavesAreNotAhead
  <2> QED
    BY <1>3, <2>2, <2>3, <2>4, <2>5, <2>6 DEF IInv
<1>5. CASE TakeSnapshot(j, kind)
  <2> DEFINE s == [stage |-> "opening", status |-> IF kind = "abortCopy" THEN "aborted" ELSE job[j]]
  <2>1. s \in Saves
    BY DEF IInv, TypeOK, Saves, Statuses, Ended
  <2> QED
    BY <1>4, <1>5, <2>1 DEF TakeSnapshot, IInv, TypeOK
<1>6. CASE OpenJobFile(j, kind)
  <2> DEFINE s == [stage |-> "writing", status |-> save[j][kind].status]
  <2>1. s \in Saves /\ [save[j][kind] EXCEPT !.stage = "writing"] = s
    BY <1>2 DEF Saves
  <2>2. /\ file'[j].content = "absent" /\ \A i \in Jobs : i # j => file'[i] = file[i]
        /\ file' \in [Jobs -> [state: FileStates, content: Statuses \cup {"absent"}]]
    BY <1>6 DEF OpenJobFile, OpenedFile, FileStates, IInv, TypeOK
  <2> QED
    BY <1>4, <1>6, <2>1, <2>2 DEF OpenJobFile, IInv, TypeOK
<1>7. CASE WriteJobFile(j, kind)
  <2>1. PICK f \in WrittenOver(file[j], save[j][kind].status, "absent") :
          file' = [file EXCEPT ![j] = f]
    BY <1>7 DEF WriteJobFile
  <2>2. /\ f \in [state: FileStates, content: Statuses \cup {"absent"}]
        /\ f.content \in {"absent", save[j][kind].status}
    BY <1>2, <2>1 DEF WrittenOver, WholeFile, GarbledFile, FileStates, Saves
  <2>3. /\ file'[j].content \in {"absent", save[j][kind].status}
        /\ \A i \in Jobs : i # j => file'[i] = file[i]
        /\ file' \in [Jobs -> [state: FileStates, content: Statuses \cup {"absent"}]]
    BY <2>1, <2>2 DEF IInv, TypeOK
  <2> QED
    BY <1>4, <1>7, <2>3, NewSaveFacts DEF WriteJobFile
<1> QED
  BY <1>5, <1>6, <1>7 DEF SaveStep

\* A request is served from the map, or from the map with what was read put into it.
LEMMA ServeHolds ==
  ASSUME IInv, NEW request \in Requests, NEW j \in started, NEW entries \in [Jobs -> Entries],
         \A i \in Jobs : entries[i] # entry[i] =>
           entry[i] = "absent" /\ entries[i] # "live" /\ i \in started,
         Serve(request, j, entries),
         UNCHANGED <<started, executing, file, crashes>>,
         hydrated' \in BOOLEAN, loading' \in {loading, NotLoading}
  PROVE  IInv'
<1>1. j \in Jobs /\ entry \in [Jobs -> Entries] /\ job \in [Jobs -> Statuses \cup {"absent"}]
  BY DEF IInv, TypeOK
<1>2. LoadingIsStarted' /\ \A i \in Jobs \ started : loading'.read[i] = "absent"
  BY DEF IInv, LoadingIsStarted, UnstartedIsUnknown, NotLoading
<1>3. loading' \in [request: Requests, job: Jobs \cup {"none"}, unread: SUBSET Jobs,
                   read: [Jobs -> Statuses \cup {"absent"}]]
  BY DEF IInv, TypeOK, NotLoading, Requests
\* The entry of a run that executes and is running is the one it had.
<1>4. \A i \in executing : entries[i] # "live" => job[i] = "aborted" /\ i \in signalled
  BY <1>1 DEF IInv, TypeOK, ExecutingIsKnown, JobFollowsExecution
<1>5. CASE ~(request = "abort" /\ StatusOf(job, entries, j) = "running")
  <2>1. /\ UNCHANGED <<finished, job, signalled, save>> /\ entry' = entries
        /\ told' = told \/ (told' = told \cup {j} /\ StatusOf(job, entries, j) = "aborted")
    BY <1>5 DEF Serve
  <2>2. StatusOf(job, entries, j) = "aborted" /\ j \in executing => j \in signalled
    BY <1>1, <1>4 DEF StatusOf, IInv, JobFollowsExecution
  <2>3. TypeOK'
    BY <1>3, <2>1 DEF IInv, TypeOK
  <2>4. UnstartedIsUnknown'
    BY <1>2, <2>1 DEF IInv, UnstartedIsUnknown
  <2>5. JobFollowsExecution' /\ AbortsAreSignalled' /\ SavesAreNotAhead' /\ FileIsNotAhead'
    BY <2>1 DEF IInv, JobFollowsExecution, AbortsAreSignalled, SavesAreNotAhead, FileIsNotAhead
  <2>6. ExecutingIsKnown' /\ AbortReachesRun'
    BY <1>4, <2>1, <2>2 DEF IInv, TypeOK, ExecutingIsKnown, AbortReachesRun
  <2> QED
    BY <1>2, <2>3, <2>4, <2>5, <2>6 DEF IInv
<1>6. CASE request = "abort" /\ StatusOf(job, entries, j) = "running" /\ entries[j] = "live"
  <2>1. /\ job' = [job EXCEPT ![j] = "aborted"] /\ signalled' = signalled \cup {j}
        /\ save' = [save EXCEPT ![j]["abort"] = NewSave]
        /\ entry' = entries /\ finished' = Finish(j) /\ told' = told
    BY <1>6 DEF Serve
  <2>2. /\ save' \in [Jobs -> [SaveKinds -> Saves]]
        /\ save'[j]["abort"] = NewSave
        /\ \A i \in Jobs, k \in SaveKinds :
             <<i, k>> # <<j, "abort">> => save'[i][k] = save[i][k]
    BY <1>1, <2>1, OneSave, NewSaveFacts DEF IInv, TypeOK, SaveKinds
  <2>3. job[j] = "running" /\ j \in executing
    BY <1>1, <1>6 DEF StatusOf, IInv, JobFollowsExecution
  <2>4. TypeOK'
    BY <1>1, <1>3, <2>1, <2>2, FinishType DEF IInv, TypeOK, Statuses, Ended
  <2>5. UnstartedIsUnknown'
    BY <1>1, <1>2, <2>1, <2>2 DEF IInv, UnstartedIsUnknown
  <2>6. JobFollowsExecution' /\ AbortsAreSignalled'
    BY <1>1, <2>1, <2>2, <2>3 DEF IInv, JobFollowsExecution, AbortsAreSignalled, SaveKinds
  <2>7. SavesAreNotAhead'
    BY <1>1, <2>1, <2>2, <2>3, NewSaveFacts DEF IInv, SavesAreNotAhead, SaveKinds
  <2>8. ExecutingIsKnown' /\ AbortReachesRun' /\ FileIsNotAhead'
    BY <1>1, <1>4, <2>1, <2>3
       DEF IInv, TypeOK, ExecutingIsKnown, AbortReachesRun, FileIsNotAhead
  <2> QED
    BY <1>2, <2>4, <2>5, <2>6, <2>7, <2>8 DEF IInv
<1>7. CASE request = "abort" /\ StatusOf(job, entries, j) = "running" /\ entries[j] # "live"
  <2>1. /\ entry' = [entries EXCEPT ![j] = "aborted"]
        /\ save' = [save EXCEPT ![j]["abortCopy"] = NewSave]
        /\ UNCHANGED <<job, signalled, told>> /\ finished' = Finish(j)
    BY <1>7 DEF Serve
  <2>2. /\ save' \in [Jobs -> [SaveKinds -> Saves]]
        /\ save'[j]["abortCopy"] = NewSave
        /\ \A i \in Jobs, k \in SaveKinds :
             <<i, k>> # <<j, "abortCopy">> => save'[i][k] = save[i][k]
    BY <1>1, <2>1, OneSave, NewSaveFacts DEF IInv, TypeOK, SaveKinds
  <2>3. job[j] # "running" /\ (j \in executing => j \in signalled)
    BY <1>1, <1>4, <1>7 DEF IInv, JobFollowsExecution
  <2>4. TypeOK'
    BY <1>1, <1>3, <2>1, <2>2, FinishType DEF IInv, TypeOK, Statuses, Ended, Entries
  <2>5. UnstartedIsUnknown'
    BY <1>1, <1>2, <2>1, <2>2 DEF IInv, UnstartedIsUnknown
  <2>6. JobFollowsExecution' /\ AbortsAreSignalled'
    BY <1>1, <2>1, <2>2, <2>3 DEF IInv, JobFollowsExecution, AbortsAreSignalled, SaveKinds
  <2>7. SavesAreNotAhead'
    BY <1>1, <2>1, <2>2, <2>3, NewSaveFacts DEF IInv, SavesAreNotAhead, SaveKinds
  <2>8. ExecutingIsKnown'
    BY <1>1, <1>4, <2>1, <2>3 DEF IInv, TypeOK, ExecutingIsKnown
  <2>9. AbortReachesRun' /\ FileIsNotAhead'
    BY <2>1 DEF IInv, AbortReachesRun, FileIsNotAhead
  <2> QED
    BY <1>2, <2>4, <2>5, <2>6, <2>7, <2>8, <2>9 DEF IInv
<1> QED
  BY <1>5, <1>6, <1>7

\* The first request of a process begins to read the directory, the others are served.
LEMMA RequestHolds ==
  ASSUME IInv, NEW j \in Jobs, NEW request \in {"get", "abort"}, Request(request, j)
  PROVE  IInv'
<1>1. CASE hydrated
  BY <1>1, ServeHolds DEF Request, IInv, TypeOK, Requests
<1>2. CASE ~hydrated
  <2>1. /\ hydrated' = TRUE /\ loading'.job = j /\ j \in started
        /\ loading'.read = [i \in Jobs |-> "absent"]
        /\ loading' \in [request: Requests, job: Jobs \cup {"none"}, unread: SUBSET Jobs,
                         read: [Jobs -> Statuses \cup {"absent"}]]
    BY <1>2 DEF Request, NotLoading, Requests
  <2>2. UNCHANGED <<started, job, executing, signalled, entry, finished, save, file, told, crashes>>
    BY <1>2 DEF Request
  <2>3. TypeOK' /\ UnstartedIsUnknown' /\ LoadingIsStarted'
    BY <2>1, <2>2 DEF IInv, TypeOK, UnstartedIsUnknown, LoadingIsStarted
  <2>4. JobFollowsExecution' /\ AbortsAreSignalled' /\ SavesAreNotAhead'
    BY <2>2 DEF IInv, JobFollowsExecution, AbortsAreSignalled, SavesAreNotAhead
  <2>5. ExecutingIsKnown' /\ AbortReachesRun' /\ FileIsNotAhead'
    BY <2>2 DEF IInv, ExecutingIsKnown, AbortReachesRun, FileIsNotAhead
  <2> QED
    BY <2>3, <2>4, <2>5 DEF IInv
<1> QED
  BY <1>1, <1>2

\* A file of the directory is read.
LEMMA ReadHolds ==
  ASSUME IInv, NEW j \in Jobs, ReadJobFile(j)
  PROVE  IInv'
<1>1. /\ loading'.read = [loading.read EXCEPT ![j] = file[j].content]
      /\ loading'.job = loading.job /\ loading'.request = loading.request
      /\ loading' \in [request: Requests, job: Jobs \cup {"none"}, unread: SUBSET Jobs,
                       read: [Jobs -> Statuses \cup {"absent"}]]
  BY DEF ReadJobFile, IInv, TypeOK
<1>2. UNCHANGED <<started, job, executing, signalled, entry, finished, save, file, hydrated, told,
                  crashes>>
  BY DEF ReadJobFile
<1>3. TypeOK' /\ UnstartedIsUnknown' /\ LoadingIsStarted'
  BY <1>1, <1>2 DEF IInv, TypeOK, UnstartedIsUnknown, LoadingIsStarted
<1>4. JobFollowsExecution' /\ AbortsAreSignalled' /\ SavesAreNotAhead'
  BY <1>2 DEF IInv, JobFollowsExecution, AbortsAreSignalled, SavesAreNotAhead
<1>5. ExecutingIsKnown' /\ AbortReachesRun' /\ FileIsNotAhead'
  BY <1>2 DEF IInv, ExecutingIsKnown, AbortReachesRun, FileIsNotAhead
<1> QED
  BY <1>3, <1>4, <1>5 DEF IInv

\* What was read is put into the map, and the request that waited is served.
LEMMA HydrateHolds ==
  ASSUME IInv, Hydrate
  PROVE  IInv'
<1> DEFINE entries == [j \in Jobs |-> IF entry[j] = "absent" THEN loading.read[j] ELSE entry[j]]
<1>1. /\ loading.request \in Requests /\ loading.job \in started
      /\ Serve(loading.request, loading.job, entries)
      /\ UNCHANGED <<started, executing, file, crashes, hydrated>> /\ loading' = NotLoading
  BY DEF Hydrate, IInv, TypeOK, LoadingIsStarted
<1>2. \A i \in Jobs : entries[i] # entry[i] =>
        entry[i] = "absent" /\ entries[i] # "live" /\ i \in started
  BY DEF IInv, TypeOK, UnstartedIsUnknown, Statuses, Ended
<1>3. entries \in [Jobs -> Entries]
  BY DEF IInv, TypeOK, Entries
<1>4. hydrated' \in BOOLEAN
  BY <1>1 DEF IInv, TypeOK
<1> HIDE DEF entries
<1> QED
  BY <1>1, <1>2, <1>3, <1>4, ServeHolds

\* After a crash only the files are left.
LEMMA CrashHolds ==
  ASSUME IInv, Crash
  PROVE  IInv'
<1>1. /\ job' = [j \in Jobs |-> "absent"] /\ entry' = [j \in Jobs |-> "absent"]
      /\ executing' = {} /\ signalled' = {}
      /\ save' = [j \in Jobs |-> [kind \in SaveKinds |-> NoSave]]
      /\ hydrated' = FALSE /\ loading' = NotLoading
      /\ UNCHANGED <<started, finished, file, told>>
  BY DEF Crash
<1>2. /\ save' \in [Jobs -> [SaveKinds -> Saves]]
      /\ \A j \in Jobs, kind \in SaveKinds : save'[j][kind] = NoSave
  BY <1>1, NewSaveFacts
<1>3. /\ NotLoading \in [request: Requests, job: Jobs \cup {"none"}, unread: SUBSET Jobs,
                        read: [Jobs -> Statuses \cup {"absent"}]]
      /\ NotLoading.request = "none" /\ \A j \in Jobs : NotLoading.read[j] = "absent"
  BY DEF NotLoading, Requests
<1>4. crashes' \in 0..MaxCrashes
  BY RegistryAssumption DEF Crash, IInv, TypeOK
<1>5. hydrated' \in BOOLEAN
  BY <1>1
<1>6. TypeOK'
  BY <1>1, <1>2, <1>3, <1>4, <1>5 DEF IInv, TypeOK, Entries
<1>7. UnstartedIsUnknown' /\ LoadingIsStarted'
  BY <1>1, <1>2, <1>3 DEF IInv, UnstartedIsUnknown, LoadingIsStarted
<1>8. JobFollowsExecution' /\ AbortsAreSignalled' /\ SavesAreNotAhead'
  BY <1>1, <1>2, NewSaveFacts
     DEF JobFollowsExecution, AbortsAreSignalled, SavesAreNotAhead, SaveKinds
<1>9. ExecutingIsKnown' /\ AbortReachesRun' /\ FileIsNotAhead'
  BY <1>1 DEF ExecutingIsKnown, AbortReachesRun, FileIsNotAhead
<1> QED
  BY <1>6, <1>7, <1>8, <1>9 DEF IInv

\* Every step preserves the invariant.
LEMMA NextHolds == IInv /\ [Next]_vars => IInv'
<1> SUFFICES ASSUME IInv, [Next]_vars PROVE IInv'
  OBVIOUS
<1>1. CASE Next
  BY <1>1, StartHolds, SettleHolds, ReadHolds, SaveStepHolds, RequestHolds, HydrateHolds, CrashHolds
     DEF Next
<1>2. CASE UNCHANGED vars
  <2>1. TypeOK' /\ UnstartedIsUnknown' /\ LoadingIsStarted'
    BY <1>2 DEF vars, IInv, TypeOK, UnstartedIsUnknown, LoadingIsStarted
  <2>2. JobFollowsExecution' /\ AbortsAreSignalled' /\ SavesAreNotAhead'
    BY <1>2 DEF vars, IInv, JobFollowsExecution, AbortsAreSignalled, SavesAreNotAhead
  <2>3. ExecutingIsKnown' /\ AbortReachesRun' /\ FileIsNotAhead'
    BY <1>2 DEF vars, IInv, ExecutingIsKnown, AbortReachesRun, FileIsNotAhead
  <2> QED
    BY <2>1, <2>2, <2>3 DEF IInv
<1> QED
  BY <1>1, <1>2

-----------------------------------------------------------------------------
(* The theorems.                                                           *)

\* The inductive invariant: the status of a run, its execution, its signal, its entry, its
\* file and the saves under way agree.
THEOREM Invariance == Spec => []IInv
<1> QED
  BY InitHolds, NextHolds, PTL DEF Spec

\* Every variable stays in its domain.
THEOREM TypeCorrect == Spec => []TypeOK
<1>1. IInv => TypeOK
  BY DEF IInv
<1> QED
  BY <1>1, Invariance, PTL

\* A run that executes can be polled and aborted, however many ended runs are pruned and
\* whatever is read from the directory meanwhile.
THEOREM ExecutingKnown == Spec => []ExecutingIsKnown
<1>1. IInv => ExecutingIsKnown
  BY DEF IInv
<1> QED
  BY <1>1, Invariance, PTL

\* A client who was told that a run is aborted can rely on the signal.
THEOREM AbortsReachRuns == Spec => []AbortReachesRun
<1>1. IInv => AbortReachesRun
  BY DEF IInv
<1> QED
  BY <1>1, Invariance, PTL

\* The file of a run tells no end before the run has ended, in whatever order it is written.
THEOREM FilesAreNotAhead == Spec => []FileIsNotAhead
<1>1. IInv => FileIsNotAhead
  BY DEF IInv
<1> QED
  BY <1>1, Invariance, PTL

\* No step of the process changes the end of a run.
THEOREM EndsAreFinal == Spec => EndIsFinal
<1>1. IInv /\ [Next]_vars => [\A j \in Jobs : job[j] \in Ended => job'[j] \in {job[j], "absent"}]_vars
  <2> SUFFICES ASSUME IInv, Next, NEW j \in Jobs, job[j] \in Ended
               PROVE  job'[j] \in {job[j], "absent"}
    OBVIOUS
  <2>1. ASSUME NEW i \in Jobs, Start(i) PROVE job'[j] = job[j]
    BY <2>1 DEF Start, IInv, TypeOK, UnstartedIsUnknown, Ended
  <2>2. ASSUME NEW i \in Jobs, Resolves(i) \/ Rejects(i) PROVE job'[j] = job[j]
    BY <2>2 DEF Resolves, Rejects, EndWith, IInv, TypeOK, JobFollowsExecution, Ended
  <2>3. ASSUME NEW request, NEW i \in Jobs, NEW entries, Serve(request, i, entries)
        PROVE  job'[j] = job[j]
    BY <2>3 DEF Serve, StatusOf, IInv, TypeOK, Ended
  <2>4. ASSUME NEW i \in Jobs, NEW request \in {"get", "abort"}, Request(request, i)
        PROVE  job'[j] = job[j]
    BY <2>3, <2>4 DEF Request
  <2>5. CASE Hydrate
    BY <2>3, <2>5 DEF Hydrate, IInv, TypeOK, LoadingIsStarted
  <2>6. CASE Crash
    BY <2>6 DEF Crash
  <2> QED
    BY <2>1, <2>2, <2>4, <2>5, <2>6
       DEF Next, ReadJobFile, SaveStep, TakeSnapshot, OpenJobFile, WriteJobFile
<1> QED
  BY <1>1, Invariance, PTL DEF Spec, EndIsFinal
=============================================================================
