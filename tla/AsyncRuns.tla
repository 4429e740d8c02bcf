------------------------------ MODULE AsyncRuns ------------------------------
(***************************************************************************)
(* The registry of asynchronous runs of the API server                     *)
(* (packages/server-runtime/src/async-run-manager.ts): a map of the runs   *)
(* this process knows, a file per run in the registry directory written    *)
(* without waiting, and the runs of earlier processes, read from there     *)
(* when the first request comes.                                           *)
(***************************************************************************)
EXTENDS Integers, FiniteSets, NodeFile

CONSTANTS
  Jobs,              \* identifiers createId gives to runs, each used once
  MaxCompletedRuns,  \* ended runs the map keeps
  MaxSaves,          \* bound: persistJob() calls under way at a time
  MaxCrashes         \* bound: times the server process may die

ASSUME RegistryAssumption ==
  MaxCompletedRuns \in Nat /\ MaxSaves \in Nat /\ MaxCrashes \in Nat

VARIABLES
  started,   \* runs started so far, in any process
  job,       \* status of the job object start() of this process created
  executing, \* runs whose execute() has not settled
  signalled, \* runs whose abort signal was raised
  entry,     \* AsyncRunManager.runs
  finished,  \* of each run that ended the runs that ended no later, by finishedAt
  save,      \* persistJob() calls under way
  file,      \* the file of each run
  hydrated,  \* AsyncRunManager.hydrated
  loading,   \* the request that hydrates, and what it has read
  told,      \* runs a client was told to be aborted
  crashes

vars == <<started, job, executing, signalled, entry, finished, save, file,
          hydrated, loading, told, crashes>>

Ended == {"completed", "failed", "aborted"}
Statuses == {"running"} \cup Ended

\* A map entry shares the job object with the execution ("live") or holds a
\* copy read from the registry directory, with a status of its own.
Entries == {"absent", "live"} \cup Statuses
StatusOf(jobs, entries, j) == IF entries[j] = "live" THEN jobs[j] ELSE entries[j]
Status(j) == StatusOf(job, entry, j)

\* persistJob is called when a run starts, ends or is aborted; the last, for a
\* copy, serializes another object than the first three.
SaveKinds == {"start", "end", "abort", "abortCopy"}
Saves == [stage: {"idle", "mkdir", "opening", "writing"}, status: Statuses \cup {"absent"}]
NoSave == [stage |-> "idle", status |-> "absent"]
NewSave == [stage |-> "mkdir", status |-> "absent"]

MaySave == Cardinality({s \in Jobs \X SaveKinds : save[s[1]][s[2]].stage # "idle"}) < MaxSaves

Requests == {"none", "get", "abort"}
NotLoading == [request |-> "none", job |-> "none", unread |-> {},
               read |-> [j \in Jobs |-> "absent"]]

TypeOK ==
  /\ started \subseteq Jobs
  /\ job \in [Jobs -> Statuses \cup {"absent"}]
  /\ executing \subseteq started
  /\ signalled \subseteq started
  /\ entry \in [Jobs -> Entries]
  /\ finished \in [Jobs -> SUBSET Jobs]
  /\ save \in [Jobs -> [SaveKinds -> Saves]]
  /\ file \in [Jobs -> [state: FileStates, content: Statuses \cup {"absent"}]]
  /\ hydrated \in BOOLEAN
  /\ loading \in [request: Requests, job: Jobs \cup {"none"}, unread: SUBSET Jobs,
                  read: [Jobs -> Statuses \cup {"absent"}]]
  /\ told \subseteq started
  /\ crashes \in 0..MaxCrashes

Init ==
  /\ started = {} /\ executing = {} /\ signalled = {}
  /\ job = [j \in Jobs |-> "absent"]
  /\ entry = [j \in Jobs |-> "absent"]
  /\ finished = [j \in Jobs |-> {}]
  /\ save = [j \in Jobs |-> [kind \in SaveKinds |-> NoSave]]
  /\ file = [j \in Jobs |-> AbsentFile("absent")]
  /\ hydrated = FALSE
  /\ loading = NotLoading
  /\ told = {}
  /\ crashes = 0

-----------------------------------------------------------------------------
(* Runs.                                                                   *)

\* finishedAt of j is set, perhaps again, to the current time.
Finish(j) ==
  [i \in Jobs |-> IF i = j THEN {k \in Jobs : finished[k] # {}} \cup {j}
                  ELSE finished[i] \ {j}]

\* Mutant: runs that are still running count as runs to prune.
PrunedRunningToo(jobs, entries, order) ==
  LET known == {j \in Jobs : entries[j] # "absent"}
      excess == Cardinality(known) - MaxCompletedRuns
      dropped == {j \in known : Cardinality(known \cap order[j]) <= excess}
  IN [j \in Jobs |-> IF j \in dropped THEN "absent" ELSE entries[j]]

\* pruneCompleted: of the ended runs of the map the oldest ones are dropped.
Pruned(jobs, entries, order) ==
  LET completed == {j \in Jobs : StatusOf(jobs, entries, j) \in Ended}
      excess == Cardinality(completed) - MaxCompletedRuns
      dropped == {j \in completed : Cardinality(completed \cap order[j]) <= excess}
  IN [j \in Jobs |-> IF j \in dropped THEN "absent" ELSE entries[j]]

\* POST /api/runs
Start(j) ==
  /\ j \notin started
  /\ MaySave
  /\ started' = started \cup {j}
  /\ job' = [job EXCEPT ![j] = "running"]
  /\ executing' = executing \cup {j}
  /\ entry' = [entry EXCEPT ![j] = "live"]
  /\ save' = [save EXCEPT ![j]["start"] = NewSave]
  /\ UNCHANGED <<signalled, finished, file, hydrated, loading, told, crashes>>

\* The run ends with "status": the job is changed, saved, and the map pruned.
EndWith(j, status) ==
  /\ MaySave
  /\ job' = [job EXCEPT ![j] = status]
  /\ finished' = Finish(j)
  /\ save' = [save EXCEPT ![j]["end"] = NewSave]
  /\ entry' = Pruned(job', entry, Finish(j))

\* Mutant: a result that comes after the abort completes the run.
ResolvesAnyway(j) ==
  /\ j \in executing
  /\ executing' = executing \ {j}
  /\ EndWith(j, "completed")
  /\ UNCHANGED <<started, signalled, file, hydrated, loading, told, crashes>>

\* execute() resolves: the result of an aborted run is dropped.
Resolves(j) ==
  /\ j \in executing
  /\ executing' = executing \ {j}
  /\ IF job[j] = "aborted"
     THEN UNCHANGED <<job, finished, save, entry>>
     ELSE EndWith(j, "completed")
  /\ UNCHANGED <<started, signalled, file, hydrated, loading, told, crashes>>

\* execute() rejects.
Rejects(j) ==
  /\ j \in executing
  /\ executing' = executing \ {j}
  /\ EndWith(j, IF j \in signalled \/ job[j] = "aborted" THEN "aborted" ELSE "failed")
  /\ UNCHANGED <<started, signalled, file, hydrated, loading, told, crashes>>

-----------------------------------------------------------------------------
(* persistJob().                                                           *)

\* The job is serialized once the directory is known to exist, as it is then.
TakeSnapshot(j, kind) ==
  /\ save[j][kind].stage = "mkdir"
  /\ save' = [save EXCEPT ![j][kind] =
                [stage |-> "opening",
                 status |-> IF kind = "abortCopy" THEN "aborted" ELSE job[j]]]
  /\ UNCHANGED <<started, job, executing, signalled, entry, finished, file,
                 hydrated, loading, told, crashes>>

OpenJobFile(j, kind) ==
  /\ save[j][kind].stage = "opening"
  /\ save' = [save EXCEPT ![j][kind].stage = "writing"]
  /\ file' = [file EXCEPT ![j] = OpenedFile("absent")]
  /\ UNCHANGED <<started, job, executing, signalled, entry, finished, hydrated,
                 loading, told, crashes>>

\* The client who aborted the run is answered when the run is saved.
WriteJobFile(j, kind) ==
  /\ save[j][kind].stage = "writing"
  /\ \E f \in WrittenOver(file[j], save[j][kind].status, "absent") :
       file' = [file EXCEPT ![j] = f]
  /\ save' = [save EXCEPT ![j][kind] = NoSave]
  /\ told' = IF kind \in {"abort", "abortCopy"}
             THEN told \cup {j} ELSE told
  /\ UNCHANGED <<started, job, executing, signalled, entry, finished, hydrated,
                 loading, crashes>>

-----------------------------------------------------------------------------
(* Requests.                                                               *)

\* Mutant: the status is changed and the controller forgotten.
ServeUnsignalled(request, j, entries) ==
  IF request = "abort" /\ StatusOf(job, entries, j) = "running"
  THEN /\ MaySave
       /\ finished' = Finish(j)
       /\ job' = IF entries[j] = "live" THEN [job EXCEPT ![j] = "aborted"] ELSE job
       /\ entry' = IF entries[j] = "live" THEN entries
                   ELSE [entries EXCEPT ![j] = "aborted"]
       /\ save' = [save EXCEPT ![j]["abort"] = NewSave]
       /\ UNCHANGED <<signalled, told>>
  ELSE /\ told' = IF StatusOf(job, entries, j) = "aborted"
                  THEN told \cup {j} ELSE told
       /\ entry' = entries
       /\ UNCHANGED <<finished, job, signalled, save>>

\* What a request does with the map once it is hydrated: a run that is
\* running is aborted, and saved before the client is answered; otherwise the
\* client is told the status, or that the run is not known (404).
Serve(request, j, entries) ==
  IF request = "abort" /\ StatusOf(job, entries, j) = "running"
  THEN /\ MaySave
       /\ finished' = Finish(j)
       /\ UNCHANGED told
       /\ IF entries[j] = "live"
          THEN /\ job' = [job EXCEPT ![j] = "aborted"]
               /\ signalled' = signalled \cup {j}
               /\ save' = [save EXCEPT ![j]["abort"] = NewSave]
               /\ entry' = entries
          ELSE /\ entry' = [entries EXCEPT ![j] = "aborted"]
               /\ save' = [save EXCEPT ![j]["abortCopy"] = NewSave]
               /\ UNCHANGED <<job, signalled>>
  ELSE /\ told' = IF StatusOf(job, entries, j) = "aborted"
                  THEN told \cup {j} ELSE told
       /\ entry' = entries
       /\ UNCHANGED <<finished, job, signalled, save>>

\* GET /api/runs/:id and POST /api/runs/:id/abort.  Only the first request of
\* the process waits for the registry directory to be read; the flag is set
\* before, so that the others take the map as it is.
Request(request, j) ==
  /\ j \in started
  /\ IF hydrated
     THEN Serve(request, j, entry) /\ UNCHANGED <<hydrated, loading>>
     ELSE /\ hydrated' = TRUE
          /\ loading' = [NotLoading EXCEPT
                           !.request = request, !.job = j,
                           !.unread = {i \in Jobs : file[i].state # "absent"}]
          /\ UNCHANGED <<job, signalled, entry, finished, save, told>>
  /\ UNCHANGED <<started, executing, file, crashes>>

ReadJobFile(j) ==
  /\ j \in loading.unread
  /\ loading' = [loading EXCEPT !.unread = @ \ {j}, !.read[j] = file[j].content]
  /\ UNCHANGED <<started, job, executing, signalled, entry, finished, save, file,
                 hydrated, told, crashes>>

\* Mutant: what was read replaces what the map has.
HydrateAll ==
  /\ loading.request # "none" /\ loading.unread = {}
  /\ Serve(loading.request, loading.job,
           [j \in Jobs |-> IF loading.read[j] = "absent" THEN entry[j] ELSE loading.read[j]])
  /\ loading' = NotLoading
  /\ UNCHANGED <<started, executing, file, hydrated, crashes>>

\* All files are read: runs the map does not have are put into it, and the
\* request that waited is served.
Hydrate ==
  /\ loading.request # "none" /\ loading.unread = {}
  /\ Serve(loading.request, loading.job,
           [j \in Jobs |-> IF entry[j] = "absent" THEN loading.read[j] ELSE entry[j]])
  /\ loading' = NotLoading
  /\ UNCHANGED <<started, executing, file, hydrated, crashes>>

\* The server dies and is started again: only the files are left.
Crash ==
  /\ crashes < MaxCrashes
  /\ crashes' = crashes + 1
  /\ job' = [j \in Jobs |-> "absent"]
  /\ entry' = [j \in Jobs |-> "absent"]
  /\ executing' = {} /\ signalled' = {}
  /\ save' = [j \in Jobs |-> [kind \in SaveKinds |-> NoSave]]
  /\ hydrated' = FALSE /\ loading' = NotLoading
  /\ UNCHANGED <<started, finished, file, told>>

SaveStep(j, kind) == TakeSnapshot(j, kind) \/ OpenJobFile(j, kind) \/ WriteJobFile(j, kind)

Next ==
  \/ \E j \in Jobs : Start(j) \/ Resolves(j) \/ Rejects(j) \/ ReadJobFile(j)
  \/ \E j \in Jobs, kind \in SaveKinds : SaveStep(j, kind)
  \/ \E j \in Jobs, request \in {"get", "abort"} : Request(request, j)
  \/ Hydrate
  \/ Crash

Spec == Init /\ [][Next]_vars

-----------------------------------------------------------------------------
(* Properties.                                                             *)

\* A run that executes and was not aborted is in the map with the job object
\* and the abort controller of its execution, whatever is pruned or read from
\* the directory: it can be polled and aborted (pruneCompleted, hydrateIfNeeded).
ExecutingIsKnown ==
  \A j \in executing : job[j] = "running" => entry[j] = "live"

\* A client who was told that a run is aborted can rely on the signal having
\* reached the execution, should it still go on (abort).
AbortReachesRun ==
  executing \cap told \subseteq signalled

\* In whatever order the saves are written, the file of a run of this process
\* tells no end before the run has ended, and completion or failure only of a
\* run that completed or failed (persistJob, start).
FileIsNotAhead ==
  \A j \in Jobs :
    /\ job[j] = "running" => file[j].content \in {"absent", "running"}
    /\ job[j] # "absent" /\ file[j].content \in {"completed", "failed"} =>
         job[j] = file[j].content

\* An end is final in the process in which it happened: an abort is not turned
\* into a completion by a result that comes late, nor an end into an abort.
EndIsFinal ==
  [][\A j \in Jobs : job[j] \in Ended => job'[j] \in {job[j], "absent"}]_vars
=============================================================================
