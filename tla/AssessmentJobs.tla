--------------------------- MODULE AssessmentJobs ---------------------------
(***************************************************************************)
(* The assessment job store (engines/job_store.py) with the part of the    *)
(* API that uses it: lifespan, POST /api/v3/assess, _run_assessment_job.   *)
(*                                                                         *)
(* One process owns this store, and its operations do not await, so each   *)
(* runs to its end.  The runner of a job awaits in three places: in the    *)
(* pipeline, and in the WebSocket calls after a result and after an error. *)
(* Those are the points where shutdown can cancel it.                      *)
(***************************************************************************)
EXTENDS Naturals, FiniteSets

CONSTANTS
    MaxJobs,           \* bound: jobs ever created
    ListLimit,         \* how many jobs list() returns (100 in the code)
    MaxCrashes,        \* bound: process deaths and shutdowns
    MaxWriteFailures   \* bound: saves that raise

ASSUME LimitsAreNaturals ==
    /\ MaxJobs \in Nat
    /\ ListLimit \in Nat \ {0}
    /\ MaxCrashes \in Nat
    /\ MaxWriteFailures \in Nat

\* Jobs are numbered in the order of created_at.
Jobs == 1..MaxJobs

VARIABLES
    disk,      \* job_store.json: a status for each job, or "ABSENT"
    mem,       \* AssessmentJobStore._jobs
    stored,    \* jobs with a result in the file
    results,   \* jobs with a result in memory
    created,   \* jobs created so far
    api,       \* where the process is in its lifespan
    sweep,     \* jobs that start-up still has to fail
    runner,    \* where _run_assessment_job is for each job
    crashes,
    writeFailures

vars == <<disk, mem, stored, results, created, api, sweep, runner, crashes, writeFailures>>

Statuses == {"QUEUED", "RUNNING", "COMPLETED", "FAILED"}
Active   == {"QUEUED", "RUNNING"}
Terminal == {"COMPLETED", "FAILED"}
JobTable == [Jobs -> Statuses \cup {"ABSENT"}]
NoJobs   == [j \in Jobs |-> "ABSENT"]
NoRunner == [j \in Jobs |-> "none"]

TypeOK ==
    /\ disk \in JobTable
    /\ mem \in JobTable
    /\ stored \subseteq Jobs
    /\ results \subseteq Jobs
    /\ created \in 0..MaxJobs
    /\ api \in {"down", "loaded", "sweeping", "up", "stopping"}
    /\ sweep \in SUBSET Jobs
    /\ runner \in [Jobs -> {"none", "scheduled", "executing", "announcing", "reporting"}]
    /\ crashes \in 0..MaxCrashes
    /\ writeFailures \in 0..MaxWriteFailures

Init ==
    /\ disk = NoJobs
    /\ mem = NoJobs
    /\ stored = {}
    /\ results = {}
    /\ created = 0
    /\ api = "down"
    /\ sweep = {}
    /\ runner = NoRunner
    /\ crashes = 0
    /\ writeFailures = 0

-----------------------------------------------------------------------------
(***************************************************************************)
(* AssessmentJobStore: memory changes first, then _save writes all of it.  *)
(* A save that raises leaves the file as it was, and memory as changed:    *)
(* the statuses of all jobs (table) and which of them have a result        *)
(* (answered).                                                             *)
(***************************************************************************)
Remembers(table, answered) == mem' = table /\ results' = answered

Writes(table, answered) == disk' = table /\ stored' = answered

Saves(table, answered) ==
    /\ Remembers(table, answered)
    /\ Writes(table, answered)
    /\ UNCHANGED writeFailures

SaveRaises(table, answered) ==
    /\ writeFailures < MaxWriteFailures
    /\ writeFailures' = writeFailures + 1
    /\ Remembers(table, answered)
    /\ UNCHANGED <<disk, stored>>

SaveRaisesTwice(table, answered) ==
    /\ writeFailures + 1 < MaxWriteFailures
    /\ writeFailures' = writeFailures + 2
    /\ Remembers(table, answered)
    /\ UNCHANGED <<disk, stored>>

\* The save of a first change raises and the save of the next one does not.
SavesAfterRaise(table, answered) ==
    /\ writeFailures < MaxWriteFailures
    /\ writeFailures' = writeFailures + 1
    /\ Remembers(table, answered)
    /\ Writes(table, answered)

\* Mutant: mark_error stores a name that is not a job status.
MarkedOutside(j) == [mem EXCEPT ![j] = "ERROR"]

\* mark_error; it asks nothing of the status it overwrites, and leaves the
\* result that a job may have.
MarkedError(j) == [mem EXCEPT ![j] = "FAILED"]

MarkedRunning(j) == [mem EXCEPT ![j] = "RUNNING"]

\* mark_complete: a pipeline-level ERROR fails the job, everything else is a
\* completed job.  Both have the result from then on.
MarkedComplete(j, isError) == [mem EXCEPT ![j] = IF isError THEN "FAILED" ELSE "COMPLETED"]

Prunable == {j \in Jobs : mem[j] \in Terminal}

\* list(): the newest ListLimit jobs.
Newer(table, j) == {k \in Jobs : k > j /\ table[k] # "ABSENT"}

Listed(table) == {j \in Jobs : table[j] # "ABSENT" /\ Cardinality(Newer(table, j)) < ListLimit}

\* Mutant: start-up fails whatever it lists.
InFlightOrNot(table) == Listed(table)

\* Mutant: only jobs that had started count as in flight.
InFlightIfRunning(table) == {j \in Listed(table) : table[j] = "RUNNING"}

\* What lifespan fails: the jobs of the list that had not ended.
InFlight(table) == {j \in Listed(table) : table[j] \in Active}

-----------------------------------------------------------------------------
(***************************************************************************)
(* lifespan.                                                               *)
(***************************************************************************)
Down == /\ api' = "down"
        /\ sweep' = {}
        /\ runner' = NoRunner

Boot ==
    /\ api = "down"
    /\ api' = "loaded"
    /\ Remembers(disk, stored)
    /\ UNCHANGED <<disk, stored, created, sweep, runner, crashes, writeFailures>>

\* prune() drops old finished jobs and saves if there were any; then list().
Prune ==
    /\ api = "loaded"
    /\ \E stale \in SUBSET Prunable :
          LET kept == [j \in Jobs |-> IF j \in stale THEN "ABSENT" ELSE mem[j]] IN
          /\ Saves(kept, results \ stale)
          /\ api' = "sweeping"
          /\ sweep' = InFlight(kept)
    /\ UNCHANGED <<created, runner, crashes>>

\* The newest of the jobs to fail comes first; each is saved on its own.
Sweep(j) ==
    /\ api = "sweeping"
    /\ j \in sweep
    /\ \A k \in sweep : k <= j
    /\ Saves(MarkedError(j), results)
    /\ sweep' = sweep \ {j}
    /\ UNCHANGED <<created, api, runner, crashes>>

Serve ==
    /\ api = "sweeping"
    /\ sweep = {}
    /\ api' = "up"
    /\ UNCHANGED <<disk, mem, stored, results, created, sweep, runner, crashes, writeFailures>>

\* A save that raises during start-up ends the process.
StartFails ==
    /\ \/ api = "loaded" /\ Prunable # {}
       \/ api = "sweeping" /\ sweep # {}
    /\ SaveRaises(NoJobs, {})
    /\ Down
    /\ UNCHANGED <<created, crashes>>

\* SIGTERM: the server stops accepting, then lifespan cancels every runner.
Shutdown ==
    /\ api = "up"
    /\ api' = "stopping"
    /\ crashes < MaxCrashes
    /\ crashes' = crashes + 1
    /\ UNCHANGED <<disk, mem, stored, results, created, sweep, runner, writeFailures>>

Stopped ==
    /\ api = "stopping"
    /\ runner = NoRunner
    /\ Remembers(NoJobs, {})
    /\ Down
    /\ UNCHANGED <<disk, stored, created, crashes, writeFailures>>

Crash ==
    /\ api # "down"
    /\ crashes < MaxCrashes
    /\ crashes' = crashes + 1
    /\ Remembers(NoJobs, {})
    /\ Down
    /\ UNCHANGED <<disk, stored, created, writeFailures>>

-----------------------------------------------------------------------------
(***************************************************************************)
(* POST /api/v3/assess and the runner of a job.                            *)
(***************************************************************************)
RunnerAt(j, stage) == runner' = [runner EXCEPT ![j] = stage]

\* When the save raises the request fails, and the job stays in memory
\* without a runner.
Create(j) ==
    /\ api = "up"
    /\ j = created + 1
    /\ created' = j
    /\ \/ Saves([mem EXCEPT ![j] = "QUEUED"], results) /\ RunnerAt(j, "scheduled")
       \/ SaveRaises([mem EXCEPT ![j] = "QUEUED"], results) /\ UNCHANGED runner
    /\ UNCHANGED <<api, sweep, crashes>>

\* A save inside the try block raised: `except Exception` marks the error over
\* what memory has become.  Raising again there ends the runner.
Errs(j, answered) ==
    \/ SavesAfterRaise(MarkedError(j), answered) /\ RunnerAt(j, "reporting")
    \/ SaveRaisesTwice(MarkedError(j), answered) /\ RunnerAt(j, "none")

Start(j) ==
    /\ api = "up"
    /\ runner[j] = "scheduled"
    /\ \/ Saves(MarkedRunning(j), results) /\ RunnerAt(j, "executing")
       \/ Errs(j, results)
    /\ UNCHANGED <<created, api, sweep, crashes>>

\* Mutant: storing the result happens outside the try block.
FinishUncaught(j) ==
    /\ api = "up"
    /\ runner[j] = "executing"
    /\ \E isError \in BOOLEAN :
          \/ Saves(MarkedComplete(j, isError), results \cup {j}) /\ RunnerAt(j, "announcing")
          \/ SaveRaises(MarkedComplete(j, isError), results \cup {j}) /\ RunnerAt(j, "none")
    /\ UNCHANGED <<created, api, sweep, crashes>>

\* execute() returned: the result is stored before anybody hears of it.  When
\* the save raises, memory has the result all the same.
Finish(j) ==
    /\ api = "up"
    /\ runner[j] = "executing"
    /\ \/ /\ \E isError \in BOOLEAN : Saves(MarkedComplete(j, isError), results \cup {j})
          /\ RunnerAt(j, "announcing")
       \/ Errs(j, results \cup {j})
    /\ UNCHANGED <<created, api, sweep, crashes>>

\* execute() raised.
Raise(j) ==
    /\ api = "up"
    /\ runner[j] = "executing"
    /\ \/ Saves(MarkedError(j), results) /\ RunnerAt(j, "reporting")
       \/ SaveRaises(MarkedError(j), results) /\ RunnerAt(j, "none")
    /\ UNCHANGED <<created, api, sweep, crashes>>

\* The WebSocket clients have been told.
Announced(j) ==
    /\ api = "up"
    /\ runner[j] \in {"announcing", "reporting"}
    /\ RunnerAt(j, "none")
    /\ UNCHANGED <<disk, mem, stored, results, created, api, sweep, crashes, writeFailures>>

\* Shutdown cancels the runner.  One that never started just disappears; one
\* that awaits inside the try block marks its job, finished or not; one that
\* is already in the error handler has nothing left to catch it.
Cancel(j) ==
    /\ api = "stopping"
    /\ RunnerAt(j, "none")
    /\ \/ /\ runner[j] \in {"executing", "announcing"}
          /\ Saves(MarkedError(j), results) \/ SaveRaises(MarkedError(j), results)
       \/ /\ runner[j] \in {"scheduled", "reporting"}
          /\ UNCHANGED <<disk, mem, stored, results, writeFailures>>
    /\ UNCHANGED <<created, api, sweep, crashes>>

-----------------------------------------------------------------------------
Lifespan == Boot \/ Prune \/ (\E j \in Jobs : Sweep(j)) \/ Serve \/ Stopped

RunnerNext(j) == Start(j) \/ Finish(j) \/ Raise(j) \/ Announced(j) \/ Cancel(j)

Next ==
    \/ Lifespan
    \/ StartFails \/ Shutdown \/ Crash
    \/ \E j \in Jobs : Create(j) \/ RunnerNext(j)

Spec == Init /\ [][Next]_vars

\* The container restarts the process (restart: unless-stopped), and its event
\* loop serves every task; a pipeline call ends.
Fairness == WF_vars(Lifespan) /\ \A j \in Jobs : WF_vars(RunnerNext(j))

FairSpec == Spec /\ Fairness

-----------------------------------------------------------------------------
(***************************************************************************)
(* Properties.                                                             *)
(***************************************************************************)

\* GET /api/v3/jobs/{id}/result serves job.result from memory, whatever the
\* status.  A job served as COMPLETED is COMPLETED in the file, with its result
\* in both: a crash right after the answer loses nothing.  A result that the
\* file lacks is one whose saves raised in mark_complete and again in the
\* handler: its job is served as FAILED, without a runner.
ServedResultIsStored ==
    \A j \in Jobs :
        /\ mem[j] = "COMPLETED" => disk[j] = "COMPLETED" /\ j \in results \cap stored
        /\ j \in results \ stored =>
              mem[j] = "FAILED" /\ runner[j] = "none" /\ writeFailures > 1

\* Jobs a restart may have overlooked: list() ends before it gets to them.
BeyondList(table, j) == crashes > 0 /\ Cardinality(Newer(table, j)) >= ListLimit

\* While the API serves, a job shown as QUEUED or RUNNING has a runner, unless
\* a save failed or list() did not reach the job at the last start-up.
ActiveHasRunner ==
    api = "up" =>
        \A j \in Jobs :
            mem[j] \in Active =>
                \/ runner[j] # "none"
                \/ writeFailures > 0
                \/ BeyondList(mem, j)

\* The lifecycle in the file: creation, QUEUED to RUNNING to an end, and the
\* prune of what ended.  A restart or a failing save may end a QUEUED job.
Follows(was, is) ==
    \/ was = "ABSENT" /\ is = "QUEUED"
    \/ was = "QUEUED" /\ is = "RUNNING"
    \/ was = "RUNNING" /\ is = "COMPLETED"
    \/ was \in Active /\ is = "FAILED"
    \/ was \in Terminal /\ is = "ABSENT"

\* Shutdown cancels the announcement of a finished job: mark_error overwrites
\* COMPLETED, at once or, when that save raises, with the next one.
TakenBack(j) ==
    /\ disk[j] = "COMPLETED" /\ disk'[j] = "FAILED"
    /\ api = "stopping"
    /\ runner[j] = "announcing" \/ mem[j] = "FAILED"

\* In the file a job changes only along the lifecycle, but for the cancelled
\* announcement; it gets its result as it leaves RUNNING, and keeps it until it
\* is pruned.
LifecycleMovesForward ==
    [][\A j \in Jobs :
          /\ disk'[j] = disk[j] \/ Follows(disk[j], disk'[j]) \/ TakenBack(j)
          /\ j \in stored' \ stored => disk[j] = "RUNNING" /\ disk'[j] \in Terminal
          /\ j \in stored \ stored' => disk'[j] = "ABSENT"]_vars

\* Every accepted job ends, by its runner or by a restart, unless a save
\* failed or list() does not reach the job.
AcceptedJobEnds ==
    \A j \in Jobs :
        disk[j] \in Active ~>
            \/ disk[j] \notin Active
            \/ writeFailures > 0
            \/ BeyondList(disk, j)
=============================================================================
