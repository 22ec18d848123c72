---------------------------- MODULE AnalystJobs ----------------------------
(***************************************************************************)
(* The analyst job store (api/analyst/job_store.py) as the API process,    *)
(* the worker processes and the guardian share it through one JSON file.   *)
(*                                                                         *)
(* Every process keeps its own copy of the jobs (mem).  A mutation holds   *)
(* an asyncio lock and an flock, reloads the file, changes its copy and    *)
(* writes the file back; no await stands inside, so a mutation is one step *)
(* here.  The guardian takes neither lock: its read and its write are two  *)
(* steps.  A guardian write that lands between the reload and the write of *)
(* a locked mutation is overwritten by it: for the file and the guardian,  *)
(* that is a round that failed, GuardianWriteFails below.                  *)
(***************************************************************************)
EXTENDS Naturals, FiniteSets

CONSTANTS
    Jobs,              \* job identifiers
    Api,               \* the API process
    Workers,           \* analyst_worker.py processes
    Tasks,             \* identities of asyncio tasks running a job
    MaxConcurrency,    \* slots of a worker's semaphore
    GuardianDeployed,  \* whether guardian_runner.py runs beside them
    MaxCrashes,        \* bound: process deaths and shutdowns
    MaxWriteFailures   \* bound: writes of the file that raise

Procs == {Api} \cup Workers

ASSUME ApiIsNoWorker == Api \notin Workers
ASSUME BoundsAreNaturals ==
    /\ Tasks \subseteq Nat
    /\ MaxConcurrency \in Nat \ {0}
    /\ MaxCrashes \in Nat
    /\ MaxWriteFailures \in Nat
ASSUME DeploymentChoice == GuardianDeployed \in BOOLEAN

VARIABLES
    disk,          \* the jobs in the file: a status, or "ABSENT"
    fileExists,    \* whether the file was ever written
    mem,           \* mem[p]: JobStore._jobs in process p
    used,          \* identifiers uuid4 has handed out
    api,           \* where the API is in its lifespan
    pending,       \* jobs created by the API that it has not tried to claim yet
    workerUp,      \* the workers whose poll_loop runs
    todo,          \* todo[w]: rest of the QUEUED jobs of w's current tick
    tasks,         \* live runners: run_job_background and the code around it
    guardian,      \* where the guardian is in full_health_report
    snapshot,      \* the cleaned job list the guardian is about to write
    overdue,       \* jobs the guardian's check found started over 30 minutes ago
    crashes,
    writeFailures

storeVars == <<disk, fileExists, mem, writeFailures>>
guardianVars == <<guardian, snapshot>>
vars == <<storeVars, used, api, pending, workerUp, todo, tasks, guardianVars,
          overdue, crashes>>

Statuses == {"QUEUED", "RUNNING", "COMPLETED", "FAILED"}
Active   == {"QUEUED", "RUNNING"}
Terminal == {"COMPLETED", "FAILED"}
JobTable == [Jobs -> Statuses \cup {"ABSENT"}]
NoJobs   == [j \in Jobs |-> "ABSENT"]
Task     == [id : Tasks, proc : Procs, job : Jobs,
             at : {"claimed", "running", "failing", "crashed"}]

TypeOK ==
    /\ disk \in JobTable
    /\ fileExists \in BOOLEAN
    /\ mem \in [Procs -> JobTable]
    /\ used \in SUBSET Jobs
    /\ api \in {"down", "booting", "pruned", "up"}
    /\ pending \in SUBSET Jobs
    /\ workerUp \in SUBSET Workers
    /\ todo \in [Workers -> SUBSET Jobs]
    /\ tasks \in SUBSET Task
    /\ guardian \in {"idle", "stuck_found", "writing"}
    /\ snapshot \in JobTable
    /\ overdue \in SUBSET Jobs
    /\ crashes \in 0..MaxCrashes
    /\ writeFailures \in 0..MaxWriteFailures

Init ==
    /\ disk = NoJobs
    /\ fileExists = FALSE
    /\ mem = [p \in Procs |-> NoJobs]
    /\ used = {}
    /\ api = "down"
    /\ pending = {}
    /\ workerUp = {}
    /\ todo = [w \in Workers |-> {}]
    /\ tasks = {}
    /\ guardian = "idle"
    /\ snapshot = NoJobs
    /\ overdue = {}
    /\ crashes = 0
    /\ writeFailures = 0

-----------------------------------------------------------------------------
(***************************************************************************)
(* JobStore: one read-modify-write of the file.                            *)
(***************************************************************************)

\* The job table a mutation of process p starts from: _load replaces the
\* copy in memory, unless there is no file yet.
Loaded(p) == IF fileExists THEN disk ELSE mem[p]

\* _persist succeeds: file and memory agree.
Saved(p, table) ==
    /\ disk' = table
    /\ fileExists' = TRUE
    /\ mem' = [mem EXCEPT ![p] = table]
    /\ UNCHANGED writeFailures

\* _persist raises (write_json leaves the old file intact); `kept` is what
\* stays in memory.
SaveFails(p, kept) ==
    /\ writeFailures < MaxWriteFailures
    /\ writeFailures' = writeFailures + 1
    /\ mem' = [mem EXCEPT ![p] = kept]
    /\ UNCHANGED <<disk, fileExists>>

\* Mutant: no rollback when the write of update_job fails.
UpdateFailsDirty(p, j, s) ==
    /\ Loaded(p)[j] # "ABSENT"
    /\ SaveFails(p, [Loaded(p) EXCEPT ![j] = s])

\* update_job: no guard on the status it overwrites; a missing job is no error.
Update(p, j, s) ==
    \/ /\ Loaded(p)[j] # "ABSENT"
       /\ Saved(p, [Loaded(p) EXCEPT ![j] = s])
    \/ /\ Loaded(p)[j] = "ABSENT"
       /\ mem' = [mem EXCEPT ![p] = Loaded(p)]
       /\ UNCHANGED <<disk, fileExists, writeFailures>>

\* update_job when the write raises: the fields are rolled back.
UpdateFails(p, j, s) ==
    /\ Loaded(p)[j] # "ABSENT"
    /\ SaveFails(p, Loaded(p))

\* Mutant: claim_job without the status test.
ClaimableIfPresent(p, j) == Loaded(p)[j] # "ABSENT"

\* Mutant: claim_job tests the copy in memory, as it was before the reload.
ClaimableInMemory(p, j) == mem[p][j] = "QUEUED"

\* The test of claim_job, made on the reloaded table.
Claimable(p, j) == Loaded(p)[j] = "QUEUED"

ClaimedTable(p, j) == [Loaded(p) EXCEPT ![j] = "RUNNING"]

\* Mutant: the claim is stored and the runner is never scheduled.
NoNewTask(p, j) == UNCHANGED tasks

\* create_task around run_job_background for a job just claimed; the task
\* takes the lowest identity that is free.
FreeIds == Tasks \ {t.id : t \in tasks}

NewTask(p, j) ==
    \E id \in FreeIds :
        /\ \A k \in FreeIds : id <= k
        /\ tasks' = tasks \cup {[id |-> id, proc |-> p, job |-> j, at |-> "claimed"]}

\* claim_job wins: the job is RUNNING in the file and gets a runner.
ClaimWins(p, j) ==
    /\ Claimable(p, j)
    /\ Saved(p, ClaimedTable(p, j))
    /\ NewTask(p, j)
    /\ overdue' = overdue \ {j}

\* claim_job returns None; _mutate writes the file all the same.
ClaimLoses(p, j) ==
    /\ ~Claimable(p, j)
    /\ Saved(p, Loaded(p))
    /\ UNCHANGED <<tasks, overdue>>

\* The write of claim_job raises: _mutate has no rollback, so the claim
\* stays in memory while the file says QUEUED.
ClaimFails(p, j) ==
    /\ SaveFails(p, IF Claimable(p, j) THEN ClaimedTable(p, j) ELSE Loaded(p))
    /\ UNCHANGED <<tasks, overdue>>

-----------------------------------------------------------------------------
(***************************************************************************)
(* The API process: lifespan, the create endpoint, shutdown.               *)
(***************************************************************************)

\* A process ends: its copy of the jobs and its tasks are gone.  Cancelling a
\* runner (shutdown) has no other effect than killing it: run_job_background
\* and _run_claimed do not store anything on CancelledError.
Ends(p, table) ==
    /\ mem' = [table EXCEPT ![p] = NoJobs]
    /\ tasks' = {t \in tasks : t.proc # p}

CrashBudget ==
    /\ crashes < MaxCrashes
    /\ crashes' = crashes + 1

\* Importing the module builds STORE, which loads the file if there is one.
ApiBoot ==
    /\ api = "down"
    /\ api' = "booting"
    /\ mem' = [mem EXCEPT ![Api] = Loaded(Api)]
    /\ UNCHANGED <<disk, fileExists, writeFailures, used, pending, workerUp, todo,
                   tasks, guardianVars, overdue, crashes>>

\* A write that raises inside lifespan ends the start-up.
ApiStartFails ==
    /\ api \in {"booting", "pruned"}
    /\ writeFailures < MaxWriteFailures
    /\ writeFailures' = writeFailures + 1
    /\ api' = "down"
    /\ Ends(Api, mem)
    /\ UNCHANGED <<disk, fileExists, used, pending, workerUp, todo, guardianVars,
                   overdue, crashes>>

\* Mutant: retention looks at the age of a job and not at its status.
PrunableByAge(table) == {j \in Jobs : table[j] # "ABSENT"}

\* prune keeps every QUEUED and RUNNING job.
Prunable(table) == {j \in Jobs : table[j] \in Terminal}

\* lifespan, first: prune().  Age is abstracted: any of the prunable jobs may
\* be past the retention window.
ApiPrune ==
    /\ api = "booting"
    /\ api' = "pruned"
    /\ \E old \in SUBSET Prunable(Loaded(Api)) :
          Saved(Api, [j \in Jobs |-> IF j \in old THEN "ABSENT" ELSE Loaded(Api)[j]])
    /\ UNCHANGED <<used, pending, workerUp, todo, tasks, guardianVars, overdue, crashes>>

\* Mutant: a status of its own that no reader of the jobs knows.
InterruptedByName(table) ==
    [j \in Jobs |-> IF table[j] \in Active THEN "INTERRUPTED" ELSE table[j]]

\* Mutant: a job that waited for its claim is not taken for in flight.
InterruptedIfRunning(table) ==
    [j \in Jobs |-> IF table[j] = "RUNNING" THEN "FAILED" ELSE table[j]]

\* lifespan, second: mark_interrupted() fails everything in flight.
Interrupted(table) ==
    [j \in Jobs |-> IF table[j] \in Active THEN "FAILED" ELSE table[j]]

ApiInterrupt ==
    /\ api = "pruned"
    /\ api' = "up"
    /\ Saved(Api, Interrupted(Loaded(Api)))
    /\ UNCHANGED <<used, pending, workerUp, todo, tasks, guardianVars, overdue, crashes>>

\* POST /api/v3/analyst-jobs, first mutation: create_job.  When its write
\* raises, the request answers 500 and the new job stays in memory.
CreateJob(j) ==
    /\ api = "up"
    /\ j \notin used
    /\ used' = used \cup {j}
    /\ \/ /\ Saved(Api, [Loaded(Api) EXCEPT ![j] = "QUEUED"])
          /\ pending' = pending \cup {j}
       \/ /\ SaveFails(Api, [Loaded(Api) EXCEPT ![j] = "QUEUED"])
          /\ UNCHANGED pending
    /\ UNCHANGED <<api, workerUp, todo, tasks, guardianVars, overdue, crashes>>

\* The outcomes of the endpoint's claim_job, the second mutation.
ApiClaimOutcome(j) == ClaimWins(Api, j) \/ ClaimLoses(Api, j) \/ ClaimFails(Api, j)

\* POST /api/v3/analyst-jobs, the rest: claim the job and schedule its runner.
ApiClaim(j) ==
    /\ j \in pending
    /\ pending' = pending \ {j}
    /\ ApiClaimOutcome(j)
    /\ UNCHANGED <<used, api, workerUp, todo, guardianVars, crashes>>

\* The API process is stopped or dies; shutdown cancels its runners.
ApiCrash ==
    /\ api # "down"
    /\ api' = "down"
    /\ CrashBudget
    /\ pending' = {}
    /\ Ends(Api, mem)
    /\ UNCHANGED <<disk, fileExists, writeFailures, used, workerUp, todo,
                   guardianVars, overdue>>

-----------------------------------------------------------------------------
(***************************************************************************)
(* The worker processes: poll_loop.                                        *)
(***************************************************************************)

WorkerStart(w) ==
    /\ w \notin workerUp
    /\ workerUp' = workerUp \cup {w}
    /\ mem' = [mem EXCEPT ![w] = Loaded(w)]
    /\ UNCHANGED <<disk, fileExists, writeFailures, used, api, pending, todo, tasks,
                   guardianVars, overdue, crashes>>

\* A tick: list_jobs reads the copy in memory, not the file.
Poll(w) ==
    /\ w \in workerUp
    /\ todo[w] = {}
    /\ todo' = [todo EXCEPT ![w] = {j \in Jobs : mem[w][j] = "QUEUED"}]
    /\ UNCHANGED <<storeVars, used, api, pending, workerUp, tasks, guardianVars,
                   overdue, crashes>>

\* The next QUEUED job of the tick is claimed, here or by somebody else.
WorkerClaim(w, j) ==
    /\ w \in workerUp
    /\ j \in todo[w]
    /\ todo' = [todo EXCEPT ![w] = @ \ {j}]
    /\ ClaimWins(w, j) \/ ClaimLoses(w, j)
    /\ UNCHANGED <<used, api, pending, workerUp, guardianVars, crashes>>

\* poll_loop does not survive an exception out of claim_job: the process ends.
WorkerClaimFails(w) ==
    /\ w \in workerUp
    /\ todo[w] # {}
    /\ writeFailures < MaxWriteFailures
    /\ writeFailures' = writeFailures + 1
    /\ workerUp' = workerUp \ {w}
    /\ todo' = [todo EXCEPT ![w] = {}]
    /\ Ends(w, mem)
    /\ UNCHANGED <<disk, fileExists, used, api, pending, guardianVars, overdue, crashes>>

WorkerCrash(w) ==
    /\ w \in workerUp
    /\ workerUp' = workerUp \ {w}
    /\ CrashBudget
    /\ todo' = [todo EXCEPT ![w] = {}]
    /\ Ends(w, mem)
    /\ UNCHANGED <<disk, fileExists, writeFailures, used, api, pending, guardianVars,
                   overdue>>

-----------------------------------------------------------------------------
(***************************************************************************)
(* run_job_background, in the API or under a worker's semaphore.           *)
(***************************************************************************)

MovesTo(t, s) == tasks' = (tasks \ {t}) \cup {[t EXCEPT !.at = s]}

TaskEnds(t) == tasks' = tasks \ {t}

\* Tasks inside `async with semaphore`.
HoldingSlot(p) == {t \in tasks : t.proc = p /\ t.at # "claimed"}

\* What an exception out of run_job_background leads to: _run_claimed
\* catches it in a worker, nobody does in the API.
RunnerRaises(t) == IF t.proc = Api THEN TaskEnds(t) ELSE MovesTo(t, "crashed")

\* update_job(status="RUNNING"), outside the try block.
StartRun(t) ==
    /\ t.at = "claimed"
    /\ t.proc = Api \/ Cardinality(HoldingSlot(t.proc)) < MaxConcurrency
    /\ \/ /\ Update(t.proc, t.job, "RUNNING")
          /\ overdue' = overdue \ {t.job}
          /\ MovesTo(t, "running")
       \/ /\ UpdateFails(t.proc, t.job, "RUNNING")
          /\ UNCHANGED overdue
          /\ RunnerRaises(t)
    /\ UNCHANGED <<used, api, pending, workerUp, todo, guardianVars, crashes>>

\* diplomat_query returned: store COMPLETED; a write that raises is handled
\* by the except branch.
CompleteRun(t) ==
    /\ t.at = "running"
    /\ \/ Update(t.proc, t.job, "COMPLETED") /\ TaskEnds(t)
       \/ UpdateFails(t.proc, t.job, "COMPLETED") /\ MovesTo(t, "failing")
    /\ UNCHANGED <<used, api, pending, workerUp, todo, guardianVars, overdue, crashes>>

\* The except branch, after the pipeline or the store raised: store FAILED.
FailRun(t) ==
    /\ t.at \in {"running", "failing"}
    /\ \/ Update(t.proc, t.job, "FAILED") /\ TaskEnds(t)
       \/ UpdateFails(t.proc, t.job, "FAILED") /\ RunnerRaises(t)
    /\ UNCHANGED <<used, api, pending, workerUp, todo, guardianVars, overdue, crashes>>

\* The except branch of _run_claimed in a worker, its last try.
ReportCrash(t) ==
    /\ t.at = "crashed"
    /\ Update(t.proc, t.job, "FAILED") \/ UpdateFails(t.proc, t.job, "FAILED")
    /\ TaskEnds(t)
    /\ UNCHANGED <<used, api, pending, workerUp, todo, guardianVars, overdue, crashes>>

-----------------------------------------------------------------------------
(***************************************************************************)
(* The guardian: _check_job_queue, then _clear_stuck_jobs.                 *)
(***************************************************************************)

\* _check_job_queue finds jobs with a started_at more than 30 minutes ago.
\* Time is not modelled: any of the RUNNING jobs may be that old.
GuardianCheck ==
    /\ GuardianDeployed
    /\ guardian = "idle"
    /\ overdue' \in SUBSET {j \in Jobs : disk[j] = "RUNNING"} \ {{}}
    /\ guardian' = "stuck_found"
    /\ UNCHANGED <<storeVars, used, api, pending, workerUp, todo, tasks, snapshot, crashes>>

\* Mutant: the guardian leaves the stuck jobs as they are.
CleanedOfNothing == disk

\* The list _clear_stuck_jobs computes from a fresh read of the file.
Cleaned ==
    [j \in Jobs |-> IF disk[j] = "RUNNING" /\ j \in overdue THEN "FAILED" ELSE disk[j]]

GuardianRead ==
    /\ guardian = "stuck_found"
    /\ guardian' = "writing"
    /\ snapshot' = Cleaned
    /\ overdue' = {}
    /\ UNCHANGED <<storeVars, used, api, pending, workerUp, todo, tasks, crashes>>

\* It writes that list, whatever the file holds by now.
GuardianWrite ==
    /\ guardian = "writing"
    /\ guardian' = "idle"
    /\ disk' = snapshot
    /\ snapshot' = NoJobs
    /\ UNCHANGED <<fileExists, mem, writeFailures, used, api, pending, workerUp, todo,
                   tasks, overdue, crashes>>

\* An exception in _clear_stuck_jobs is swallowed; the same for the guardian is
\* a write that a locked mutation overwrites.
GuardianWriteFails ==
    /\ guardian = "writing"
    /\ guardian' = "idle"
    /\ snapshot' = NoJobs
    /\ writeFailures < MaxWriteFailures
    /\ writeFailures' = writeFailures + 1
    /\ UNCHANGED <<disk, fileExists, mem, used, api, pending, workerUp, todo, tasks,
                   overdue, crashes>>

-----------------------------------------------------------------------------
ApiNext ==
    \/ ApiBoot
    \/ ApiStartFails
    \/ ApiPrune
    \/ ApiInterrupt
    \/ ApiCrash
    \/ \E j \in Jobs : CreateJob(j) \/ ApiClaim(j)

WorkerNext ==
    \E w \in Workers :
        \/ WorkerStart(w)
        \/ Poll(w)
        \/ WorkerClaimFails(w)
        \/ WorkerCrash(w)
        \/ \E j \in Jobs : WorkerClaim(w, j)

RunnerStep(t) == StartRun(t) \/ CompleteRun(t) \/ FailRun(t) \/ ReportCrash(t)

GuardianNext ==
    \/ GuardianCheck
    \/ GuardianRead
    \/ GuardianWrite
    \/ GuardianWriteFails

Next ==
    \/ ApiNext
    \/ WorkerNext
    \/ \E t \in tasks : RunnerStep(t)
    \/ GuardianNext

Spec == Init /\ [][Next]_vars

(***************************************************************************)
(* Fairness, one condition for each sequential process.  The containers    *)
(* restart (restart: unless-stopped), the event loops keep serving their   *)
(* tasks, every pipeline call ends and the guardian wakes every minute; a  *)
(* job that stays RUNNING is overdue at every check from some point on,    *)
(* hence the strong fairness.  Nothing obliges a client to submit, a       *)
(* process to die or a write to fail.                                      *)
(***************************************************************************)
ApiStarts == ApiBoot \/ ApiPrune \/ ApiInterrupt

WorkerLoop(w) == WorkerStart(w) \/ Poll(w) \/ \E j \in Jobs : WorkerClaim(w, j)

GuardianRound == GuardianRead \/ GuardianWrite

Fairness ==
    /\ WF_vars(ApiStarts)
    /\ WF_vars(\E j \in Jobs : ApiClaim(j))
    /\ \A w \in Workers : WF_vars(WorkerLoop(w))
    /\ \A id \in Tasks : WF_vars(\E t \in tasks : t.id = id /\ RunnerStep(t))
    /\ WF_vars(GuardianRound)
    /\ \A j \in Jobs : SF_vars(GuardianCheck /\ j \in overdue')

FairSpec == Spec /\ Fairness

-----------------------------------------------------------------------------
(***************************************************************************)
(* Properties.                                                             *)
(***************************************************************************)

\* claim_job has one winner: no two runners of a job are ever alive at the
\* same time, in the same process or in two.
ClaimExclusive == \A t, u \in tasks : t.job = u.job => t = u

\* A result that any process reports as COMPLETED is in the file: memory
\* never runs ahead of a completed job, whatever write fails.
ServedCompletedIsDurable ==
    \A p \in Procs, j \in Jobs :
        mem[p][j] = "COMPLETED" => disk[j] \in {"COMPLETED", "ABSENT"}

\* Once the file says COMPLETED, no runner, restart or worker with an older
\* copy of the jobs changes that; retention may drop the job.
CompletedIsFinal ==
    [][\A j \in Jobs : disk[j] = "COMPLETED" => disk'[j] \in {"COMPLETED", "ABSENT"}]_vars

\* A job can be RUNNING in the file with no runner alive only after a process
\* died or a write failed.
NoOrphanWithoutFault ==
    \A j \in Jobs :
        disk[j] = "RUNNING" =>
            \/ \E t \in tasks : t.job = j
            \/ crashes > 0
            \/ writeFailures > 0

\* The store implements the ledger: single-use identifiers, exclusive claims,
\* reports by the holder only, nothing lost but by retention.
Ledger == INSTANCE JobLedger WITH
    ledger <- disk,
    held   <- {<<t.proc, t.job>> : t \in tasks},
    spent  <- used

ImplementsLedger == Ledger!LedgerSpec

\* With the guardian, no job stays RUNNING for ever: its runner ends it or
\* the guardian clears it, after crashes and failed writes as well.
NoJobRunsForever == \A j \in Jobs : disk[j] = "RUNNING" ~> disk[j] # "RUNNING"

\* A submitted job ends: the API runs it, or the worker that beat the API to
\* the claim does, or the API's restart fails it.  What is excused is a write
\* that failed and a job left RUNNING by a crash (the guardian's business).
SubmittedJobEnds ==
    \A j \in Jobs :
        disk[j] = "QUEUED" ~>
            \/ disk[j] \in Terminal
            \/ disk[j] = "RUNNING" /\ crashes > 0
            \/ writeFailures > 0
=============================================================================
