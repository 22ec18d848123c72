------------------------ MODULE AnalystJobs_proofs ------------------------
(***************************************************************************)
(* Theorems about AnalystJobs, for every number of jobs, workers, tasks,   *)
(* crashes and failed writes.  Type correctness holds of every deployment; *)
(* the others are about a deployment without the guardian, which writes    *)
(* the file without the lock (AnalystJobsStaleWrite.cfg shows what then    *)
(* happens).                                                               *)
(***************************************************************************)
EXTENDS AnalystJobs, TLAPS

-----------------------------------------------------------------------------
(***************************************************************************)
(* Types.                                                                  *)
(***************************************************************************)

\* The part of TypeOK a mutation of the store touches.
StoreOK ==
    /\ disk \in JobTable
    /\ fileExists \in BOOLEAN
    /\ mem \in [Procs -> JobTable]
    /\ writeFailures \in 0..MaxWriteFailures

\* Reloading yields a table of jobs.
LEMMA LoadedTyped ==
    ASSUME StoreOK, NEW p \in Procs
    PROVE  Loaded(p) \in JobTable
  BY DEF StoreOK, Loaded

\* Setting the status of one job yields a table of jobs.
LEMMA StatusSet ==
    ASSUME NEW table \in JobTable, NEW j \in Jobs, NEW s \in Statuses
    PROVE  [table EXCEPT ![j] = s] \in JobTable
  BY DEF JobTable, Statuses

\* A write keeps the types, whether it succeeds or raises.
LEMMA WriteTyped ==
    ASSUME StoreOK, NEW p \in Procs, NEW table \in JobTable,
           Saved(p, table) \/ SaveFails(p, table)
    PROVE  StoreOK'
  <1>1. CASE Saved(p, table)
    BY <1>1 DEF StoreOK, Saved
  <1>2. CASE SaveFails(p, table)
    <2>1. writeFailures' \in 0..MaxWriteFailures
      BY <1>2, BoundsAreNaturals DEF StoreOK, SaveFails, BoundsAreNaturals
    <2>. QED  BY <1>2, <2>1 DEF StoreOK, SaveFails
  <1>. QED  BY <1>1, <1>2

\* So does update_job.
LEMMA UpdateTyped ==
    ASSUME StoreOK, NEW p \in Procs, NEW j \in Jobs, NEW s \in Statuses,
           Update(p, j, s) \/ UpdateFails(p, j, s)
    PROVE  StoreOK'
  <1>1. Loaded(p) \in JobTable
    BY LoadedTyped
  <1>2. [Loaded(p) EXCEPT ![j] = s] \in JobTable
    BY <1>1, StatusSet
  <1>3. CASE Update(p, j, s)
    <2>1. CASE Saved(p, [Loaded(p) EXCEPT ![j] = s])
      BY <2>1, <1>2, WriteTyped
    <2>2. CASE mem' = [mem EXCEPT ![p] = Loaded(p)] /\ UNCHANGED <<disk, fileExists, writeFailures>>
      BY <2>2, <1>1 DEF StoreOK
    <2>. QED  BY <1>3, <2>1, <2>2 DEF Update
  <1>4. CASE UpdateFails(p, j, s)
    BY <1>4, <1>1, WriteTyped DEF UpdateFails
  <1>. QED  BY <1>3, <1>4

\* And claim_job, which also leaves a typed set of tasks.
LEMMA ClaimTyped ==
    ASSUME StoreOK, NEW p \in Procs, NEW j \in Jobs,
           tasks \in SUBSET Task, overdue \in SUBSET Jobs,
           ClaimWins(p, j) \/ ClaimLoses(p, j) \/ ClaimFails(p, j)
    PROVE  StoreOK' /\ tasks' \in SUBSET Task /\ overdue' \in SUBSET Jobs
  <1>1. Loaded(p) \in JobTable
    BY LoadedTyped
  <1>2. ClaimedTable(p, j) \in JobTable
    BY <1>1, StatusSet DEF ClaimedTable, Statuses
  <1>3. CASE ClaimWins(p, j)
    <2>1. StoreOK'
      BY <1>3, <1>2, WriteTyped DEF ClaimWins
    <2>2. tasks' \in SUBSET Task
      BY <1>3 DEF ClaimWins, NewTask, Task, FreeIds
    <2>. QED  BY <1>3, <2>1, <2>2 DEF ClaimWins
  <1>4. CASE ClaimLoses(p, j)
    BY <1>4, <1>1, WriteTyped DEF ClaimLoses
  <1>5. CASE ClaimFails(p, j)
    BY <1>5, <1>1, <1>2, WriteTyped DEF ClaimFails
  <1>. QED  BY <1>3, <1>4, <1>5

\* A process that ends leaves a typed table and a subset of the tasks.
LEMMA EndsTyped ==
    ASSUME NEW p \in Procs, mem \in [Procs -> JobTable], Ends(p, mem)
    PROVE  mem' \in [Procs -> JobTable] /\ tasks' \in SUBSET tasks
  BY DEF Ends, JobTable, NoJobs

\* A runner that moves on, ends or raises leaves a typed set of tasks.
LEMMA RunnerTyped ==
    ASSUME tasks \in SUBSET Task, NEW t \in tasks,
           NEW s \in {"claimed", "running", "failing", "crashed"},
           MovesTo(t, s) \/ TaskEnds(t) \/ RunnerRaises(t)
    PROVE  tasks' \in SUBSET Task
  <1>1. [t EXCEPT !.at = s] \in Task /\ [t EXCEPT !.at = "crashed"] \in Task
    BY DEF Task
  <1>. QED  BY <1>1 DEF MovesTo, TaskEnds, RunnerRaises

\* The variables of TypeOK outside the store, for the steps that leave them.
RestOK ==
    /\ used \in SUBSET Jobs
    /\ api \in {"down", "booting", "pruned", "up"}
    /\ pending \in SUBSET Jobs
    /\ workerUp \in SUBSET Workers
    /\ todo \in [Workers -> SUBSET Jobs]
    /\ tasks \in SUBSET Task
    /\ guardian \in {"idle", "stuck_found", "writing"}
    /\ snapshot \in JobTable
    /\ overdue \in SUBSET Jobs
    /\ crashes \in 0..MaxCrashes

\* The type invariant is that of the store and that of the processes.
LEMMA TypeSplit == TypeOK <=> StoreOK /\ RestOK
  BY DEF TypeOK, StoreOK, RestOK

\* The failures a run of the model still has room for.
LEMMA BudgetTyped ==
    /\ crashes \in 0..MaxCrashes /\ CrashBudget => crashes' \in 0..MaxCrashes
    /\ writeFailures \in 0..MaxWriteFailures /\ writeFailures < MaxWriteFailures
          => writeFailures + 1 \in 0..MaxWriteFailures
  BY BoundsAreNaturals DEF BoundsAreNaturals, CrashBudget

\* The steps of the API process keep the types.
LEMMA ApiTyped ==
    ASSUME StoreOK, RestOK, ApiNext
    PROVE  StoreOK' /\ RestOK'
  <1>0. Api \in Procs /\ Loaded(Api) \in JobTable
    BY LoadedTyped DEF Procs
  <1>1. CASE ApiBoot
    BY <1>1, <1>0 DEF ApiBoot, StoreOK, RestOK, guardianVars
  <1>2. CASE ApiStartFails
    BY <1>2, <1>0, EndsTyped, BudgetTyped DEF ApiStartFails, StoreOK, RestOK, guardianVars
  <1>3. CASE ApiPrune
    <2>1. PICK old \in SUBSET Prunable(Loaded(Api)) :
            Saved(Api, [j \in Jobs |-> IF j \in old THEN "ABSENT" ELSE Loaded(Api)[j]])
      BY <1>3 DEF ApiPrune
    <2>2. [j \in Jobs |-> IF j \in old THEN "ABSENT" ELSE Loaded(Api)[j]] \in JobTable
      BY <1>0 DEF JobTable
    <2>3. StoreOK'
      BY <2>1, <2>2, <1>0, WriteTyped
    <2>. QED  BY <1>3, <2>3 DEF ApiPrune, RestOK, guardianVars
  <1>4. CASE ApiInterrupt
    <2>1. Interrupted(Loaded(Api)) \in JobTable
      BY <1>0 DEF JobTable, Interrupted, Statuses
    <2>2. StoreOK'
      BY <1>4, <2>1, <1>0, WriteTyped DEF ApiInterrupt
    <2>. QED  BY <1>4, <2>2 DEF ApiInterrupt, RestOK, guardianVars
  <1>5. CASE ApiCrash
    BY <1>5, <1>0, EndsTyped, BudgetTyped DEF ApiCrash, StoreOK, RestOK, guardianVars
  <1>6. ASSUME NEW j \in Jobs, CreateJob(j)
        PROVE  StoreOK' /\ RestOK'
    <2>1. [Loaded(Api) EXCEPT ![j] = "QUEUED"] \in JobTable
      BY <1>0, StatusSet DEF Statuses
    <2>2. StoreOK'
      BY <1>6, <2>1, <1>0, WriteTyped DEF CreateJob
    <2>. QED  BY <1>6, <2>2 DEF CreateJob, RestOK, guardianVars
  <1>7. ASSUME NEW j \in Jobs, ApiClaim(j)
        PROVE  StoreOK' /\ RestOK'
    <2>1. StoreOK' /\ tasks' \in SUBSET Task /\ overdue' \in SUBSET Jobs
      BY <1>7, <1>0, ClaimTyped DEF ApiClaim, ApiClaimOutcome, RestOK
    <2>. QED  BY <1>7, <2>1 DEF ApiClaim, RestOK, guardianVars
  <1>. QED  BY <1>1, <1>2, <1>3, <1>4, <1>5, <1>6, <1>7 DEF ApiNext

\* The steps of a worker process keep the types.
LEMMA WorkerTyped ==
    ASSUME StoreOK, RestOK, NEW w \in Workers,
           \/ WorkerStart(w)
           \/ Poll(w)
           \/ WorkerClaimFails(w)
           \/ WorkerCrash(w)
           \/ \E j \in Jobs : WorkerClaim(w, j)
    PROVE  StoreOK' /\ RestOK'
  <1>0. w \in Procs /\ Loaded(w) \in JobTable
    BY LoadedTyped DEF Procs
  <1>1. CASE WorkerStart(w)
    BY <1>1, <1>0 DEF WorkerStart, StoreOK, RestOK, guardianVars
  <1>2. CASE Poll(w)
    BY <1>2 DEF Poll, StoreOK, RestOK, storeVars, guardianVars
  <1>3. CASE WorkerClaimFails(w)
    BY <1>3, <1>0, EndsTyped, BudgetTyped DEF WorkerClaimFails, StoreOK, RestOK, guardianVars
  <1>4. CASE WorkerCrash(w)
    BY <1>4, <1>0, EndsTyped, BudgetTyped DEF WorkerCrash, StoreOK, RestOK, guardianVars
  <1>5. ASSUME NEW j \in Jobs, WorkerClaim(w, j)
        PROVE  StoreOK' /\ RestOK'
    <2>1. StoreOK' /\ tasks' \in SUBSET Task /\ overdue' \in SUBSET Jobs
      BY <1>5, <1>0, ClaimTyped DEF WorkerClaim, RestOK
    <2>. QED  BY <1>5, <2>1 DEF WorkerClaim, RestOK, guardianVars
  <1>. QED  BY <1>1, <1>2, <1>3, <1>4, <1>5

\* The steps of a job's runner keep the types.
LEMMA RunnerStepTyped ==
    ASSUME StoreOK, RestOK, NEW t \in tasks, RunnerStep(t)
    PROVE  StoreOK' /\ RestOK'
  <1>0. t \in Task /\ t.proc \in Procs /\ t.job \in Jobs
    BY DEF RestOK, Task
  <1>1. CASE StartRun(t)
    <2>1. StoreOK'
      BY <1>1, <1>0, UpdateTyped DEF StartRun, Statuses
    <2>2. tasks' \in SUBSET Task
      BY <1>1, RunnerTyped DEF StartRun, RestOK
    <2>. QED  BY <1>1, <2>1, <2>2 DEF StartRun, RestOK, guardianVars
  <1>2. CASE CompleteRun(t)
    <2>1. StoreOK'
      BY <1>2, <1>0, UpdateTyped DEF CompleteRun, Statuses
    <2>2. tasks' \in SUBSET Task
      BY <1>2, RunnerTyped DEF CompleteRun, RestOK
    <2>. QED  BY <1>2, <2>1, <2>2 DEF CompleteRun, RestOK, guardianVars
  <1>3. CASE FailRun(t)
    <2>1. StoreOK'
      BY <1>3, <1>0, UpdateTyped DEF FailRun, Statuses
    <2>2. tasks' \in SUBSET Task
      BY <1>3, RunnerTyped DEF FailRun, RestOK
    <2>. QED  BY <1>3, <2>1, <2>2 DEF FailRun, RestOK, guardianVars
  <1>4. CASE ReportCrash(t)
    <2>1. StoreOK'
      BY <1>4, <1>0, UpdateTyped DEF ReportCrash, Statuses
    <2>2. tasks' \in SUBSET Task
      BY <1>4, RunnerTyped DEF ReportCrash, RestOK
    <2>. QED  BY <1>4, <2>1, <2>2 DEF ReportCrash, RestOK, guardianVars
  <1>. QED  BY <1>1, <1>2, <1>3, <1>4 DEF RunnerStep

\* The steps of the guardian keep the types.
LEMMA GuardianTyped ==
    ASSUME StoreOK, RestOK, GuardianNext
    PROVE  StoreOK' /\ RestOK'
  <1>1. CASE GuardianCheck
    BY <1>1 DEF GuardianCheck, StoreOK, RestOK, storeVars
  <1>2. CASE GuardianRead
    <2>1. Cleaned \in JobTable
      BY DEF Cleaned, StoreOK, JobTable, Statuses
    <2>. QED  BY <1>2, <2>1 DEF GuardianRead, StoreOK, RestOK, storeVars
  <1>3. CASE GuardianWrite
    <2>1. NoJobs \in JobTable
      BY DEF NoJobs, JobTable
    <2>. QED  BY <1>3, <2>1 DEF GuardianWrite, StoreOK, RestOK
  <1>4. CASE GuardianWriteFails
    <2>1. NoJobs \in JobTable
      BY DEF NoJobs, JobTable
    <2>. QED  BY <1>4, <2>1, BudgetTyped DEF GuardianWriteFails, StoreOK, RestOK
  <1>. QED  BY <1>1, <1>2, <1>3, <1>4 DEF GuardianNext

\* The initial state is typed.
LEMMA InitTyped == Init => TypeOK
  <1>1. NoJobs \in JobTable
    BY DEF NoJobs, JobTable
  <1>2. 0 \in 0..MaxCrashes /\ 0 \in 0..MaxWriteFailures
    BY BoundsAreNaturals DEF BoundsAreNaturals
  <1>. QED  BY <1>1, <1>2 DEF Init, TypeOK

\* Every step keeps the types.
LEMMA TypeStep == TypeOK /\ [Next]_vars => TypeOK'
  <1>. SUFFICES ASSUME StoreOK, RestOK, [Next]_vars
                PROVE  StoreOK' /\ RestOK'
    BY TypeSplit DEF TypeOK, StoreOK, RestOK
  <1>1. CASE Next
    BY <1>1, ApiTyped, WorkerTyped, RunnerStepTyped, GuardianTyped DEF Next, WorkerNext
  <1>2. CASE UNCHANGED vars
    BY <1>2 DEF vars, storeVars, guardianVars, StoreOK, RestOK
  <1>. QED  BY <1>1, <1>2

\* All that the API, the workers, their runners and the guardian store, keep
\* in memory or write back has the shape the readers of the file expect.
THEOREM TypeCorrect == Spec => []TypeOK
  BY InitTyped, TypeStep, PTL DEF Spec

-----------------------------------------------------------------------------
(***************************************************************************)
(* The inductive invariant of a deployment without the guardian.           *)
(***************************************************************************)

\* The guardian never leaves its initial state.
NoGuardian == guardian = "idle" /\ overdue = {}

\* Before the first write of the file nobody has anything in memory to run.
FirstWrite ==
    \/ fileExists
    \/ /\ disk = NoJobs
       /\ mem = [p \in Procs |-> NoJobs]
       /\ tasks = {}
       /\ \A w \in Workers : todo[w] = {}
       /\ api \in {"down", "booting"}
       /\ pending = {}

\* No trace of a job exists before its identifier is handed out.
KnownIds ==
    \A j \in Jobs \ used :
        /\ disk[j] = "ABSENT"
        /\ \A p \in Procs : mem[p][j] = "ABSENT"
        /\ \A t \in tasks : t.job # j

\* While a job has a runner the file does not offer it to another one, and
\* does not show a result.
RunnerOwns == \A t \in tasks : disk[t.job] \in {"RUNNING", "FAILED", "ABSENT"}

IInv ==
    /\ TypeOK
    /\ NoGuardian
    /\ FirstWrite
    /\ KnownIds
    /\ RunnerOwns
    /\ ClaimExclusive
    /\ ServedCompletedIsDurable

\* What a step must do: keep the parts of IInv besides TypeOK, and leave the
\* results in the file alone.
FinalStep ==
    \A j \in Jobs : disk[j] = "COMPLETED" => disk'[j] \in {"COMPLETED", "ABSENT"}

\* Whatever a process holds in memory, a mutation starts from the file.
LEMMA LoadedIsDisk ==
    ASSUME IInv, NEW p \in Procs
    PROVE  Loaded(p) = disk
  BY DEF IInv, FirstWrite, Loaded

\* Memory may trail the file and never leads it: if a write keeps the finished
\* and the dropped jobs as they are, no process serves a result that is gone.
LEMMA WriteServed ==
    ASSUME IInv, NEW p \in Procs, NEW table \in JobTable, Saved(p, table),
           \A j \in used : disk[j] \in {"COMPLETED", "ABSENT"}
                               => table[j] \in {"COMPLETED", "ABSENT"}
    PROVE  ServedCompletedIsDurable' /\ FinalStep
  <1>. SUFFICES ASSUME NEW q \in Procs, NEW j \in Jobs
                PROVE  /\ mem'[q][j] = "COMPLETED" => disk'[j] \in {"COMPLETED", "ABSENT"}
                       /\ disk[j] = "COMPLETED" => disk'[j] \in {"COMPLETED", "ABSENT"}
    BY DEF ServedCompletedIsDurable, FinalStep
  <1>1. disk' = table /\ mem' = [mem EXCEPT ![p] = table] /\ mem \in [Procs -> JobTable]
    BY DEF Saved, IInv, TypeOK
  <1>2. mem[q][j] = "COMPLETED" => disk[j] \in {"COMPLETED", "ABSENT"}
    BY DEF IInv, ServedCompletedIsDurable
  <1>3. mem[q][j] = "COMPLETED" \/ disk[j] = "COMPLETED" => j \in used
    BY DEF IInv, KnownIds
  <1>. QED  BY <1>1, <1>2, <1>3

\* The same for a step that leaves the file and changes one memory.
LEMMA MemoryServed ==
    ASSUME IInv, NEW p \in Procs, NEW table \in JobTable,
           disk' = disk, mem' = [mem EXCEPT ![p] = table],
           \A j \in Jobs : table[j] = "COMPLETED" => disk[j] = "COMPLETED"
    PROVE  ServedCompletedIsDurable' /\ FinalStep
  <1>1. ASSUME NEW q \in Procs, NEW j \in Jobs, mem'[q][j] = "COMPLETED"
        PROVE  disk'[j] \in {"COMPLETED", "ABSENT"}
    <2>1. mem[q][j] = "COMPLETED" => disk[j] \in {"COMPLETED", "ABSENT"}
      BY DEF IInv, ServedCompletedIsDurable
    <2>2. mem \in [Procs -> JobTable]
      BY DEF IInv, TypeOK
    <2>. QED  BY <1>1, <2>1, <2>2
  <1>. QED  BY <1>1 DEF ServedCompletedIsDurable, FinalStep

\* A runner that moves on, ends or raises keeps its job to itself, and the job
\* has no runner left once it ended.
LEMMA RunnerTasks ==
    ASSUME IInv, NEW t \in tasks, NEW s \in {"claimed", "running", "failing", "crashed"},
           MovesTo(t, s) \/ TaskEnds(t) \/ RunnerRaises(t)
    PROVE  /\ \A u \in tasks' : \E v \in tasks : v.job = u.job
           /\ ClaimExclusive'
           /\ TaskEnds(t) => \A u \in tasks' : u.job # t.job
  <1>0. t \in Task /\ tasks \in SUBSET Task /\ ClaimExclusive
    BY DEF IInv, TypeOK
  <1>1. CASE TaskEnds(t)
    BY <1>0, <1>1 DEF TaskEnds, ClaimExclusive
  <1>2. ASSUME NEW r \in {"claimed", "running", "failing", "crashed"}, MovesTo(t, r)
        PROVE  /\ \A u \in tasks' : \E v \in tasks : v.job = u.job
               /\ ClaimExclusive'
    <2>1. tasks' = (tasks \ {t}) \cup {[t EXCEPT !.at = r]} /\ [t EXCEPT !.at = r].job = t.job
      BY <1>0, <1>2 DEF MovesTo, Task
    <2>2. \A u \in tasks \ {t} : u.job # t.job
      BY <1>0 DEF ClaimExclusive
    <2>. QED  BY <1>0, <2>1, <2>2 DEF ClaimExclusive
  <1>3. MovesTo(t, s) /\ TaskEnds(t) => \A u \in tasks' : u.job # t.job
    BY <1>0, <1>1
  <1>. QED  BY <1>1, <1>2, <1>3 DEF RunnerRaises

\* The parts of IInv a step of the store has to keep, besides TypeOK.
SafeOK ==
    /\ NoGuardian
    /\ FirstWrite
    /\ KnownIds
    /\ RunnerOwns
    /\ ClaimExclusive
    /\ ServedCompletedIsDurable

\* Steps that leave the file: one process refreshes or loses its memory, and
\* some of the runners may be gone.
LEMMA QuietStep ==
    ASSUME IInv, NEW p \in Procs, NEW table \in {disk, NoJobs},
           disk' = disk, fileExists' = fileExists, mem' = [mem EXCEPT ![p] = table],
           tasks' \in SUBSET tasks, used' = used, guardian' = guardian, overdue' = overdue,
           \/ fileExists
           \/ /\ \A w \in Workers : todo'[w] = {}
              /\ api' \in {"down", "booting"}
              /\ pending' = {}
    PROVE  SafeOK' /\ FinalStep
  <1>0. /\ table \in JobTable
        /\ disk \in JobTable
        /\ mem \in [Procs -> JobTable]
        /\ \A j \in Jobs : NoJobs[j] = "ABSENT"
    BY DEF IInv, TypeOK, NoJobs, JobTable
  <1>1. ServedCompletedIsDurable' /\ FinalStep
    BY <1>0, MemoryServed
  <1>2. NoGuardian' /\ ClaimExclusive' /\ RunnerOwns'
    BY DEF IInv, NoGuardian, ClaimExclusive, RunnerOwns
  <1>3. KnownIds'
    BY <1>0 DEF IInv, KnownIds
  <1>4. FirstWrite'
    <2>1. CASE fileExists
      BY <2>1 DEF FirstWrite
    <2>2. CASE ~fileExists
      <3>1. disk = NoJobs /\ mem = [q \in Procs |-> NoJobs] /\ tasks = {}
        BY <2>2 DEF IInv, FirstWrite
      <3>2. disk' = NoJobs /\ mem' = [q \in Procs |-> NoJobs] /\ tasks' = {}
        BY <3>1
      <3>. QED  BY <2>2, <3>2 DEF FirstWrite
    <2>. QED  BY <2>1, <2>2
  <1>. QED  BY <1>1, <1>2, <1>3, <1>4 DEF SafeOK

\* update_job for a job whose runner is alive.
LEMMA UpdateSafe ==
    ASSUME IInv, NEW t \in tasks, NEW s \in Statuses,
           NEW r \in {"claimed", "running", "failing", "crashed"},
           Update(t.proc, t.job, s) \/ UpdateFails(t.proc, t.job, s),
           \/ s \in {"RUNNING", "FAILED"} /\ (MovesTo(t, r) \/ TaskEnds(t) \/ RunnerRaises(t))
           \/ UpdateFails(t.proc, t.job, s) /\ MovesTo(t, r)
           \/ s # "QUEUED" /\ TaskEnds(t),
           used' = used, guardian' = guardian, overdue' \in SUBSET overdue
    PROVE  SafeOK' /\ FinalStep
  <1>0. /\ t \in Task /\ t.proc \in Procs /\ t.job \in Jobs
        /\ Loaded(t.proc) = disk
        /\ disk \in JobTable /\ mem \in [Procs -> JobTable]
        /\ disk[t.job] \in {"RUNNING", "FAILED", "ABSENT"}
        /\ t.job \in used
        /\ fileExists
    BY LoadedIsDisk DEF IInv, TypeOK, Task, RunnerOwns, KnownIds, FirstWrite
  <1>1. /\ \A u \in tasks' : \E v \in tasks : v.job = u.job
        /\ ClaimExclusive'
        /\ TaskEnds(t) => \A u \in tasks' : u.job # t.job
    BY RunnerTasks
  <1>2. NoGuardian'
    BY DEF IInv, NoGuardian
  <1>3. CASE disk[t.job] # "ABSENT" /\ Saved(t.proc, [disk EXCEPT ![t.job] = s])
    <2>1. [disk EXCEPT ![t.job] = s] \in JobTable
      BY <1>0, StatusSet
    <2>0. \A k \in used : disk[k] \in {"COMPLETED", "ABSENT"}
                             => [disk EXCEPT ![t.job] = s][k] \in {"COMPLETED", "ABSENT"}
      BY <1>0, <1>3 DEF IInv, TypeOK, JobTable
    <2>2. ServedCompletedIsDurable' /\ FinalStep
      BY <1>0, <1>3, <2>0, <2>1, WriteServed
    <2>3. disk' = [disk EXCEPT ![t.job] = s] /\ mem' = [mem EXCEPT ![t.proc] = disk'] /\ fileExists'
      BY <1>3 DEF Saved
    <2>4. KnownIds'
      BY <1>0, <1>1, <2>3 DEF IInv, KnownIds
    <2>5. s \in {"RUNNING", "FAILED"} \/ \A u \in tasks' : u.job # t.job
      <3>1. ~UpdateFails(t.proc, t.job, s)
        BY <1>0, <1>3 DEF UpdateFails, SaveFails, Saved, IInv, TypeOK
      <3>. QED  BY <3>1, <1>1
    <2>6. RunnerOwns'
      BY <1>0, <1>1, <2>3, <2>5 DEF IInv, RunnerOwns, TypeOK, Task
    <2>. QED  BY <1>1, <1>2, <2>2, <2>3, <2>4, <2>6 DEF SafeOK, FirstWrite
  <1>4. CASE disk' = disk /\ fileExists' = fileExists /\ mem' = [mem EXCEPT ![t.proc] = disk]
    <2>1. ServedCompletedIsDurable' /\ FinalStep
      BY <1>0, <1>4, MemoryServed
    <2>2. KnownIds'
      BY <1>0, <1>1, <1>4 DEF IInv, KnownIds
    <2>3. RunnerOwns'
      BY <1>1, <1>4 DEF IInv, RunnerOwns
    <2>. QED  BY <1>0, <1>1, <1>2, <1>4, <2>1, <2>2, <2>3 DEF SafeOK, FirstWrite
  <1>. QED  BY <1>0, <1>3, <1>4 DEF Update, UpdateFails, SaveFails

\* claim_job, won, lost or not saved.  The process is up, so the file exists.
LEMMA ClaimSafe ==
    ASSUME IInv, NEW p \in Procs, NEW j \in Jobs, fileExists,
           ClaimWins(p, j) \/ ClaimLoses(p, j) \/ ClaimFails(p, j),
           used' = used, guardian' = guardian
    PROVE  SafeOK' /\ FinalStep
  <1>0. /\ Loaded(p) = disk /\ disk \in JobTable /\ mem \in [Procs -> JobTable]
        /\ ClaimedTable(p, j) = [disk EXCEPT ![j] = "RUNNING"]
        /\ ClaimedTable(p, j) \in JobTable
    BY LoadedIsDisk, StatusSet DEF IInv, TypeOK, ClaimedTable, Statuses
  <1>1. CASE ClaimWins(p, j)
    <2>1. /\ disk[j] = "QUEUED" /\ Saved(p, ClaimedTable(p, j)) /\ NewTask(p, j)
          /\ overdue' \in SUBSET overdue
      BY <1>0, <1>1 DEF ClaimWins, Claimable
    <2>2. PICK id \in FreeIds :
            tasks' = tasks \cup {[id |-> id, proc |-> p, job |-> j, at |-> "claimed"]}
      BY <2>1 DEF NewTask
    <2>3. \A t \in tasks : t.job # j
      BY <2>1 DEF IInv, RunnerOwns
    <2>4. j \in used
      BY <2>1 DEF IInv, KnownIds
    <2>5. ServedCompletedIsDurable' /\ FinalStep
      <3>1. \A k \in used : disk[k] \in {"COMPLETED", "ABSENT"}
                               => ClaimedTable(p, j)[k] \in {"COMPLETED", "ABSENT"}
        BY <1>0, <2>1 DEF IInv, TypeOK, JobTable
      <3>. QED  BY <1>0, <2>1, <3>1, WriteServed
    <2>6. disk' = [disk EXCEPT ![j] = "RUNNING"] /\ mem' = [mem EXCEPT ![p] = disk'] /\ fileExists'
      BY <1>0, <2>1 DEF Saved
    <2>7. ClaimExclusive'
      BY <2>2, <2>3 DEF IInv, ClaimExclusive
    <2>8. RunnerOwns'
      <3>1. \A t \in tasks : t.job \in Jobs /\ disk[t.job] \in {"RUNNING", "FAILED", "ABSENT"}
        BY DEF IInv, RunnerOwns, TypeOK, Task
      <3>2. disk'[j] = "RUNNING" /\ \A k \in Jobs \ {j} : disk'[k] = disk[k]
        BY <1>0, <2>6 DEF JobTable
      <3>. QED  BY <2>2, <3>1, <3>2 DEF RunnerOwns
    <2>9. KnownIds'
      BY <1>0, <2>2, <2>4, <2>6 DEF IInv, KnownIds
    <2>10. NoGuardian' /\ FirstWrite'
      BY <2>1, <2>6 DEF IInv, NoGuardian, FirstWrite
    <2>. QED  BY <2>5, <2>7, <2>8, <2>9, <2>10 DEF SafeOK
  <1>2. CASE ClaimLoses(p, j)
    <2>1. disk' = disk /\ mem' = [mem EXCEPT ![p] = disk] /\ fileExists'
      BY <1>0, <1>2 DEF ClaimLoses, Saved
    <2>. QED  BY <1>2, <2>1, QuietStep DEF ClaimLoses, IInv, TypeOK
  <1>3. CASE ClaimFails(p, j)
    <2>1. PICK table \in {disk, ClaimedTable(p, j)} :
            mem' = [mem EXCEPT ![p] = table] /\ (table # disk => disk[j] = "QUEUED")
      BY <1>0, <1>3 DEF ClaimFails, SaveFails, Claimable
    <2>2. disk' = disk /\ fileExists' /\ tasks' = tasks /\ overdue' = overdue
      BY <1>3 DEF ClaimFails, SaveFails
    <2>3. /\ table \in JobTable
          /\ \A k \in Jobs : table[k] # disk[k] => disk[k] = "QUEUED" /\ table[k] = "RUNNING"
      BY <1>0, <2>1 DEF JobTable
    <2>4. ServedCompletedIsDurable' /\ FinalStep
      BY <2>1, <2>2, <2>3, MemoryServed
    <2>5. KnownIds'
      <3>1. \A k \in Jobs \ used : table[k] = "ABSENT" /\ disk[k] = "ABSENT"
        BY <2>3 DEF IInv, KnownIds
      <3>. QED  BY <1>0, <2>1, <2>2, <3>1 DEF IInv, KnownIds
    <2>6. NoGuardian' /\ FirstWrite' /\ RunnerOwns' /\ ClaimExclusive'
      BY <2>2 DEF IInv, NoGuardian, FirstWrite, RunnerOwns, ClaimExclusive
    <2>. QED  BY <2>4, <2>5, <2>6 DEF SafeOK
  <1>. QED  BY <1>1, <1>2, <1>3

\* Start-up, submission, claim and death of the API keep the invariant.
LEMMA ApiSafe ==
    ASSUME IInv, ApiNext
    PROVE  SafeOK' /\ FinalStep
  <1>0. /\ Api \in Procs /\ Loaded(Api) = disk
        /\ disk \in JobTable /\ mem \in [Procs -> JobTable]
        /\ used \in SUBSET Jobs
    BY LoadedIsDisk DEF IInv, TypeOK, Procs
  <1>1. CASE ApiBoot
    BY <1>0, <1>1, QuietStep DEF ApiBoot, guardianVars, IInv, TypeOK, FirstWrite
  <1>2. CASE ApiStartFails
    BY <1>0, <1>2, QuietStep DEF ApiStartFails, Ends, guardianVars, IInv, FirstWrite
  <1>3. CASE ApiPrune
    <2>1. PICK old \in SUBSET Prunable(disk) :
            Saved(Api, [j \in Jobs |-> IF j \in old THEN "ABSENT" ELSE disk[j]])
      BY <1>0, <1>3 DEF ApiPrune
    <2> DEFINE table == [j \in Jobs |-> IF j \in old THEN "ABSENT" ELSE disk[j]]
    <2>2. table \in JobTable
      BY <1>0 DEF JobTable
    <2>3. \A j \in used : disk[j] \in {"COMPLETED", "ABSENT"} => table[j] \in {"COMPLETED", "ABSENT"}
      BY <1>0
    <2>4. ServedCompletedIsDurable' /\ FinalStep
      BY <1>0, <2>1, <2>2, <2>3, WriteServed
    <2>5. disk' = table /\ mem' = [mem EXCEPT ![Api] = table] /\ fileExists'
      BY <2>1 DEF Saved
    <2>6. KnownIds'
      BY <1>0, <1>3, <2>5 DEF ApiPrune, IInv, KnownIds
    <2>7. RunnerOwns'
      BY <1>3, <2>5 DEF ApiPrune, IInv, TypeOK, Task, RunnerOwns
    <2>8. NoGuardian' /\ FirstWrite' /\ ClaimExclusive'
      BY <1>3, <2>5 DEF ApiPrune, guardianVars, IInv, NoGuardian, FirstWrite, ClaimExclusive
    <2>. QED  BY <2>4, <2>6, <2>7, <2>8 DEF SafeOK
  <1>4. CASE ApiInterrupt
    <2> DEFINE table == Interrupted(disk)
    <2>1. table \in JobTable
      BY <1>0 DEF JobTable, Interrupted, Statuses
    <2>2. Saved(Api, table)
      BY <1>0, <1>4 DEF ApiInterrupt
    <2>3. \A j \in used : disk[j] \in {"COMPLETED", "ABSENT"} => table[j] \in {"COMPLETED", "ABSENT"}
      BY <1>0 DEF Interrupted, Active
    <2>4. ServedCompletedIsDurable' /\ FinalStep
      BY <1>0, <2>1, <2>2, <2>3, WriteServed
    <2>5. disk' = table /\ mem' = [mem EXCEPT ![Api] = table] /\ fileExists'
      BY <2>2 DEF Saved
    <2>6. KnownIds'
      BY <1>0, <1>4, <2>5 DEF ApiInterrupt, IInv, KnownIds, Interrupted, Active
    <2>7. RunnerOwns'
      BY <1>4, <2>5 DEF ApiInterrupt, IInv, TypeOK, Task, RunnerOwns, Interrupted, Active
    <2>8. NoGuardian' /\ FirstWrite' /\ ClaimExclusive'
      BY <1>4, <2>5 DEF ApiInterrupt, guardianVars, IInv, NoGuardian, FirstWrite, ClaimExclusive
    <2>. QED  BY <2>4, <2>6, <2>7, <2>8 DEF SafeOK
  <1>5. CASE ApiCrash
    BY <1>0, <1>5, QuietStep DEF ApiCrash, Ends, guardianVars, IInv, FirstWrite
  <1>6. ASSUME NEW j \in Jobs, CreateJob(j)
        PROVE  SafeOK' /\ FinalStep
    <2> DEFINE table == [disk EXCEPT ![j] = "QUEUED"]
    <2>1. /\ j \notin used /\ used' = used \cup {j} /\ tasks' = tasks /\ fileExists
          /\ guardian' = guardian /\ overdue' = overdue
      BY <1>6 DEF CreateJob, guardianVars, IInv, FirstWrite
    <2>2. table \in JobTable
      BY <1>0, StatusSet DEF Statuses
    <2>3. /\ disk[j] = "ABSENT" /\ \A t \in tasks : t.job # j
          /\ \A k \in Jobs \ {j} : table[k] = disk[k]
          /\ table[j] = "QUEUED"
      BY <1>0, <2>1 DEF IInv, KnownIds, JobTable
    <2>4. Saved(Api, table) \/ SaveFails(Api, table)
      BY <1>0, <1>6 DEF CreateJob
    <2>5. ServedCompletedIsDurable' /\ FinalStep
      <3>1. CASE Saved(Api, table)
        BY <1>0, <2>1, <2>2, <2>3, <3>1, WriteServed
      <3>2. CASE SaveFails(Api, table)
        BY <1>0, <2>2, <2>3, <3>2, MemoryServed DEF SaveFails
      <3>. QED  BY <2>4, <3>1, <3>2
    <2>6. /\ disk' \in {disk, table} /\ mem' = [mem EXCEPT ![Api] = table] /\ fileExists'
      BY <2>1, <2>4 DEF Saved, SaveFails
    <2>7. KnownIds'
      BY <1>0, <2>1, <2>3, <2>6 DEF IInv, KnownIds
    <2>8. RunnerOwns'
      BY <2>1, <2>3, <2>6 DEF IInv, TypeOK, Task, RunnerOwns
    <2>9. NoGuardian' /\ FirstWrite' /\ ClaimExclusive'
      BY <2>1, <2>6 DEF IInv, NoGuardian, FirstWrite, ClaimExclusive
    <2>. QED  BY <2>5, <2>7, <2>8, <2>9 DEF SafeOK
  <1>7. ASSUME NEW j \in Jobs, ApiClaim(j)
        PROVE  SafeOK' /\ FinalStep
    <2>1. fileExists
      BY <1>7 DEF ApiClaim, IInv, FirstWrite
    <2>. QED  BY <1>0, <1>7, <2>1, ClaimSafe DEF ApiClaim, ApiClaimOutcome, guardianVars
  <1>. QED  BY <1>1, <1>2, <1>3, <1>4, <1>5, <1>6, <1>7 DEF ApiNext

\* Start, poll, claim and death of a worker keep the invariant.
LEMMA WorkerSafe ==
    ASSUME IInv, NEW w \in Workers,
           \/ WorkerStart(w)
           \/ Poll(w)
           \/ WorkerClaimFails(w)
           \/ WorkerCrash(w)
           \/ \E j \in Jobs : WorkerClaim(w, j)
    PROVE  SafeOK' /\ FinalStep
  <1>0. /\ w \in Procs /\ Loaded(w) = disk
        /\ disk \in JobTable /\ mem \in [Procs -> JobTable]
        /\ todo \in [Workers -> SUBSET Jobs]
    BY LoadedIsDisk DEF IInv, TypeOK, Procs
  <1>1. CASE WorkerStart(w)
    BY <1>0, <1>1, QuietStep DEF WorkerStart, guardianVars, IInv, FirstWrite
  <1>2. CASE Poll(w)
    <2>1. UNCHANGED <<disk, fileExists, mem, used, api, pending, tasks, guardian, overdue>>
      BY <1>2 DEF Poll, storeVars, guardianVars
    <2>2. fileExists \/ \A v \in Workers : todo'[v] = {}
      <3>1. ASSUME ~fileExists  PROVE  {j \in Jobs : mem[w][j] = "QUEUED"} = {}
        BY <1>0, <3>1 DEF IInv, FirstWrite, NoJobs
      <3>. QED  BY <1>0, <1>2, <3>1 DEF Poll, IInv, FirstWrite
    <2>3. FirstWrite'
      BY <2>1, <2>2 DEF IInv, FirstWrite
    <2>. QED  BY <2>1, <2>3 DEF SafeOK, FinalStep, IInv, NoGuardian, KnownIds, RunnerOwns,
                                ClaimExclusive, ServedCompletedIsDurable
  <1>3. CASE WorkerClaimFails(w)
    BY <1>0, <1>3, QuietStep DEF WorkerClaimFails, Ends, guardianVars, IInv, FirstWrite
  <1>4. CASE WorkerCrash(w)
    BY <1>0, <1>4, QuietStep DEF WorkerCrash, Ends, guardianVars, IInv, FirstWrite
  <1>5. ASSUME NEW j \in Jobs, WorkerClaim(w, j)
        PROVE  SafeOK' /\ FinalStep
    <2>1. fileExists
      BY <1>5 DEF WorkerClaim, IInv, FirstWrite
    <2>. QED  BY <1>0, <1>5, <2>1, ClaimSafe DEF WorkerClaim, guardianVars
  <1>. QED  BY <1>1, <1>2, <1>3, <1>4, <1>5

\* The steps of a job's runner keep the invariant.
LEMMA RunnerSafe ==
    ASSUME IInv, NEW t \in tasks, RunnerStep(t)
    PROVE  SafeOK' /\ FinalStep
  <1>0. overdue = {}
    BY DEF IInv, NoGuardian
  <1>1. CASE StartRun(t)
    BY <1>0, <1>1, UpdateSafe DEF StartRun, guardianVars, Statuses
  <1>2. CASE CompleteRun(t)
    BY <1>0, <1>2, UpdateSafe DEF CompleteRun, guardianVars, Statuses
  <1>3. CASE FailRun(t)
    BY <1>0, <1>3, UpdateSafe DEF FailRun, guardianVars, Statuses
  <1>4. CASE ReportCrash(t)
    BY <1>0, <1>4, UpdateSafe DEF ReportCrash, guardianVars, Statuses
  <1>. QED  BY <1>1, <1>2, <1>3, <1>4 DEF RunnerStep

\* Without the guardian every step keeps the invariant and the results.
LEMMA SafeStep ==
    ASSUME GuardianDeployed = FALSE, IInv, [Next]_vars
    PROVE  IInv' /\ FinalStep
  <1>1. TypeOK'
    BY TypeStep DEF IInv
  <1>2. SafeOK' /\ FinalStep
    <2>1. CASE ApiNext
      BY <2>1, ApiSafe
    <2>2. CASE WorkerNext
      BY <2>2, WorkerSafe DEF WorkerNext
    <2>3. CASE \E t \in tasks : RunnerStep(t)
      BY <2>3, RunnerSafe
    <2>4. ~GuardianNext
      BY DEF GuardianNext, GuardianCheck, GuardianRead, GuardianWrite, GuardianWriteFails,
             IInv, NoGuardian
    <2>5. CASE UNCHANGED vars
      BY <2>5 DEF vars, storeVars, guardianVars, SafeOK, FinalStep, IInv, NoGuardian, FirstWrite,
                  KnownIds, RunnerOwns, ClaimExclusive, ServedCompletedIsDurable
    <2>. QED  BY <2>1, <2>2, <2>3, <2>4, <2>5 DEF Next
  <1>. QED  BY <1>1, <1>2 DEF IInv, SafeOK

\* The invariant holds initially.
LEMMA SafeInit == Init => IInv
  <1>. SUFFICES ASSUME Init  PROVE  IInv
    OBVIOUS
  <1>1. TypeOK
    BY InitTyped
  <1>. QED  BY <1>1 DEF Init, IInv, NoGuardian, FirstWrite, KnownIds, RunnerOwns, ClaimExclusive,
                        ServedCompletedIsDurable, NoJobs

-----------------------------------------------------------------------------
(***************************************************************************)
(* What the store guarantees without the guardian.                         *)
(***************************************************************************)

\* Without the guardian the inductive invariant holds in every state: file,
\* memories and runners of the API and of the workers agree on who owns a job.
THEOREM Invariance ==
    ASSUME GuardianDeployed = FALSE
    PROVE  Spec => []IInv
  <1>1. IInv /\ [Next]_vars => IInv'
    BY SafeStep
  <1>. QED  BY <1>1, SafeInit, PTL DEF Spec

\* claim_job hands a job to one runner at a time, among any number of API and
\* worker processes that crash, restart and fail to write.
THEOREM Exclusive ==
    ASSUME GuardianDeployed = FALSE
    PROVE  Spec => []ClaimExclusive
  <1>1. IInv => ClaimExclusive
    BY DEF IInv
  <1>. QED  BY <1>1, Invariance, PTL

\* A result some process reports from its memory is in the file, or was there
\* until retention dropped it.
THEOREM Durable ==
    ASSUME GuardianDeployed = FALSE
    PROVE  Spec => []ServedCompletedIsDurable
  <1>1. IInv => ServedCompletedIsDurable
    BY DEF IInv
  <1>. QED  BY <1>1, Invariance, PTL

\* No step of any process turns a COMPLETED job of the file into anything
\* else; retention may drop it.
THEOREM Final ==
    ASSUME GuardianDeployed = FALSE
    PROVE  Spec => CompletedIsFinal
  <1>1. IInv /\ [Next]_vars => [FinalStep]_vars
    BY SafeStep
  <1>2. Spec => [][FinalStep]_vars
    BY <1>1, Invariance, PTL DEF Spec
  <1>. QED  BY <1>2 DEF CompletedIsFinal, FinalStep

-----------------------------------------------------------------------------
(***************************************************************************)
(* No job is RUNNING with nobody to run it.                                *)
(***************************************************************************)

\* An update by the runner t leaves a RUNNING job with its runner.
LEMMA UpdateKeepsOwner ==
    ASSUME IInv, NoOrphanWithoutFault, NEW t \in tasks, NEW s \in Statuses, NEW r,
           Update(t.proc, t.job, s),
           \/ s \in {"COMPLETED", "FAILED"} /\ TaskEnds(t)
           \/ r \in {"claimed", "running", "failing", "crashed"} /\ MovesTo(t, r),
           crashes' = crashes
    PROVE  NoOrphanWithoutFault'
  <1>1. /\ t \in Task /\ tasks \in SUBSET Task /\ t.proc \in Procs /\ t.job \in Jobs
        /\ Loaded(t.proc) = disk /\ disk \in JobTable
        /\ \A u \in tasks : u.job = t.job => u = t
    BY LoadedIsDisk DEF IInv, TypeOK, Task, ClaimExclusive
  <1>2. /\ writeFailures' = writeFailures
        /\ \/ disk[t.job] = "ABSENT" /\ disk' = disk
           \/ disk' = [disk EXCEPT ![t.job] = s]
    BY <1>1 DEF Update, Saved
  <1>3. \A j \in Jobs \ {t.job} : disk'[j] = disk[j]
    BY <1>1, <1>2 DEF JobTable
  <1>4. \A u \in tasks \ {t} : u \in tasks'
    BY DEF TaskEnds, MovesTo
  <1>5. disk'[t.job] = "RUNNING" => \E u \in tasks' : u.job = t.job
    <2>1. CASE s \in {"COMPLETED", "FAILED"} /\ TaskEnds(t)
      BY <1>1, <1>2, <2>1 DEF JobTable
    <2>2. CASE r \in {"claimed", "running", "failing", "crashed"} /\ MovesTo(t, r)
      <3>1. [t EXCEPT !.at = r] \in tasks' /\ [t EXCEPT !.at = r].job = t.job
        BY <1>1, <2>2 DEF MovesTo, Task
      <3> QED
        BY <3>1
    <2> QED
      BY <2>1, <2>2
  <1> QED
    BY <1>1, <1>2, <1>3, <1>4, <1>5 DEF NoOrphanWithoutFault

\* A step with a write that fails is excused.
LEMMA FailedWriteExcuses ==
    ASSUME IInv, writeFailures' = writeFailures + 1
    PROVE  NoOrphanWithoutFault'
  <1>1. writeFailures \in Nat
    BY BoundsAreNaturals DEF BoundsAreNaturals, IInv, TypeOK
  <1> QED
    BY <1>1 DEF NoOrphanWithoutFault

LEMMA RunnerKeepsOwner ==
    ASSUME IInv, NoOrphanWithoutFault, NEW t \in tasks, RunnerStep(t)
    PROVE  NoOrphanWithoutFault'
  <1>1. crashes' = crashes /\ {"RUNNING", "COMPLETED", "FAILED"} \subseteq Statuses
    BY DEF RunnerStep, StartRun, CompleteRun, FailRun, ReportCrash, Statuses
  <1>2. CASE \E s \in Statuses : UpdateFails(t.proc, t.job, s)
    <2>1. writeFailures' = writeFailures + 1
      BY <1>2 DEF UpdateFails, SaveFails
    <2> QED
      BY <2>1, FailedWriteExcuses
  <1>3. CASE Update(t.proc, t.job, "RUNNING") /\ MovesTo(t, "running")
    BY <1>1, <1>3, UpdateKeepsOwner
  <1>4. CASE (\E s \in {"COMPLETED", "FAILED"} : Update(t.proc, t.job, s)) /\ TaskEnds(t)
    BY <1>1, <1>4, UpdateKeepsOwner
  <1> QED
    BY <1>1, <1>2, <1>3, <1>4 DEF RunnerStep, StartRun, CompleteRun, FailRun, ReportCrash

LEMMA ClaimKeepsOwner ==
    ASSUME IInv, NoOrphanWithoutFault, NEW p \in Procs, NEW j \in Jobs,
           ClaimWins(p, j) \/ ClaimLoses(p, j) \/ ClaimFails(p, j), crashes' = crashes
    PROVE  NoOrphanWithoutFault'
  <1>1. Loaded(p) = disk /\ disk \in JobTable
    BY LoadedIsDisk DEF IInv, TypeOK
  <1>2. CASE ClaimWins(p, j)
    <2>1. disk' = [disk EXCEPT ![j] = "RUNNING"] /\ writeFailures' = writeFailures /\ NewTask(p, j)
      BY <1>1, <1>2 DEF ClaimWins, Saved, ClaimedTable
    <2>2. PICK id \in FreeIds :
            tasks' = tasks \cup {[id |-> id, proc |-> p, job |-> j, at |-> "claimed"]}
      BY <2>1 DEF NewTask
    <2>3. \E u \in tasks' : u.job = j
      <3>1. [id |-> id, proc |-> p, job |-> j, at |-> "claimed"].job = j
        OBVIOUS
      <3> QED
        BY <2>2, <3>1
    <2>4. tasks \subseteq tasks' /\ \A k \in Jobs \ {j} : disk'[k] = disk[k]
      BY <1>1, <2>1, <2>2 DEF JobTable
    <2> QED
      BY <2>1, <2>3, <2>4 DEF NoOrphanWithoutFault
  <1>3. CASE ClaimLoses(p, j)
    BY <1>1, <1>3 DEF ClaimLoses, Saved, NoOrphanWithoutFault
  <1>4. CASE ClaimFails(p, j)
    <2>1. writeFailures' = writeFailures + 1
      BY <1>4 DEF ClaimFails, SaveFails
    <2> QED
      BY <2>1, FailedWriteExcuses
  <1> QED
    BY <1>2, <1>3, <1>4

LEMMA ApiKeepsOwner ==
    ASSUME IInv, NoOrphanWithoutFault, ApiNext
    PROVE  NoOrphanWithoutFault'
  <1>1. /\ Api \in Procs /\ Loaded(Api) = disk /\ disk \in JobTable /\ crashes \in Nat
    BY LoadedIsDisk, BoundsAreNaturals DEF BoundsAreNaturals, IInv, TypeOK, Procs
  <1>2. CASE ApiBoot
    BY <1>2 DEF ApiBoot, NoOrphanWithoutFault
  <1>3. CASE ApiStartFails
    BY <1>3, FailedWriteExcuses DEF ApiStartFails
  <1>4. CASE ApiPrune
    <2>1. /\ \A j \in Jobs : disk'[j] = "RUNNING" => disk[j] = "RUNNING"
          /\ UNCHANGED <<tasks, crashes, writeFailures>>
      BY <1>1, <1>4 DEF ApiPrune, Saved
    <2> QED
      BY <2>1 DEF NoOrphanWithoutFault
  <1>5. CASE ApiInterrupt
    <2>1. /\ \A j \in Jobs : disk'[j] # "RUNNING"
          /\ UNCHANGED <<tasks, crashes, writeFailures>>
      BY <1>1, <1>5 DEF ApiInterrupt, Saved, Interrupted, Active
    <2> QED
      BY <2>1 DEF NoOrphanWithoutFault
  <1>6. CASE ApiCrash
    BY <1>1, <1>6 DEF ApiCrash, CrashBudget, NoOrphanWithoutFault
  <1>7. ASSUME NEW j \in Jobs, CreateJob(j)
        PROVE  NoOrphanWithoutFault'
    <2>1. CASE Saved(Api, [disk EXCEPT ![j] = "QUEUED"])
      <3>1. /\ \A k \in Jobs : disk'[k] = "RUNNING" => disk[k] = "RUNNING"
            /\ UNCHANGED <<tasks, crashes, writeFailures>>
        BY <1>1, <1>7, <2>1 DEF CreateJob, Saved, JobTable
      <3> QED
        BY <3>1 DEF NoOrphanWithoutFault
    <2>2. CASE SaveFails(Api, [disk EXCEPT ![j] = "QUEUED"])
      BY <2>2, FailedWriteExcuses DEF SaveFails
    <2> QED
      BY <1>1, <1>7, <2>1, <2>2 DEF CreateJob
  <1>8. ASSUME NEW j \in Jobs, ApiClaim(j)
        PROVE  NoOrphanWithoutFault'
    BY <1>1, <1>8, ClaimKeepsOwner DEF ApiClaim, ApiClaimOutcome
  <1> QED
    BY <1>2, <1>3, <1>4, <1>5, <1>6, <1>7, <1>8 DEF ApiNext

LEMMA WorkerKeepsOwner ==
    ASSUME IInv, NoOrphanWithoutFault, NEW w \in Workers,
           \/ WorkerStart(w)
           \/ Poll(w)
           \/ WorkerClaimFails(w)
           \/ WorkerCrash(w)
           \/ \E j \in Jobs : WorkerClaim(w, j)
    PROVE  NoOrphanWithoutFault'
  <1>1. w \in Procs /\ crashes \in Nat
    BY BoundsAreNaturals DEF BoundsAreNaturals, IInv, TypeOK, Procs
  <1>2. CASE WorkerStart(w) \/ Poll(w)
    BY <1>2 DEF WorkerStart, Poll, storeVars, NoOrphanWithoutFault
  <1>3. CASE WorkerClaimFails(w)
    BY <1>3, FailedWriteExcuses DEF WorkerClaimFails
  <1>4. CASE WorkerCrash(w)
    BY <1>1, <1>4 DEF WorkerCrash, CrashBudget, NoOrphanWithoutFault
  <1>5. CASE \E j \in Jobs : WorkerClaim(w, j)
    BY <1>1, <1>5, ClaimKeepsOwner DEF WorkerClaim
  <1> QED
    BY <1>2, <1>3, <1>4, <1>5

\* Without the guardian, and until a process dies or a write fails, every job that
\* the file shows as RUNNING has a live runner.
THEOREM NoOrphan ==
    ASSUME GuardianDeployed = FALSE
    PROVE  Spec => []NoOrphanWithoutFault
  <1>1. Init => NoOrphanWithoutFault
    BY DEF Init, NoOrphanWithoutFault, NoJobs
  <1>2. IInv /\ NoOrphanWithoutFault /\ [Next]_vars => NoOrphanWithoutFault'
    <2> SUFFICES ASSUME IInv, NoOrphanWithoutFault, [Next]_vars
                 PROVE  NoOrphanWithoutFault'
      OBVIOUS
    <2>1. CASE ApiNext
      BY <2>1, ApiKeepsOwner
    <2>2. CASE WorkerNext
      BY <2>2, WorkerKeepsOwner DEF WorkerNext
    <2>3. CASE \E t \in tasks : RunnerStep(t)
      BY <2>3, RunnerKeepsOwner
    <2>4. ~GuardianNext
      BY DEF GuardianNext, GuardianCheck, GuardianRead, GuardianWrite, GuardianWriteFails,
             IInv, NoGuardian
    <2>5. CASE UNCHANGED vars
      BY <2>5 DEF vars, storeVars, NoOrphanWithoutFault
    <2> QED
      BY <2>1, <2>2, <2>3, <2>4, <2>5 DEF Next
  <1> QED
    BY <1>1, <1>2, Invariance, PTL DEF Spec

-----------------------------------------------------------------------------
(***************************************************************************)
(* The store implements JobLedger.                                         *)
(***************************************************************************)

Held == {<<t.proc, t.job>> : t \in tasks}

\* Runners that are gone are claims that lapse.
LEMMA LapseStep ==
    ASSUME disk' = disk, used' = used, tasks' \in SUBSET tasks
    PROVE  Ledger!Lapse
  BY DEF Ledger!Lapse

\* A runner keeps its claim until it ends, and lets go of that one only.
LEMMA HeldStep ==
    ASSUME IInv, NEW t \in tasks, NEW s \in {"claimed", "running", "failing", "crashed"}
    PROVE  /\ <<t.proc, t.job>> \in Held
           /\ MovesTo(t, s) => Held' = Held
           /\ TaskEnds(t) => Held' = Held \ {<<t.proc, t.job>>}
           /\ RunnerRaises(t) => Held' \in {Held, Held \ {<<t.proc, t.job>>}}
  <1>0. t \in Task /\ ClaimExclusive
    BY DEF IInv, TypeOK
  <1>1. ASSUME NEW r \in {"claimed", "running", "failing", "crashed"}, MovesTo(t, r)
        PROVE  Held' = Held
    <2>1. [t EXCEPT !.at = r].proc = t.proc /\ [t EXCEPT !.at = r].job = t.job
      BY <1>0 DEF Task
    <2>. QED  BY <1>1, <2>1 DEF MovesTo, Held
  <1>2. TaskEnds(t) => Held' = Held \ {<<t.proc, t.job>>}
    BY <1>0 DEF TaskEnds, Held, ClaimExclusive
  <1>. QED  BY <1>1, <1>2 DEF Held, RunnerRaises

\* update_job by a runner is a report of the holder, or changes nothing.
LEMMA ReportStep ==
    ASSUME IInv, NEW t \in tasks, NEW s \in {"RUNNING"} \cup Terminal,
           \/ /\ Update(t.proc, t.job, s)
              /\ \/ s \in Terminal /\ Held' = Held \ {<<t.proc, t.job>>}
                 \/ s = "RUNNING" /\ Held' = Held
           \/ /\ UpdateFails(t.proc, t.job, s)
              /\ Held' \in {Held, Held \ {<<t.proc, t.job>>}},
           used' = used
    PROVE  Ledger!Report(t.proc, t.job) \/ Ledger!Lapse
  <1>0. /\ t.proc \in Procs /\ Loaded(t.proc) = disk
        /\ disk[t.job] \in {"RUNNING", "FAILED", "ABSENT"}
        /\ <<t.proc, t.job>> \in Held
    BY LoadedIsDisk DEF IInv, TypeOK, Task, RunnerOwns, Held
  <1>1. CASE /\ disk[t.job] # "ABSENT" /\ disk' = [disk EXCEPT ![t.job] = s]
             /\ \/ s \in Terminal /\ Held' = Held \ {<<t.proc, t.job>>}
                \/ s = "RUNNING" /\ Held' = Held
    BY <1>0, <1>1 DEF Ledger!Report, Ledger!Terminal, Terminal, Held
  <1>2. CASE disk' = disk /\ Held' \in {Held, Held \ {<<t.proc, t.job>>}}
    BY <1>2 DEF Ledger!Lapse, Held
  <1>. QED  BY <1>0, <1>1, <1>2 DEF Update, UpdateFails, Saved, SaveFails

\* claim_job, won, is a claim of the ledger; lost or not saved, nothing.
LEMMA ClaimStep ==
    ASSUME IInv, NEW p \in Procs, NEW j \in Jobs, used' = used,
           ClaimWins(p, j) \/ ClaimLoses(p, j) \/ ClaimFails(p, j)
    PROVE  Ledger!Claim(p, j) \/ Ledger!Lapse
  <1>0. Loaded(p) = disk
    BY LoadedIsDisk
  <1>1. CASE ClaimWins(p, j)
    <2>1. disk[j] = "QUEUED" /\ disk' = [disk EXCEPT ![j] = "RUNNING"]
      BY <1>0, <1>1 DEF ClaimWins, Claimable, Saved, ClaimedTable
    <2>2. \A t \in tasks : t.job # j
      BY <2>1 DEF IInv, RunnerOwns
    <2>3. \A q \in Procs : <<q, j>> \notin Held
      BY <2>2 DEF Held
    <2>4. Held' = Held \cup {<<p, j>>}
      <3>1. PICK id \in FreeIds :
              tasks' = tasks \cup {[id |-> id, proc |-> p, job |-> j, at |-> "claimed"]}
        BY <1>1 DEF ClaimWins, NewTask
      <3> DEFINE new == [id |-> id, proc |-> p, job |-> j, at |-> "claimed"]
      <3>2. new.proc = p /\ new.job = j /\ tasks' = tasks \cup {new}
        BY <3>1
      <3> HIDE DEF new
      <3>. QED  BY <3>2 DEF Held
    <2>. QED  BY <2>1, <2>3, <2>4 DEF Ledger!Claim, Held
  <1>2. CASE ClaimLoses(p, j)
    BY <1>0, <1>2 DEF ClaimLoses, Saved, Ledger!Lapse
  <1>3. CASE ClaimFails(p, j)
    BY <1>3 DEF ClaimFails, SaveFails, Ledger!Lapse
  <1>. QED  BY <1>1, <1>2, <1>3

\* Every step of the store is a step of the ledger or leaves it alone.
LEMMA LedgerStep ==
    ASSUME GuardianDeployed = FALSE, IInv, [Next]_vars
    PROVE  [Ledger!LedgerNext]_(Ledger!lvars)
  <1>0. \A p \in Procs : Loaded(p) = disk
    BY LoadedIsDisk
  <1>1. CASE ApiNext
    <2>0. Api \in Procs
      BY DEF Procs
    <2>1. CASE ApiBoot \/ ApiStartFails \/ ApiCrash
      BY <2>1, LapseStep DEF ApiBoot, ApiStartFails, ApiCrash, Ends, Ledger!LedgerNext
    <2>2. CASE ApiPrune
      <3>1. Ledger!Expire
        BY <1>0, <2>0, <2>2
           DEF ApiPrune, Saved, Prunable, Terminal, Ledger!Expire, Ledger!Terminal
      <3>. QED  BY <3>1 DEF Ledger!LedgerNext
    <2>3. CASE ApiInterrupt
      <3>1. Ledger!Interrupt
        BY <1>0, <2>0, <2>3
           DEF ApiInterrupt, Saved, Interrupted, Active, Ledger!Interrupt, Ledger!Active
      <3>. QED  BY <3>1 DEF Ledger!LedgerNext
    <2>4. ASSUME NEW j \in Jobs, CreateJob(j)
          PROVE  Ledger!LedgerNext
      <3>1. Ledger!Submit(j) \/ Ledger!Refuse(j)
        BY <1>0, <2>0, <2>4 DEF CreateJob, Saved, SaveFails, Ledger!Submit, Ledger!Refuse
      <3>. QED  BY <3>1 DEF Ledger!LedgerNext
    <2>5. ASSUME NEW j \in Jobs, ApiClaim(j)
          PROVE  Ledger!LedgerNext
      BY <2>0, <2>5, ClaimStep DEF ApiClaim, ApiClaimOutcome, Ledger!LedgerNext
    <2>. QED  BY <1>1, <2>1, <2>2, <2>3, <2>4, <2>5 DEF ApiNext
  <1>2. ASSUME NEW w \in Workers,
               \/ WorkerStart(w)
               \/ Poll(w)
               \/ WorkerClaimFails(w)
               \/ WorkerCrash(w)
               \/ \E j \in Jobs : WorkerClaim(w, j)
        PROVE  Ledger!LedgerNext
    <2>0. w \in Procs
      BY DEF Procs
    <2>1. CASE WorkerStart(w) \/ Poll(w) \/ WorkerClaimFails(w) \/ WorkerCrash(w)
      BY <2>1, LapseStep DEF WorkerStart, Poll, WorkerClaimFails, WorkerCrash, Ends, storeVars,
                             Ledger!LedgerNext
    <2>2. ASSUME NEW j \in Jobs, WorkerClaim(w, j)
          PROVE  Ledger!LedgerNext
      BY <2>0, <2>2, ClaimStep DEF WorkerClaim, Ledger!LedgerNext
    <2>. QED  BY <1>2, <2>1, <2>2
  <1>3. ASSUME NEW t \in tasks, RunnerStep(t)
        PROVE  Ledger!LedgerNext
    <2>0. t.proc \in Procs /\ t.job \in Jobs
      BY DEF IInv, TypeOK, Task
    <2>1. Ledger!Report(t.proc, t.job) \/ Ledger!Lapse
      <3>0. /\ MovesTo(t, "running") \/ MovesTo(t, "failing") => Held' = Held
            /\ TaskEnds(t) => Held' = Held \ {<<t.proc, t.job>>}
            /\ RunnerRaises(t) => Held' \in {Held, Held \ {<<t.proc, t.job>>}}
        BY HeldStep
      <3>1. CASE StartRun(t)
        BY <3>0, <3>1, ReportStep DEF StartRun
      <3>2. CASE CompleteRun(t)
        BY <3>0, <3>2, ReportStep DEF CompleteRun, Terminal
      <3>3. CASE FailRun(t)
        BY <3>0, <3>3, ReportStep DEF FailRun, Terminal
      <3>4. CASE ReportCrash(t)
        BY <3>0, <3>4, ReportStep DEF ReportCrash, Terminal
      <3>. QED  BY <1>3, <3>1, <3>2, <3>3, <3>4 DEF RunnerStep
    <2>. QED  BY <2>0, <2>1 DEF Ledger!LedgerNext
  <1>4. ~GuardianNext
    BY DEF GuardianNext, GuardianCheck, GuardianRead, GuardianWrite, GuardianWriteFails,
           IInv, NoGuardian
  <1>5. CASE UNCHANGED vars
    BY <1>5 DEF vars, storeVars, Ledger!lvars
  <1>. QED  BY <1>1, <1>2, <1>3, <1>4, <1>5 DEF Next, WorkerNext

\* The file, the runners and the identifiers in use behave like the ledger,
\* whatever copies the processes keep and whenever they die: identifiers are
\* used once, claims are exclusive, only the holder of a claim reports on the
\* job, and nothing but retention removes one.
THEOREM Refinement ==
    ASSUME GuardianDeployed = FALSE
    PROVE  Spec => ImplementsLedger
  <1>1. Init => Ledger!LedgerInit
    BY DEF Init, Ledger!LedgerInit, NoJobs
  <1>2. IInv /\ [Next]_vars => [Ledger!LedgerNext]_(Ledger!lvars)
    BY LedgerStep
  <1>. QED  BY <1>1, <1>2, Invariance, PTL DEF Spec, ImplementsLedger, Ledger!LedgerSpec

=============================================================================
