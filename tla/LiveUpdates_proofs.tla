------------------------- MODULE LiveUpdates_proofs -------------------------
(***************************************************************************)
(* Theorems about AssessmentJobs, for any number of jobs, crashes and      *)
(* saves that raise, and about LiveUpdates: any number of jobs and of      *)
(* clients that come, subscribe, close and fail while they are being told. *)
(***************************************************************************)
EXTENDS LiveUpdates, FiniteSetTheorems, TLAPS

-----------------------------------------------------------------------------
(***************************************************************************)
(* The jobs.                                                               *)
(***************************************************************************)
\* Memory and file agree on a job that waits for its runner, is with it, or has
\* a result to tell of.
RunnerMatches ==
    \A j \in Jobs :
        /\ runner[j] = "scheduled" => mem[j] = "QUEUED" /\ disk[j] = "QUEUED"
        /\ runner[j] = "executing" => mem[j] = "RUNNING" /\ disk[j] = "RUNNING"
        /\ runner[j] = "announcing" => mem[j] \in Terminal /\ disk[j] = mem[j]

\* Runners exist only while the API serves or stops.
RunnerNeedsApi == api \notin {"up", "stopping"} => runner = NoRunner

\* Memory never takes back an end that the file shows.
EndsInMemory == api # "down" => \A j \in Jobs : disk[j] \in Terminal => mem[j] \in Terminal

\* Jobs that are not created yet are nowhere.
NotCreated ==
    \A j \in Jobs : j > created => mem[j] = "ABSENT" /\ disk[j] = "ABSENT" /\ runner[j] = "none"

\* What start-up has left to fail is in flight.
SweepInFlight ==
    /\ sweep # {} => api = "sweeping"
    /\ \A j \in sweep : mem[j] \in Active

\* Start-up works on what it has just loaded or saved.
FreshStart == api \in {"loaded", "sweeping"} => mem = disk /\ results = stored

\* What memory may show before the file does: a job whose creation was not
\* saved, and a failure that was not.
Ahead(was, is) ==
    \/ was = is
    \/ was = "ABSENT" /\ is = "QUEUED"
    \/ was \in Active /\ is = "FAILED"
    \/ was = "COMPLETED" /\ is = "FAILED" /\ api = "stopping"

MemoryAhead == api # "down" => \A j \in Jobs : Ahead(disk[j], mem[j])

\* A result belongs to a job that ended, and memory does not forget those of the
\* file.  A result that is not saved yet is one of a job the file has as RUNNING.
ResultsOK ==
    /\ api # "down" => stored \subseteq results
    /\ \A j \in Jobs :
          /\ j \in results => mem[j] \in Terminal
          /\ j \in stored => disk[j] \in Terminal
          /\ disk[j] = "COMPLETED" => j \in stored
          /\ j \in results \ stored => disk[j] = "RUNNING"

SafeOK ==
    /\ ServedResultIsStored
    /\ RunnerMatches
    /\ RunnerNeedsApi
    /\ EndsInMemory
    /\ NotCreated
    /\ SweepInFlight
    /\ FreshStart
    /\ MemoryAhead
    /\ ResultsOK

AInv == TypeOK /\ SafeOK

ForwardStep ==
    \A j \in Jobs :
        /\ disk'[j] = disk[j] \/ Follows(disk[j], disk'[j]) \/ TakenBack(j)
        /\ j \in stored' \ stored => disk[j] = "RUNNING" /\ disk'[j] \in Terminal
        /\ j \in stored \ stored' => disk'[j] = "ABSENT"

-----------------------------------------------------------------------------
\* Setting the status of one job yields a table of jobs.
LEMMA StatusSet ==
    ASSUME NEW table \in JobTable, NEW j \in Jobs, NEW s \in Statuses
    PROVE  [table EXCEPT ![j] = s] \in JobTable
  BY DEF JobTable, Statuses

\* The empty store is a table of jobs.
LEMMA NoJobsTyped == NoJobs \in JobTable
  BY DEF NoJobs, JobTable

\* Bounds of the counters, as the actions use them.
LEMMA CountersTyped ==
    /\ crashes \in 0..MaxCrashes /\ crashes < MaxCrashes => crashes + 1 \in 0..MaxCrashes
    /\ writeFailures \in 0..MaxWriteFailures /\ writeFailures < MaxWriteFailures
          => writeFailures + 1 \in 0..MaxWriteFailures
    /\ writeFailures \in 0..MaxWriteFailures /\ writeFailures + 1 < MaxWriteFailures
          => writeFailures + 2 \in 0..MaxWriteFailures
  BY LimitsAreNaturals DEF LimitsAreNaturals

\* A save, raising or not, keeps the types of the store.
LEMMA SaveTyped ==
    ASSUME TypeOK, NEW table \in JobTable, NEW answered \in SUBSET Jobs,
           \/ Saves(table, answered)
           \/ SaveRaises(table, answered)
           \/ SaveRaisesTwice(table, answered)
           \/ SavesAfterRaise(table, answered)
    PROVE  /\ mem' \in JobTable /\ results' \subseteq Jobs
           /\ disk' \in JobTable /\ stored' \subseteq Jobs
           /\ writeFailures' \in 0..MaxWriteFailures
  BY CountersTyped DEF TypeOK, Saves, SaveRaises, SaveRaisesTwice, SavesAfterRaise, Remembers,
                       Writes

\* The tables the operations of the store build.
LEMMA MarksTyped ==
    ASSUME TypeOK, NEW j \in Jobs
    PROVE  /\ MarkedError(j) \in JobTable
           /\ MarkedRunning(j) \in JobTable
           /\ \A isError \in BOOLEAN : MarkedComplete(j, isError) \in JobTable
           /\ [mem EXCEPT ![j] = "QUEUED"] \in JobTable
           /\ results \in SUBSET Jobs /\ results \cup {j} \in SUBSET Jobs
  BY StatusSet DEF TypeOK, MarkedError, MarkedRunning, MarkedComplete, Statuses

\* Every step keeps the types.
LEMMA TypeStep == TypeOK /\ [Next]_vars => TypeOK'
  <1>. SUFFICES ASSUME TypeOK, [Next]_vars  PROVE  TypeOK'
    OBVIOUS
  <1>1. NoRunner \in [Jobs -> {"none", "scheduled", "executing", "announcing", "reporting"}]
    BY DEF NoRunner
  <1>2. CASE Boot
    BY <1>2 DEF Boot, Remembers, TypeOK
  <1>3. CASE Prune
    <2>1. PICK stale \in SUBSET Prunable :
            LET kept == [j \in Jobs |-> IF j \in stale THEN "ABSENT" ELSE mem[j]] IN
            Saves(kept, results \ stale) /\ api' = "sweeping" /\ sweep' = InFlight(kept)
      BY <1>3 DEF Prune
    <2> DEFINE kept == [j \in Jobs |-> IF j \in stale THEN "ABSENT" ELSE mem[j]]
    <2>2. kept \in JobTable
      BY DEF TypeOK, JobTable
    <2>3. sweep' \in SUBSET Jobs
      BY <2>1 DEF InFlight, Listed
    <2>4. results \ stale \in SUBSET Jobs
      BY DEF TypeOK
    <2>. QED  BY <1>3, <2>1, <2>2, <2>3, <2>4, SaveTyped DEF Prune, TypeOK
  <1>4. ASSUME NEW j \in Jobs, Sweep(j)  PROVE TypeOK'
    BY <1>4, MarksTyped, SaveTyped DEF Sweep, TypeOK
  <1>5. CASE Serve
    BY <1>5 DEF Serve, TypeOK
  <1>6. CASE Stopped
    BY <1>6, <1>1, NoJobsTyped DEF Stopped, Down, Remembers, TypeOK
  <1>7. CASE StartFails
    BY <1>7, <1>1, NoJobsTyped, SaveTyped DEF StartFails, Down, TypeOK
  <1>8. CASE Shutdown
    BY <1>8, CountersTyped DEF Shutdown, TypeOK
  <1>9. CASE Crash
    BY <1>9, <1>1, NoJobsTyped, CountersTyped DEF Crash, Down, Remembers, TypeOK
  <1>10. ASSUME NEW j \in Jobs, Create(j)  PROVE TypeOK'
    <2>1. created' \in 0..MaxJobs
      BY <1>10, LimitsAreNaturals DEF Create, Jobs, LimitsAreNaturals, TypeOK
    <2>. QED  BY <1>10, <2>1, MarksTyped, SaveTyped DEF Create, RunnerAt, TypeOK
  <1>11. ASSUME NEW j \in Jobs, RunnerNext(j)  PROVE TypeOK'
    <2>1. CASE Start(j)
      BY <2>1, MarksTyped, SaveTyped DEF Start, Errs, RunnerAt, TypeOK
    <2>2. CASE Finish(j)
      BY <2>2, MarksTyped, SaveTyped DEF Finish, Errs, RunnerAt, TypeOK
    <2>3. CASE Raise(j)
      BY <2>3, MarksTyped, SaveTyped DEF Raise, RunnerAt, TypeOK
    <2>4. CASE Announced(j)
      BY <2>4 DEF Announced, RunnerAt, TypeOK
    <2>5. CASE Cancel(j)
      BY <2>5, MarksTyped, SaveTyped DEF Cancel, RunnerAt, TypeOK
    <2>. QED  BY <1>11, <2>1, <2>2, <2>3, <2>4, <2>5 DEF RunnerNext
  <1>12. CASE UNCHANGED vars
    BY <1>12 DEF vars, TypeOK
  <1>. QED  BY <1>2, <1>3, <1>4, <1>5, <1>6, <1>7, <1>8, <1>9, <1>10, <1>11, <1>12
               DEF Next, Lifespan

\* The initial state is typed.
LEMMA InitTyped == Init => TypeOK
  <1>1. 0 \in 0..MaxCrashes /\ 0 \in 0..MaxWriteFailures /\ 0 \in 0..MaxJobs
    BY LimitsAreNaturals DEF LimitsAreNaturals
  <1>. QED  BY <1>1, NoJobsTyped DEF Init, TypeOK, NoRunner

\* The store, the start-up sweep and the runners keep their types.
THEOREM TypeCorrect == Spec => []TypeOK
  BY InitTyped, TypeStep, PTL DEF Spec

-----------------------------------------------------------------------------
\* What the step of one job's runner has to establish: the job's own entries
\* change, those of the others are only copied from memory to the file.
Copied == disk' = mem' /\ stored' = results'

OwnStep(j, status, stage, answered) ==
    /\ mem' = [mem EXCEPT ![j] = status]
    /\ results' = answered
    /\ Copied \/ UNCHANGED <<disk, stored>>
    /\ runner' = [runner EXCEPT ![j] = stage]
    /\ writeFailures' \in {writeFailures, writeFailures + 1, writeFailures + 2}

\* What is left alone keeps the invariant.
LEMMA Untouched ==
    ASSUME AInv, UNCHANGED <<disk, mem, stored, results, created, api, sweep, runner,
    writeFailures>>
    PROVE  SafeOK' /\ ForwardStep
  BY DEF AInv, SafeOK, ServedResultIsStored, RunnerMatches, RunnerNeedsApi, EndsInMemory,
         NotCreated,
         SweepInFlight, FreshStart, MemoryAhead, Ahead, ResultsOK, ForwardStep

\* A runner's change of its own job in the order of the code: the job follows the
\* lifecycle (or its announcement is cancelled), a result comes with its end, and
\* what is not saved is a failure.
Lawful(j, status, stage, answered) ==
    /\ OwnStep(j, status, stage, answered)
    /\ answered \in {results, results \cup {j}}
    /\ api \in {"up", "stopping"} /\ UNCHANGED <<api, sweep>>
    /\ created' \in 0..MaxJobs /\ created <= created' /\ j <= created'
    /\ \/ Follows(disk[j], status) \/ disk[j] = status
       \/ api = "stopping" /\ runner[j] = "announcing" /\ disk[j] = "COMPLETED" /\ status = "FAILED"
    /\ status \in Active => disk[j] \notin Terminal /\ j \notin answered
    /\ status = "COMPLETED" => Copied /\ j \in answered
    /\ stage = "scheduled" => status = "QUEUED" /\ Copied
    /\ status = "RUNNING" => Copied
    /\ stage = "executing" => status = "RUNNING"
    /\ stage = "announcing" => status \in Terminal /\ Copied
    /\ j \in results => j \in stored
    /\ j \in answered \ results =>
          /\ disk[j] = "RUNNING"
          /\ Copied \/ (status = "FAILED" /\ stage = "none" /\ writeFailures' > 1)

\* Such a step keeps the invariant and moves jobs forward.
LEMMA OwnStepSafe ==
    ASSUME AInv, NEW j \in Jobs, NEW status \in Statuses,
           NEW stage \in {"none", "scheduled", "executing", "announcing", "reporting"},
           NEW answered, Lawful(j, status, stage, answered)
    PROVE  SafeOK' /\ ForwardStep
  <1> USE DEF Lawful
  <1>1. /\ mem \in JobTable /\ disk \in JobTable
        /\ runner \in [Jobs -> {"none", "scheduled", "executing", "announcing", "reporting"}]
        /\ created \in 0..MaxJobs /\ stored \subseteq Jobs /\ results \subseteq Jobs
        /\ writeFailures \in Nat
    BY LimitsAreNaturals DEF AInv, TypeOK, LimitsAreNaturals
  <1>2. /\ mem'[j] = status /\ runner'[j] = stage
        /\ (j \in results') = (j \in answered)
        /\ \/ Copied /\ disk'[j] = status /\ (j \in stored') = (j \in answered)
           \/ /\ ~Copied /\ disk'[j] = disk[j] /\ (j \in stored') = (j \in stored)
        /\ results \subseteq results'
        /\ writeFailures' \in Nat /\ writeFailures' >= writeFailures
    BY <1>1 DEF OwnStep, JobTable, Copied
  <1>3. \A k \in Jobs \ {j} :
           /\ mem'[k] = mem[k] /\ runner'[k] = runner[k] /\ (k \in results') = (k \in results)
           /\ \/ disk'[k] = mem[k] /\ (k \in stored') = (k \in results)
              \/ disk'[k] = disk[k] /\ (k \in stored') = (k \in stored)
    BY <1>1 DEF OwnStep, JobTable, Copied
  <1>4. \A k \in Jobs :
          /\ mem[k] = "COMPLETED" => disk[k] = "COMPLETED" /\ k \in results /\ k \in stored
          /\ k \in results /\ k \notin stored => mem[k] = "FAILED" /\ runner[k] = "none" /\ writeFailures > 1
          /\ disk[k] \in Terminal => mem[k] \in Terminal
          /\ runner[k] = "scheduled" => mem[k] = "QUEUED" /\ disk[k] = "QUEUED"
          /\ runner[k] = "executing" => mem[k] = "RUNNING" /\ disk[k] = "RUNNING"
          /\ runner[k] = "announcing" => mem[k] \in Terminal /\ disk[k] = mem[k]
          /\ k > created => mem[k] = "ABSENT" /\ disk[k] = "ABSENT" /\ runner[k] = "none"
    BY DEF AInv, SafeOK, ServedResultIsStored, EndsInMemory, RunnerMatches, NotCreated
  <1>5. \A k \in Jobs :
          /\ Ahead(disk[k], mem[k])
          /\ k \in stored => k \in results
          /\ k \in results => mem[k] \in Terminal
          /\ k \in stored => disk[k] \in Terminal
          /\ disk[k] = "COMPLETED" => k \in stored
          /\ k \in results /\ k \notin stored => disk[k] = "RUNNING"
    BY DEF AInv, SafeOK, MemoryAhead, ResultsOK
  <1>6. ServedResultIsStored'
    <2>1. ASSUME NEW k \in Jobs
          PROVE  /\ mem'[k] = "COMPLETED" => disk'[k] = "COMPLETED" /\ k \in results' /\ k \in stored'
                 /\ k \in results' /\ k \notin stored' =>
                       mem'[k] = "FAILED" /\ runner'[k] = "none" /\ writeFailures' > 1
      <3>1. CASE k = j
        BY <1>1, <1>2, <1>4, <1>5, <3>1
      <3>2. CASE k # j
        BY <1>1, <1>2, <1>3, <1>4, <1>5, <3>2
      <3> QED
        BY <3>1, <3>2
    <2> QED
      BY <2>1 DEF ServedResultIsStored
  <1>7. RunnerMatches'
    <2>1. ASSUME NEW k \in Jobs
          PROVE  /\ runner'[k] = "scheduled" => mem'[k] = "QUEUED" /\ disk'[k] = "QUEUED"
                 /\ runner'[k] = "executing" => mem'[k] = "RUNNING" /\ disk'[k] = "RUNNING"
                 /\ runner'[k] = "announcing" => mem'[k] \in Terminal /\ disk'[k] = mem'[k]
      <3>1. CASE k = j
        BY <1>2, <3>1
      <3>2. CASE k # j
        BY <1>3, <1>4, <3>2
      <3> QED
        BY <3>1, <3>2
    <2> QED
      BY <2>1 DEF RunnerMatches
  <1>8. RunnerNeedsApi' /\ FreshStart'
    BY DEF RunnerNeedsApi, FreshStart
  <1>9. EndsInMemory'
    BY <1>2, <1>3, <1>4 DEF EndsInMemory, Terminal, Active, Statuses
  <1>10. NotCreated'
    BY <1>1, <1>2, <1>3, <1>4 DEF NotCreated, Jobs
  <1>11. SweepInFlight'
    BY DEF AInv, SafeOK, SweepInFlight
  <1>12. MemoryAhead'
    <2>1. ASSUME NEW k \in Jobs
          PROVE  Ahead(disk'[k], mem'[k])
      <3>1. CASE k = j
        BY <1>2, <3>1 DEF Ahead, Follows, Statuses, Active, Terminal
      <3>2. CASE k # j
        BY <1>3, <1>5, <3>2 DEF Ahead
      <3> QED
        BY <3>1, <3>2
    <2> QED
      BY <2>1 DEF MemoryAhead, Ahead
  <1>13. ResultsOK'
    <2>1. ASSUME NEW k \in Jobs
          PROVE  /\ k \in stored' => k \in results'
                 /\ k \in results' => mem'[k] \in Terminal
                 /\ k \in stored' => disk'[k] \in Terminal
                 /\ disk'[k] = "COMPLETED" => k \in stored'
                 /\ k \in results' /\ k \notin stored' => disk'[k] = "RUNNING"
      <3>1. CASE k = j
        <4>1. status \in Terminal \/ status \in Active
          BY DEF Statuses, Terminal, Active
        <4> QED
          BY <1>2, <1>5, <3>1, <4>1
      <3>2. CASE k # j
        BY <1>3, <1>4, <1>5, <3>2
      <3> QED
        BY <3>1, <3>2
    <2>2. stored' \subseteq Jobs
      BY <1>1 DEF OwnStep, Copied
    <2> QED
      BY <2>1, <2>2 DEF ResultsOK
  <1>14. ForwardStep
    <2>1. ASSUME NEW k \in Jobs
          PROVE  /\ disk'[k] = disk[k] \/ Follows(disk[k], disk'[k]) \/ TakenBack(k)
                 /\ k \in stored' \ stored => disk[k] = "RUNNING" /\ disk'[k] \in Terminal
                 /\ k \in stored \ stored' => disk'[k] = "ABSENT"
      <3>1. CASE k = j
        <4>1. status \in Terminal \/ status \in Active
          BY DEF Statuses, Terminal, Active
        <4>2. disk'[j] = disk[j] \/ Follows(disk[j], disk'[j]) \/ TakenBack(j)
          BY <1>2 DEF TakenBack
        <4> QED
          BY <1>2, <1>5, <3>1, <4>1, <4>2
      <3>2. CASE k # j
        <4>1. Ahead(disk[k], mem[k]) => disk[k] = mem[k] \/ Follows(disk[k], mem[k])
                                        \/ (disk[k] = "COMPLETED" /\ mem[k] = "FAILED" /\ api = "stopping")
          BY DEF Ahead, Follows
        <4>2. disk'[k] = disk[k] \/ Follows(disk[k], disk'[k]) \/ TakenBack(k)
          BY <1>3, <1>5, <3>2, <4>1 DEF TakenBack
        <4> QED
          BY <1>3, <1>4, <1>5, <3>2, <4>2
      <3> QED
        BY <3>1, <3>2
    <2> QED
      BY <2>1 DEF ForwardStep
  <1>. QED  BY <1>6, <1>7, <1>8, <1>9, <1>10, <1>11, <1>12, <1>13, <1>14 DEF SafeOK

\* The steps of a job's runner keep the invariant and move jobs forward.
LEMMA RunnerSafe ==
    ASSUME AInv, NEW j \in Jobs, RunnerNext(j)
    PROVE  SafeOK' /\ ForwardStep
  <1>1. /\ runner[j] # "none" => j <= created
        /\ created \in 0..MaxJobs
        /\ j \in Nat /\ writeFailures \in Nat
    BY LimitsAreNaturals DEF AInv, TypeOK, SafeOK, NotCreated, Jobs, LimitsAreNaturals
  <1>2. /\ runner[j] = "scheduled" => disk[j] = "QUEUED" /\ j \notin results
        /\ runner[j] = "executing" => disk[j] = "RUNNING" /\ j \notin results
        /\ runner[j] = "announcing" => disk[j] \in Terminal
        /\ runner[j] # "none" /\ j \in results => j \in stored
    BY DEF AInv, SafeOK, RunnerMatches, ResultsOK, ServedResultIsStored, Terminal
  <1>3. {"RUNNING", "COMPLETED", "FAILED"} \subseteq Statuses
    BY DEF Statuses
  <1>4. CASE Start(j)
    <2>1. api = "up" /\ UNCHANGED <<api, created, sweep>> /\ runner[j] = "scheduled"
      BY <1>4 DEF Start
    <2>2. \/ OwnStep(j, "RUNNING", "executing", results) /\ Copied
          \/ OwnStep(j, "FAILED", "reporting", results)
          \/ OwnStep(j, "FAILED", "none", results)
      BY <1>4 DEF Start, Errs, OwnStep, Copied, Saves, SavesAfterRaise, SaveRaisesTwice, Remembers,
                  Writes,
                  MarkedRunning, MarkedError, RunnerAt
    <2>3. Follows(disk[j], "RUNNING") /\ Follows(disk[j], "FAILED") /\ disk[j] \notin Terminal
      BY <1>2, <2>1 DEF Follows, Active, Terminal
    <2>4. \/ Lawful(j, "RUNNING", "executing", results)
          \/ Lawful(j, "FAILED", "reporting", results)
          \/ Lawful(j, "FAILED", "none", results)
      BY <1>1, <1>2, <2>1, <2>2, <2>3 DEF Lawful, Active
    <2>. QED  BY <1>3, <2>4, OwnStepSafe
  <1>5. CASE Finish(j)
    <2> DEFINE answered == results \cup {j}
    <2>1. api = "up" /\ UNCHANGED <<api, created, sweep>> /\ runner[j] = "executing"
      BY <1>5 DEF Finish
    <2>2. \/ OwnStep(j, "COMPLETED", "announcing", answered) /\ Copied
          \/ OwnStep(j, "FAILED", "announcing", answered) /\ Copied
          \/ OwnStep(j, "FAILED", "reporting", answered) /\ Copied
          \/ OwnStep(j, "FAILED", "none", answered) /\ writeFailures' > 1
      BY <1>1, <1>5 DEF Finish, Errs, OwnStep, Copied, Saves, SavesAfterRaise, SaveRaisesTwice,
                        Remembers,
                        Writes, MarkedComplete, MarkedError, RunnerAt
    <2>3. Follows(disk[j], "COMPLETED") /\ Follows(disk[j], "FAILED") /\ {"COMPLETED", "FAILED"} \subseteq Terminal
          /\ "COMPLETED" \notin Active /\ "FAILED" \notin Active
      BY <1>2, <2>1 DEF Follows, Active, Terminal
    <2>4. answered \in {results, results \cup {j}} /\ j \in answered
      OBVIOUS
    <2> HIDE DEF answered
    <2>5. \/ Lawful(j, "COMPLETED", "announcing", answered)
          \/ Lawful(j, "FAILED", "announcing", answered)
          \/ Lawful(j, "FAILED", "reporting", answered)
          \/ Lawful(j, "FAILED", "none", answered)
      BY <1>1, <1>2, <2>1, <2>2, <2>3, <2>4 DEF Lawful
    <2>. QED  BY <1>3, <2>5, OwnStepSafe
  <1>6. CASE Raise(j)
    <2>1. api = "up" /\ UNCHANGED <<api, created, sweep>> /\ runner[j] = "executing"
      BY <1>6 DEF Raise
    <2>2. OwnStep(j, "FAILED", "reporting", results) \/ OwnStep(j, "FAILED", "none", results)
      BY <1>6 DEF Raise, OwnStep, Copied, Saves, SaveRaises, Remembers, Writes, MarkedError,
                  RunnerAt
    <2>3. Follows(disk[j], "FAILED") /\ "FAILED" \notin Active
      BY <1>2, <2>1 DEF Follows, Active
    <2>4. Lawful(j, "FAILED", "reporting", results) \/ Lawful(j, "FAILED", "none", results)
      BY <1>1, <1>2, <2>1, <2>2, <2>3 DEF Lawful
    <2>. QED  BY <1>3, <2>4, OwnStepSafe
  <1>7. CASE Announced(j) \/ (/\ UNCHANGED <<disk, mem, stored, results, created, api, sweep, writeFailures>>
                              /\ runner' = [runner EXCEPT ![j] = "none"])
    <2>1. /\ UNCHANGED <<disk, mem, stored, results, created, api, sweep, writeFailures>>
          /\ \A k \in Jobs : runner'[k] \in {"none", runner[k]}
      BY <1>7 DEF Announced, RunnerAt, AInv, TypeOK
    <2>2. RunnerNeedsApi'
      <3>1. CASE api \in {"up", "stopping"}
        BY <2>1, <3>1 DEF RunnerNeedsApi
      <3>2. CASE api \notin {"up", "stopping"}
        BY <1>7, <2>1, <3>2 DEF RunnerNeedsApi, AInv, SafeOK, Announced, NoRunner
      <3> QED
        BY <3>1, <3>2
    <2>3. ServedResultIsStored' /\ RunnerMatches' /\ NotCreated'
      BY <2>1 DEF AInv, SafeOK, ServedResultIsStored, RunnerMatches, NotCreated
    <2>. QED  BY <2>1, <2>2, <2>3 DEF AInv, SafeOK, EndsInMemory, SweepInFlight, FreshStart,
                                      MemoryAhead,
                                      Ahead, ResultsOK, ForwardStep
  <1>8. CASE Cancel(j)
    <2>1. api = "stopping" /\ UNCHANGED <<api, created, sweep>>
      BY <1>8 DEF Cancel
    <2>2. CASE runner[j] \in {"executing", "announcing"} /\ OwnStep(j, "FAILED", "none", results)
      <3>1. Follows(disk[j], "FAILED") \/ disk[j] = "FAILED"
                \/ (runner[j] = "announcing" /\ disk[j] = "COMPLETED")
        BY <1>2, <2>2 DEF Follows, Active, Terminal
      <3>2. "FAILED" \notin Active
        BY DEF Active
      <3>3. Lawful(j, "FAILED", "none", results)
        BY <1>1, <1>2, <2>1, <2>2, <3>1, <3>2 DEF Lawful
      <3>. QED  BY <1>3, <3>3, OwnStepSafe
    <2>3. CASE UNCHANGED <<disk, mem, stored, results, writeFailures>> /\ runner' = [runner EXCEPT ![j] = "none"]
      BY <1>7, <2>1, <2>3
    <2>. QED  BY <1>8, <2>2, <2>3 DEF Cancel, OwnStep, Copied, Saves, SaveRaises, Remembers, Writes,
                                      MarkedError, RunnerAt
  <1>. QED  BY <1>4, <1>5, <1>6, <1>7, <1>8 DEF RunnerNext

\* Start-up, shutdown and crash: no runner is alive before or after.
LEMMA LifespanSafe ==
    ASSUME AInv,
           \/ Lifespan
           \/ StartFails \/ Shutdown \/ Crash
    PROVE  SafeOK' /\ ForwardStep
  <1>1. /\ mem \in JobTable /\ disk \in JobTable
        /\ \A j \in Jobs : NoJobs[j] = "ABSENT" /\ NoRunner[j] = "none"
        /\ stored \subseteq Jobs /\ results \subseteq Jobs
    BY DEF AInv, TypeOK, NoJobs, NoRunner
  <1>2. /\ ServedResultIsStored /\ RunnerMatches /\ RunnerNeedsApi /\ EndsInMemory /\ NotCreated
        /\ SweepInFlight /\ FreshStart /\ MemoryAhead /\ ResultsOK
    BY DEF AInv, SafeOK
  <1>3. CASE Boot
    <2>1. /\ api = "down" /\ api' = "loaded" /\ mem' = disk /\ results' = stored
          /\ disk' = disk /\ stored' = stored /\ created' = created /\ sweep' = sweep
          /\ runner' = runner /\ runner = NoRunner
      BY <1>2, <1>3 DEF Boot, Remembers, RunnerNeedsApi
    <2>. QED  BY <1>1, <1>2, <2>1
              DEF SafeOK, ServedResultIsStored, RunnerMatches, RunnerNeedsApi, EndsInMemory,
                  NotCreated,
                  SweepInFlight, FreshStart, MemoryAhead, Ahead, ResultsOK, ForwardStep
  <1>4. CASE Prune
    <2>1. PICK stale \in SUBSET Prunable :
            LET kept == [j \in Jobs |-> IF j \in stale THEN "ABSENT" ELSE mem[j]] IN
            Saves(kept, results \ stale) /\ api' = "sweeping" /\ sweep' = InFlight(kept)
      BY <1>4 DEF Prune
    <2>2. /\ disk' = mem' /\ stored' = results' /\ results' = results \ stale
          /\ \A j \in Jobs : mem'[j] = IF j \in stale THEN "ABSENT" ELSE mem[j]
          /\ api' = "sweeping" /\ runner = NoRunner /\ mem = disk /\ results = stored
          /\ runner' = runner /\ created' = created
          /\ \A j \in stale : mem[j] \in Terminal
      BY <1>2, <1>4, <2>1 DEF Prune, Saves, Remembers, Writes, RunnerNeedsApi, FreshStart, Prunable
    <2>3. \A j \in sweep' : mem'[j] \in Active
      BY <2>1 DEF Saves, Remembers, InFlight, Listed
    <2>4. ServedResultIsStored' /\ EndsInMemory' /\ RunnerMatches' /\ RunnerNeedsApi'
      BY <1>1, <1>2, <2>2 DEF ServedResultIsStored, EndsInMemory, RunnerMatches, RunnerNeedsApi
    <2>5. NotCreated' /\ SweepInFlight' /\ FreshStart' /\ MemoryAhead'
      BY <1>1, <1>2, <2>2, <2>3 DEF NotCreated, SweepInFlight, FreshStart, MemoryAhead, Ahead
    <2>6. ResultsOK'
      BY <1>1, <1>2, <2>2 DEF ResultsOK
    <2>7. ForwardStep
      BY <1>1, <1>2, <2>2 DEF ForwardStep, Follows
    <2>. QED  BY <2>4, <2>5, <2>6, <2>7 DEF SafeOK
  <1>5. ASSUME NEW j \in Jobs, Sweep(j)  PROVE SafeOK' /\ ForwardStep
    <2>1. /\ disk' = mem' /\ stored' = results' /\ results' = results
          /\ \A k \in Jobs : mem'[k] = IF k = j THEN "FAILED" ELSE mem[k]
          /\ api = "sweeping" /\ runner = NoRunner /\ mem = disk /\ results = stored
          /\ UNCHANGED <<api, runner, created>> /\ sweep' = sweep \ {j}
      BY <1>1, <1>2, <1>5 DEF Sweep, Saves, Remembers, Writes, MarkedError, JobTable,
                              RunnerNeedsApi, FreshStart
    <2>2. mem[j] \in Active
      BY <1>2, <1>5 DEF Sweep, SweepInFlight
    <2>3. j \notin results
      BY <1>2, <2>2 DEF ResultsOK, Active, Terminal
    <2>4. ServedResultIsStored' /\ EndsInMemory' /\ RunnerMatches' /\ RunnerNeedsApi'
      BY <1>1, <1>2, <2>1 DEF ServedResultIsStored, EndsInMemory, RunnerMatches, RunnerNeedsApi
    <2>5. NotCreated'
      BY <1>2, <2>1, <2>2 DEF NotCreated, Active
    <2>6. SweepInFlight' /\ FreshStart' /\ MemoryAhead'
      BY <1>2, <2>1 DEF AInv, TypeOK, SweepInFlight, FreshStart, MemoryAhead, Ahead
    <2>7. ResultsOK'
      BY <1>1, <1>2, <2>1, <2>3 DEF ResultsOK, Terminal
    <2>8. ForwardStep
      BY <1>1, <1>2, <2>1, <2>2 DEF ForwardStep, Follows
    <2>. QED  BY <2>4, <2>5, <2>6, <2>7, <2>8 DEF SafeOK
  <1>6. CASE Serve
    <2>1. /\ UNCHANGED <<disk, mem, stored, results, created, sweep, runner, writeFailures>>
          /\ api = "sweeping" /\ api' = "up" /\ sweep = {}
      BY <1>6 DEF Serve
    <2>. QED  BY <1>1, <1>2, <2>1
              DEF SafeOK, ServedResultIsStored, RunnerMatches, RunnerNeedsApi, EndsInMemory,
                  NotCreated,
                  SweepInFlight, FreshStart, MemoryAhead, Ahead, ResultsOK, ForwardStep
  <1>7. CASE Stopped \/ StartFails \/ Crash
    <2>1. /\ api' = "down" /\ runner' = NoRunner /\ sweep' = {} /\ created' = created
          /\ mem' = NoJobs /\ results' = {} /\ disk' = disk /\ stored' = stored
      BY <1>7 DEF Stopped, StartFails, Crash, SaveRaises, Remembers, Down
    <2>. QED  BY <1>1, <1>2, <2>1
              DEF SafeOK, ServedResultIsStored, RunnerMatches, RunnerNeedsApi, EndsInMemory,
                  NotCreated,
                  SweepInFlight, FreshStart, MemoryAhead, ResultsOK, ForwardStep
  <1>8. CASE Shutdown
    <2>1. /\ UNCHANGED <<disk, mem, stored, results, created, sweep, runner, writeFailures>>
          /\ api = "up" /\ api' = "stopping"
      BY <1>8 DEF Shutdown
    <2>. QED  BY <1>1, <1>2, <2>1
              DEF SafeOK, ServedResultIsStored, RunnerMatches, RunnerNeedsApi, EndsInMemory,
                  NotCreated,
                  SweepInFlight, FreshStart, MemoryAhead, Ahead, ResultsOK, ForwardStep
  <1>. QED  BY <1>3, <1>4, <1>5, <1>6, <1>7, <1>8 DEF Lifespan

\* So does the creation of a job, saved or not.
LEMMA CreateSafe ==
    ASSUME AInv, NEW j \in Jobs, Create(j)
    PROVE  SafeOK' /\ ForwardStep
  <1>1. /\ created \in 0..MaxJobs /\ j \in Nat /\ j = created + 1 /\ created' = j
        /\ api = "up" /\ UNCHANGED <<api, sweep>>
        /\ mem[j] = "ABSENT" /\ disk[j] = "ABSENT" /\ runner[j] = "none" /\ j <= MaxJobs
        /\ runner \in [Jobs -> {"none", "scheduled", "executing", "announcing", "reporting"}]
    BY LimitsAreNaturals
       DEF LimitsAreNaturals, Create, AInv, TypeOK, SafeOK, NotCreated, Jobs
  <1>2. \/ OwnStep(j, "QUEUED", "scheduled", results) /\ Copied
        \/ OwnStep(j, "QUEUED", "none", results)
    BY <1>1 DEF Create, Saves, SaveRaises, Remembers, Writes, RunnerAt, OwnStep, Copied
  <1>3. "QUEUED" \in Statuses /\ disk[j] \notin Terminal /\ created' \in 0..MaxJobs
        /\ Follows(disk[j], "QUEUED") /\ "QUEUED" \in Active
    BY <1>1, LimitsAreNaturals DEF LimitsAreNaturals, Statuses, Terminal, Active, Follows
  <1>4. j \notin results
    BY <1>1 DEF AInv, SafeOK, ResultsOK, Terminal
  <1>5. Lawful(j, "QUEUED", "scheduled", results) \/ Lawful(j, "QUEUED", "none", results)
    BY <1>1, <1>2, <1>3, <1>4 DEF Lawful
  <1>. QED  BY <1>3, <1>5, OwnStepSafe

\* Every step keeps the invariant and moves jobs forward.
LEMMA SafeStep ==
    ASSUME AInv, [Next]_vars
    PROVE  AInv' /\ ForwardStep
  <1>1. TypeOK'
    BY TypeStep DEF AInv
  <1>2. SafeOK' /\ ForwardStep
    <2>1. CASE UNCHANGED vars
      BY <2>1, Untouched DEF vars
    <2>2. CASE Next
      BY <2>2, LifespanSafe, CreateSafe, RunnerSafe DEF Next
    <2>. QED  BY <2>1, <2>2
  <1>. QED  BY <1>1, <1>2 DEF AInv

\* The invariant holds initially.
LEMMA SafeInit == Init => AInv
  BY InitTyped DEF Init, AInv, SafeOK, ServedResultIsStored, RunnerMatches, RunnerNeedsApi,
                   EndsInMemory, NotCreated, SweepInFlight, FreshStart, MemoryAhead, Ahead,
                   ResultsOK, NoJobs, NoRunner

\* In every state the file, the memory and the runners agree on each job: what is
\* scheduled is QUEUED, what executes is RUNNING, and what ended in the file ended
\* in memory.
THEOREM Invariance == Spec => []AInv
  <1>1. AInv /\ [Next]_vars => AInv'
    BY SafeStep
  <1>. QED  BY <1>1, SafeInit, PTL DEF Spec

\* Whatever saves raise: a job served as COMPLETED is in the file with its result,
\* and a served result that the file lacks is one of a FAILED job whose saves
\* raised twice.
THEOREM Durable == Spec => []ServedResultIsStored
  <1>1. AInv => ServedResultIsStored
    BY DEF AInv, SafeOK
  <1>. QED  BY <1>1, Invariance, PTL

\* In the file jobs follow the lifecycle, across restarts and saves that raise,
\* but for an announcement that shutdown cancelled; results come and go with it.
THEOREM Forward == Spec => LifecycleMovesForward
  <1>1. AInv /\ [Next]_vars => [ForwardStep]_vars
    BY SafeStep
  <1>2. Spec => [][ForwardStep]_vars
    BY <1>1, Invariance, PTL DEF Spec
  <1>. QED  BY <1>2 DEF LifecycleMovesForward, ForwardStep

-----------------------------------------------------------------------------
(***************************************************************************)
(* No job is left without a runner.                                        *)
(***************************************************************************)

\* A runner that only has its outcome to tell has stored it.
TellersEnded ==
    \A j \in Jobs : runner[j] \in {"announcing", "reporting"} => mem[j] \in Terminal

\* Jobs outlive an API process only when it was stopped or killed, or a save failed.
QuietStart == api # "up" /\ crashes = 0 /\ writeFailures = 0 => created = 0

\* From the sweep on, every active job has somebody who will end it.
Covered ==
    api \in {"sweeping", "up"} /\ writeFailures = 0 =>
        \A j \in Jobs :
            mem[j] \in Active => j \in sweep \/ runner[j] # "none" \/ BeyondList(mem, j)

CoverInv == AInv /\ TellersEnded /\ QuietStart /\ Covered

\* A job that list() does not reach stays out of its reach while jobs are added.
LEMMA NewerKept ==
    ASSUME NEW was, NEW is, NEW j \in Jobs,
           \A k \in Jobs : was[k] # "ABSENT" => is[k] # "ABSENT"
    PROVE  Cardinality(Newer(was, j)) \in Nat /\ Cardinality(Newer(is, j)) \in Nat
           /\ Cardinality(Newer(was, j)) <= Cardinality(Newer(is, j))
  <1>1. IsFiniteSet(1..MaxJobs)
    <2>1. 1 \in Int /\ MaxJobs \in Int
      BY LimitsAreNaturals DEF LimitsAreNaturals
    <2> QED
      BY <2>1, FS_Interval
  <1>2. Newer(was, j) \subseteq Newer(is, j) /\ Newer(is, j) \subseteq 1..MaxJobs
    BY DEF Newer, Jobs
  <1>3. IsFiniteSet(Newer(is, j)) /\ IsFiniteSet(Newer(was, j))
    BY <1>1, <1>2, FS_Subset
  <1> QED
    BY <1>2, <1>3, FS_Subset, FS_CardinalityType

LEMMA BeyondKept ==
    ASSUME NEW was, NEW is, NEW j \in Jobs,
           \A k \in Jobs : was[k] # "ABSENT" => is[k] # "ABSENT",
           BeyondList(was, j), crashes' = crashes
    PROVE  crashes' > 0 /\ Cardinality(Newer(is, j)) >= ListLimit
  <1>1. /\ Cardinality(Newer(was, j)) \in Nat /\ Cardinality(Newer(is, j)) \in Nat
        /\ Cardinality(Newer(was, j)) <= Cardinality(Newer(is, j))
    BY NewerKept
  <1> QED
    BY <1>1, LimitsAreNaturals DEF BeyondList, LimitsAreNaturals

\* A step of one job's runner, or its creation.
LEMMA OneJobCovered ==
    ASSUME CoverInv, NEW j \in Jobs, NEW status \in Statuses,
           NEW stage \in {"none", "scheduled", "executing", "announcing", "reporting"},
           mem' = [mem EXCEPT ![j] = status], runner' = [runner EXCEPT ![j] = stage],
           api = "up", api' = api, crashes' = crashes, sweep' = sweep,
           writeFailures' = 0 => writeFailures = 0,
           stage # "none" \/ status \in Terminal \/ writeFailures' # 0,
           stage \in {"announcing", "reporting"} => status \in Terminal
    PROVE  TellersEnded' /\ QuietStart' /\ Covered'
  <1>1. /\ mem'[j] = status /\ runner'[j] = stage
        /\ \A k \in Jobs \ {j} : mem'[k] = mem[k] /\ runner'[k] = runner[k]
    BY DEF CoverInv, AInv, TypeOK, JobTable
  <1>2. \A k \in Jobs : mem[k] # "ABSENT" => mem'[k] # "ABSENT"
    BY <1>1 DEF Statuses
  <1>3. TellersEnded'
    BY <1>1 DEF CoverInv, TellersEnded
  <1>4. ASSUME NEW k \in Jobs, mem'[k] \in Active, writeFailures' = 0
        PROVE  k \in sweep' \/ runner'[k] # "none" \/ BeyondList(mem, k)'
    <2>1. CASE k = j
      BY <1>1, <1>4, <2>1 DEF Active, Terminal
    <2>2. CASE k # j
      <3>1. k \in sweep \/ runner[k] # "none" \/ BeyondList(mem, k)
        BY <1>1, <1>4, <2>2 DEF CoverInv, Covered
      <3>2. BeyondList(mem, k) => crashes' > 0 /\ Cardinality(Newer(mem', k)) >= ListLimit
        BY <1>2, BeyondKept
      <3>3. BeyondList(mem, k) => BeyondList(mem, k)'
        BY <3>2 DEF BeyondList, Newer
      <3> QED
        BY <1>1, <2>2, <3>1, <3>3
    <2> QED
      BY <2>1, <2>2
  <1> QED
    BY <1>3, <1>4 DEF QuietStart, Covered

LEMMA RunnerCovered ==
    ASSUME CoverInv, NEW j \in Jobs, RunnerNext(j)
    PROVE  TellersEnded' /\ QuietStart' /\ Covered'
  <1>1. AInv /\ TellersEnded /\ QuietStart /\ Covered /\ writeFailures \in Nat
    BY LimitsAreNaturals DEF CoverInv, AInv, TypeOK, LimitsAreNaturals
  <1>2. {"RUNNING", "COMPLETED", "FAILED"} \subseteq Statuses /\ {"COMPLETED", "FAILED"} \subseteq Terminal
    BY DEF Statuses, Terminal
  <1>3. CASE Start(j)
    <2>1. api = "up" /\ UNCHANGED <<api, crashes, sweep>>
      BY <1>3 DEF Start
    <2>2. \/ /\ mem' = [mem EXCEPT ![j] = "RUNNING"] /\ runner' = [runner EXCEPT ![j] = "executing"]
             /\ writeFailures' = writeFailures
          \/ /\ mem' = [mem EXCEPT ![j] = "FAILED"] /\ runner' = [runner EXCEPT ![j] = "reporting"]
             /\ writeFailures' = writeFailures + 1
          \/ /\ mem' = [mem EXCEPT ![j] = "FAILED"] /\ runner' = [runner EXCEPT ![j] = "none"]
             /\ writeFailures' = writeFailures + 2
      BY <1>3 DEF Start, Errs, Saves, SavesAfterRaise, SaveRaisesTwice, Remembers, Writes,
                  MarkedRunning, MarkedError, RunnerAt
    <2> QED
      BY <1>1, <1>2, <2>1, <2>2, OneJobCovered
  <1>4. CASE Finish(j)
    <2>1. api = "up" /\ UNCHANGED <<api, crashes, sweep>>
      BY <1>4 DEF Finish
    <2>2. \/ \E end \in {"COMPLETED", "FAILED"} :
               /\ mem' = [mem EXCEPT ![j] = end] /\ runner' = [runner EXCEPT ![j] = "announcing"]
               /\ writeFailures' = writeFailures
          \/ /\ mem' = [mem EXCEPT ![j] = "FAILED"] /\ runner' = [runner EXCEPT ![j] = "reporting"]
             /\ writeFailures' = writeFailures + 1
          \/ /\ mem' = [mem EXCEPT ![j] = "FAILED"] /\ runner' = [runner EXCEPT ![j] = "none"]
             /\ writeFailures' = writeFailures + 2
      BY <1>4 DEF Finish, Errs, Saves, SavesAfterRaise, SaveRaisesTwice, Remembers, Writes,
                  MarkedComplete, MarkedError, RunnerAt
    <2> QED
      BY <1>1, <1>2, <2>1, <2>2, OneJobCovered
  <1>5. CASE Raise(j)
    <2>1. api = "up" /\ UNCHANGED <<api, crashes, sweep>>
      BY <1>5 DEF Raise
    <2>2. mem' = [mem EXCEPT ![j] = "FAILED"]
      BY <1>5 DEF Raise, Saves, SaveRaises, Remembers, Writes, MarkedError
    <2>3. PICK stage \in {"reporting", "none"} : runner' = [runner EXCEPT ![j] = stage]
      BY <1>5 DEF Raise, RunnerAt
    <2>4. writeFailures' = 0 => writeFailures = 0
      BY <1>1, <1>5 DEF Raise, Saves, SaveRaises, Remembers, Writes
    <2> QED
      BY <1>2, <2>1, <2>2, <2>3, <2>4, OneJobCovered
  <1>6. CASE Announced(j)
    <2>1. api = "up" /\ UNCHANGED <<api, crashes, sweep, writeFailures, mem>>
          /\ runner' = [runner EXCEPT ![j] = "none"] /\ runner[j] \in {"announcing", "reporting"}
      BY <1>6 DEF Announced, RunnerAt
    <2>2. mem[j] \in Terminal /\ mem' = [mem EXCEPT ![j] = mem[j]]
      BY <1>1, <2>1 DEF TellersEnded, AInv, TypeOK, JobTable
    <2> QED
      BY <1>1, <1>2, <2>1, <2>2, OneJobCovered DEF Terminal
  <1>7. CASE Cancel(j)
    <2>1. api = "stopping" /\ UNCHANGED <<api, created, crashes, sweep>>
          /\ runner' = [runner EXCEPT ![j] = "none"]
          /\ writeFailures' \in {writeFailures, writeFailures + 1}
          /\ mem' \in {mem, [mem EXCEPT ![j] = "FAILED"]}
      BY <1>7 DEF Cancel, RunnerAt, Saves, SaveRaises, Remembers, Writes, MarkedError
    <2>2. \A k \in Jobs : mem[k] \in Terminal => mem'[k] \in Terminal
      BY <1>1, <1>2, <2>1 DEF AInv, TypeOK, JobTable
    <2>3. \A k \in Jobs : runner'[k] \in {"none", runner[k]}
      BY <1>1, <2>1 DEF AInv, TypeOK
    <2> QED
      BY <1>1, <2>1, <2>2, <2>3 DEF TellersEnded, QuietStart, Covered
  <1> QED
    BY <1>3, <1>4, <1>5, <1>6, <1>7 DEF RunnerNext

\* What start-up fails is all that list() reaches of the jobs in flight.
LEMMA LifespanCovered ==
    ASSUME CoverInv,
           \/ Lifespan
           \/ StartFails \/ Shutdown \/ Crash
    PROVE  TellersEnded' /\ QuietStart' /\ Covered'
  <1>1. /\ AInv /\ TellersEnded /\ QuietStart /\ Covered
        /\ writeFailures \in Nat /\ crashes \in Nat /\ mem \in JobTable
        /\ \A k \in Jobs : NoRunner[k] = "none"
    BY LimitsAreNaturals DEF CoverInv, AInv, TypeOK, LimitsAreNaturals, NoRunner
  <1>2. api \notin {"up", "stopping"} => runner = NoRunner
    BY <1>1 DEF AInv, SafeOK, RunnerNeedsApi
  <1>3. CASE Boot
    BY <1>1, <1>2, <1>3 DEF Boot, TellersEnded, QuietStart, Covered
  <1>4. CASE Prune
    <2>1. PICK stale \in SUBSET Prunable :
            LET kept == [j \in Jobs |-> IF j \in stale THEN "ABSENT" ELSE mem[j]] IN
            Saves(kept, results \ stale) /\ api' = "sweeping" /\ sweep' = InFlight(kept)
      BY <1>4 DEF Prune
    <2> DEFINE kept == [j \in Jobs |-> IF j \in stale THEN "ABSENT" ELSE mem[j]]
    <2>2. /\ mem' = kept /\ writeFailures' = writeFailures /\ sweep' = InFlight(kept) /\ api' = "sweeping"
          /\ api = "loaded" /\ created' = created /\ crashes' = crashes /\ runner' = runner
      BY <1>4, <2>1 DEF Prune, Saves, Remembers, Writes
    <2>3. ASSUME NEW j \in Jobs, mem'[j] \in Active, writeFailures' = 0
          PROVE  j \in sweep' \/ BeyondList(mem, j)'
      <3>1. mem'[j] # "ABSENT" /\ mem[j] # "ABSENT"
        BY <2>2, <2>3 DEF Active
      <3>2. ~(j > created)
        BY <1>1, <3>1 DEF AInv, SafeOK, NotCreated
      <3>3. created # 0
        BY <3>2 DEF Jobs
      <3>4. crashes' > 0
        BY <1>1, <2>2, <2>3, <3>3 DEF QuietStart
      <3>5. Cardinality(Newer(mem', j)) \in Nat
        BY NewerKept
      <3> HIDE DEF kept
      <3>6. Cardinality(Newer(mem', j)) < ListLimit => j \in sweep'
        BY <2>2, <2>3, <3>1 DEF InFlight, Listed
      <3>7. ~(Cardinality(Newer(mem', j)) < ListLimit) => BeyondList(mem, j)'
        BY <3>4, <3>5, LimitsAreNaturals DEF BeyondList, Newer, LimitsAreNaturals
      <3> QED
        BY <3>6, <3>7
    <2>4. TellersEnded'
      BY <1>1, <1>2, <2>2 DEF TellersEnded
    <2> QED
      BY <1>1, <2>2, <2>3, <2>4 DEF QuietStart, Covered
  <1>5. ASSUME NEW j \in Jobs, Sweep(j)
        PROVE  TellersEnded' /\ QuietStart' /\ Covered'
    <2>1. /\ api = "sweeping" /\ mem' = [mem EXCEPT ![j] = "FAILED"] /\ sweep' = sweep \ {j}
          /\ UNCHANGED <<created, api, runner, crashes, writeFailures>>
      BY <1>5 DEF Sweep, Saves, Remembers, Writes, MarkedError
    <2>2. /\ mem'[j] = "FAILED" /\ \A k \in Jobs \ {j} : mem'[k] = mem[k]
          /\ \A k \in Jobs : mem[k] # "ABSENT" => mem'[k] # "ABSENT"
      BY <1>1, <2>1 DEF JobTable
    <2>3. ASSUME NEW k \in Jobs, mem'[k] \in Active, writeFailures' = 0
          PROVE  k \in sweep' \/ runner'[k] # "none" \/ BeyondList(mem, k)'
      <3>1. k # j /\ mem[k] \in Active
        BY <2>2, <2>3 DEF Active
      <3>2. k \in sweep \/ runner[k] # "none" \/ BeyondList(mem, k)
        BY <1>1, <2>1, <2>3, <3>1 DEF Covered
      <3>3. BeyondList(mem, k) => crashes' > 0 /\ Cardinality(Newer(mem', k)) >= ListLimit
        BY <2>1, <2>2, BeyondKept
      <3>4. BeyondList(mem, k) => BeyondList(mem, k)'
        BY <3>3 DEF BeyondList, Newer
      <3> QED
        BY <2>1, <3>1, <3>2, <3>4
    <2>4. TellersEnded'
      BY <1>1, <1>2, <2>1 DEF TellersEnded
    <2> QED
      BY <1>1, <2>1, <2>3, <2>4 DEF QuietStart, Covered
  <1>6. CASE Serve
    BY <1>1, <1>6 DEF Serve, TellersEnded, QuietStart, Covered, BeyondList, Newer
  <1>7. CASE Stopped \/ StartFails \/ Crash
    <2>1. /\ api' = "down" /\ runner' = NoRunner /\ created' = created
          /\ Stopped => api = "stopping" /\ UNCHANGED <<crashes, writeFailures>>
          /\ StartFails => writeFailures' = writeFailures + 1
          /\ Crash => crashes' = crashes + 1
      BY <1>7 DEF Stopped, StartFails, Crash, Down, SaveRaises, Remembers, Writes
    <2> QED
      BY <1>1, <1>7, <2>1 DEF TellersEnded, QuietStart, Covered
  <1>8. CASE Shutdown
    BY <1>1, <1>8 DEF Shutdown, TellersEnded, QuietStart, Covered
  <1> QED
    BY <1>3, <1>4, <1>5, <1>6, <1>7, <1>8 DEF Lifespan

LEMMA CreateCovered ==
    ASSUME CoverInv, NEW j \in Jobs, Create(j)
    PROVE  TellersEnded' /\ QuietStart' /\ Covered'
  <1>1. api = "up" /\ UNCHANGED <<api, crashes, sweep>> /\ writeFailures \in Nat /\ j = created + 1
        /\ runner \in [Jobs -> {"none", "scheduled", "executing", "announcing", "reporting"}]
        /\ created \in Nat
    BY LimitsAreNaturals DEF Create, CoverInv, AInv, TypeOK, LimitsAreNaturals
  <1>2. runner[j] = "none"
    BY <1>1 DEF CoverInv, AInv, SafeOK, NotCreated
  <1>3. mem' = [mem EXCEPT ![j] = "QUEUED"]
        /\ \/ writeFailures' = writeFailures /\ runner' = [runner EXCEPT ![j] = "scheduled"]
           \/ writeFailures' = writeFailures + 1 /\ runner' = [runner EXCEPT ![j] = "none"]
    BY <1>1, <1>2 DEF Create, Saves, SaveRaises, Remembers, Writes, RunnerAt
  <1>4. "QUEUED" \in Statuses
    BY DEF Statuses
  <1>5. CASE writeFailures' = writeFailures /\ runner' = [runner EXCEPT ![j] = "scheduled"]
    BY <1>1, <1>3, <1>4, <1>5, OneJobCovered
  <1>6. CASE writeFailures' = writeFailures + 1 /\ runner' = [runner EXCEPT ![j] = "none"]
    <2>1. writeFailures' # 0
      BY <1>1, <1>6
    <2> QED
      BY <1>1, <1>3, <1>4, <1>6, <2>1, OneJobCovered
  <1> QED
    BY <1>3, <1>5, <1>6

\* While the API serves, a job shown as QUEUED or RUNNING has a runner, whatever
\* number of crashes, shutdowns and restarts there were, unless a save failed or
\* the job is older than the newest jobs that start-up lists.
THEOREM Attended == Spec => []ActiveHasRunner
  <1>1. Init => CoverInv
    BY SafeInit DEF Init, CoverInv, TellersEnded, QuietStart, Covered, NoJobs, NoRunner
  <1>2. CoverInv /\ [Next]_vars => CoverInv'
    <2> SUFFICES ASSUME CoverInv, [Next]_vars
                 PROVE  CoverInv'
      OBVIOUS
    <2>1. AInv'
      BY SafeStep DEF CoverInv
    <2>2. CASE UNCHANGED vars
      <3>1. /\ api' = api /\ mem' = mem /\ runner' = runner /\ crashes' = crashes
            /\ writeFailures' = writeFailures /\ created' = created /\ sweep' = sweep
        BY <2>2 DEF vars
      <3> QED
        BY <2>1, <3>1 DEF CoverInv, TellersEnded, QuietStart, Covered, BeyondList, Newer
    <2>3. CASE Next
      BY <2>1, <2>3, LifespanCovered, CreateCovered, RunnerCovered DEF Next, CoverInv
    <2> QED
      BY <2>2, <2>3
  <1>3. CoverInv => ActiveHasRunner
    <2> SUFFICES ASSUME CoverInv, api = "up", NEW j \in Jobs, mem[j] \in Active, writeFailures = 0
                 PROVE  runner[j] # "none" \/ BeyondList(mem, j)
      BY LimitsAreNaturals DEF ActiveHasRunner, CoverInv, AInv, TypeOK, LimitsAreNaturals
    <2>1. sweep = {}
      BY Zenon DEF CoverInv, AInv, SafeOK, SweepInFlight
    <2> QED
      BY <2>1 DEF CoverInv, Covered
  <1> QED
    BY <1>1, <1>2, <1>3, PTL DEF Spec

-----------------------------------------------------------------------------
(***************************************************************************)
(* The clients that follow them.                                           *)
(***************************************************************************)
\* Clients come and go beside the jobs, and what they are told changes no job.
LEMMA ClientsWatch ==
    ASSUME ClientStep \/ \E j \in Jobs : Tells(j)
    PROVE  UNCHANGED vars
  BY Zenon DEF ClientStep, Connect, Close, Disconnect, Subscribe, Tells, Send, SendTopic,
               TurnToTopic,
         EndTelling

LEMMA JobsStep == [LiveNext]_liveVars => [Next]_vars
  <1>1. JobStep => Next
    BY DEF JobStep, WithClients
  <1>2. liveVars' = liveVars => vars' = vars
    BY DEF liveVars
  <1> QED
    BY <1>1, <1>2, ClientsWatch DEF LiveNext

\* Followed by clients, the jobs are still the jobs of AssessmentJobs: a send that
\* fails, and a client that closes, changes nothing about them.
THEOREM Unobserved == LiveSpec => Spec
  BY JobsStep, PTL DEF LiveSpec, LiveInit, Spec

-----------------------------------------------------------------------------
(***************************************************************************)
(* Types.                                                                  *)
(***************************************************************************)
TellRecord == [stage : {"none", "all", "topic"}, left : SUBSET Conns,
               failed : SUBSET Conns, status : Told]

LEMMA TellTyped ==
    ASSUME NEW r \in TellRecord, NEW more \in SUBSET Conns, NEW cs \in SUBSET Conns,
           NEW place \in {"none", "all", "topic"}
    PROVE  /\ [r EXCEPT !.left = more] \in TellRecord
           /\ [r EXCEPT !.left = more, !.failed = cs] \in TellRecord
           /\ [r EXCEPT !.stage = place, !.left = more, !.failed = cs] \in TellRecord
  BY DEF TellRecord

LEMMA SilentTyped == Silent \in TellRecord /\ Silent.stage = "none"
  BY DEF Silent, TellRecord, Told

\* What a telling to all connections, and its turn to the topic, leave to be told.
LEMMA SendKeeps ==
    ASSUME LiveTypeOK, NEW j \in Jobs, NEW c \in Conns, Send(j, c)
    PROVE  /\ tell' \in [Jobs -> TellRecord]
           /\ \A k \in Jobs \ {j} : tell'[k] = tell[k]
           /\ tell'[j].stage = "all" /\ tell'[j].status = tell[j].status
           /\ tell'[j].left = tell[j].left \ {c}
  <1>1. tell[j] \in TellRecord /\ tell \in [Jobs -> TellRecord] /\ tell[j].stage = "all"
    BY DEF LiveTypeOK, TellRecord, Send
  <1> DEFINE sent == [tell[j] EXCEPT !.left = tell[j].left \ {c}]
             lost == [tell[j] EXCEPT !.left = tell[j].left \ {c}, !.failed = tell[j].failed \cup {c}]
  <1>2. tell[j].left \ {c} \in SUBSET Conns /\ tell[j].failed \cup {c} \in SUBSET Conns
    BY <1>1, Zenon DEF TellRecord
  <1>3. sent \in TellRecord /\ lost \in TellRecord
    BY <1>1, <1>2, TellTyped, Zenon
  <1>4. /\ sent.stage = "all" /\ sent.status = tell[j].status /\ sent.left = tell[j].left \ {c}
        /\ lost.stage = "all" /\ lost.status = tell[j].status /\ lost.left = tell[j].left \ {c}
    BY <1>1 DEF TellRecord
  <1>5. tell' = [tell EXCEPT ![j] = sent] \/ tell' = [tell EXCEPT ![j] = lost]
    BY <1>1 DEF Send
  <1> HIDE DEF sent, lost
  <1> QED
    BY <1>1, <1>3, <1>4, <1>5

LEMMA SendTopicKeeps ==
    ASSUME LiveTypeOK, NEW j \in Jobs, NEW c \in Conns, SendTopic(j, c)
    PROVE  /\ tell' \in [Jobs -> TellRecord]
           /\ \A k \in Jobs \ {j} : tell'[k] = tell[k]
           /\ tell'[j].stage = "topic" /\ tell'[j].status = tell[j].status
  <1>1. tell[j] \in TellRecord /\ tell \in [Jobs -> TellRecord] /\ tell[j].stage = "topic"
    BY DEF LiveTypeOK, TellRecord, SendTopic
  <1> DEFINE sent == [tell[j] EXCEPT !.left = tell[j].left \ {c}]
  <1>2. tell[j].left \ {c} \in SUBSET Conns
    BY <1>1, Zenon DEF TellRecord
  <1>3. sent \in TellRecord
    BY <1>1, <1>2, TellTyped, Zenon
  <1>4. sent.stage = "topic" /\ sent.status = tell[j].status
    BY <1>1 DEF TellRecord
  <1>5. tell' = [tell EXCEPT ![j] = sent]
    BY <1>1 DEF SendTopic
  <1> HIDE DEF sent
  <1> QED
    BY <1>1, <1>3, <1>4, <1>5

LEMMA TurnKeeps ==
    ASSUME LiveTypeOK, NEW j \in Jobs, TurnToTopic(j)
    PROVE  /\ tell' \in [Jobs -> TellRecord]
           /\ topics' \in [Jobs -> SUBSET Conns] /\ active' \subseteq Conns
           /\ \A k \in Jobs \ {j} : tell'[k] = tell[k]
           /\ tell'[j].stage = "topic" /\ tell'[j].status = tell[j].status
  <1>1. tell[j] \in TellRecord /\ tell \in [Jobs -> TellRecord] /\ topics \in [Jobs -> SUBSET Conns]
    BY DEF LiveTypeOK, TellRecord
  <1>2. topics' \in [Jobs -> SUBSET Conns] /\ active' \subseteq Conns
    BY <1>1, Zenon DEF TurnToTopic, Dropped, LiveTypeOK
  <1> DEFINE turned == [tell[j] EXCEPT !.stage = "topic", !.left = topics'[j], !.failed = {}]
  <1>3. turned \in TellRecord
    BY <1>1, <1>2, TellTyped, Zenon
  <1>4. turned.stage = "topic" /\ turned.status = tell[j].status
    BY <1>1 DEF TellRecord
  <1>5. tell' = [tell EXCEPT ![j] = turned]
    BY <1>1 DEF TurnToTopic
  <1> HIDE DEF turned
  <1> QED
    BY <1>1, <1>2, <1>3, <1>4, <1>5

LEMMA EndKeeps ==
    ASSUME LiveTypeOK, NEW j \in Jobs, EndTelling(j)
    PROVE  /\ tell' \in [Jobs -> TellRecord]
           /\ \A k \in Jobs \ {j} : tell'[k] = tell[k]
           /\ tell'[j].stage = "none"
  BY SilentTyped DEF LiveTypeOK, TellRecord, EndTelling

\* What a connection hears of one job.
LEMMA HearsTyped ==
    ASSUME LiveTypeOK, NEW j \in Jobs, NEW c \in Conns, Hears(c, j)
    PROVE  /\ heard' \in [Conns -> [Jobs -> SUBSET Terminal]]
           /\ heard'[c][j] = heard[c][j] \cup ({tell[j].status} \cap Terminal)
           /\ \A d \in Conns, k \in Jobs : d # c \/ k # j => heard'[d][k] = heard[d][k]
  BY DEF LiveTypeOK, Hears

-----------------------------------------------------------------------------
(***************************************************************************)
(* What the clients have been told, and what is still to be told.          *)
(***************************************************************************)

\* Nobody has heard anything of a process that is not there; a stopping process
\* has used up one of its ends.
HeardInProcess ==
    /\ api \notin {"up", "stopping"} => \A c \in Conns, j \in Jobs : heard[c][j] = {}
    /\ api = "stopping" => crashes > 0

\* An outcome is heard of jobs that ended, and it is the one in memory and file.
HeardOfEnded ==
    \A c \in Conns, j \in Jobs :
        /\ heard[c][j] # {} => /\ runner[j] \notin {"scheduled", "executing"}
                               /\ mem[j] \in Terminal /\ disk[j] \in Terminal
        /\ "COMPLETED" \in heard[c][j] =>
              crashes > 0 \/ (mem[j] = "COMPLETED" /\ disk[j] = "COMPLETED")
        /\ "FAILED" \in heard[c][j] =>
              mem[j] = "FAILED" /\ disk[j] = "FAILED" /\ "COMPLETED" \notin heard[c][j]

\* A telling belongs to its runner, and tells what is stored.
TellsStored ==
    \A j \in Jobs :
        tell[j].stage # "none" =>
            \/ runner[j] = "executing" /\ tell[j].status = "RUNNING"
            \/ /\ runner[j] \in {"announcing", "reporting"}
               /\ tell[j].status \in Terminal
               /\ mem[j] = tell[j].status /\ disk[j] = tell[j].status
               /\ \A c \in Conns : heard[c][j] \subseteq {tell[j].status}

\* Whoever is due to hear an outcome has heard it or is among those left to tell.
DueOrHeard ==
    \A j \in Jobs : \A c \in due[j] :
        /\ c \in alive
        /\ runner[j] \in {"announcing", "reporting"} /\ heard[c][j] = {} =>
              tell[j].stage = "all" /\ c \in tell[j].left

LiveSafe == HeardInProcess /\ HeardOfEnded /\ TellsStored /\ DueOrHeard

LiveInv == LiveTypeOK /\ AInv /\ LiveSafe

Runs == {"none", "scheduled", "executing", "announcing", "reporting"}

-----------------------------------------------------------------------------
\* What one step of the job store means for one job while the API serves or stops.
JobMove(j) ==
    \/ runner'[j] = runner[j] /\ mem'[j] = mem[j] /\ disk'[j] \in {disk[j], mem[j]}
    \/ /\ runner[j] \in {"scheduled", "executing"} /\ api' = "up"
       /\ runner'[j] \in {"executing", "announcing", "reporting", "none"} /\ runner'[j] # runner[j]
       /\ runner'[j] = "executing" => Announces(j) = "RUNNING"
       /\ runner'[j] \in {"announcing", "reporting"} =>
             Announces(j) \in Terminal /\ mem'[j] = Announces(j) /\ disk'[j] = Announces(j)
    \/ mem[j] = "ABSENT" /\ runner[j] = "none" /\ runner'[j] \in {"none", "scheduled"}
    \/ /\ runner[j] \in {"announcing", "reporting"} /\ runner'[j] = "none"
       /\ mem'[j] = mem[j] /\ disk'[j] = disk[j]
    \/ /\ api = "stopping" /\ runner'[j] = "none"
       /\ mem'[j] \in {mem[j], "FAILED"} /\ disk'[j] \in {disk[j], mem'[j]}

\* The job that a runner's step is about.
LEMMA OwnMove ==
    ASSUME AInv, NEW j \in Jobs, RunnerNext(j)
    PROVE  JobMove(j)
  <1>1. mem \in JobTable /\ disk \in JobTable /\ runner \in [Jobs -> Runs]
    BY DEF AInv, TypeOK, Runs
  <1>2. CASE Start(j)
    <2>1. api' = "up" /\ runner[j] = "scheduled"
      BY <1>2 DEF Start
    <2>2. \/ runner' = [runner EXCEPT ![j] = "executing"]
          \/ /\ runner' = [runner EXCEPT ![j] = "reporting"]
             /\ mem' = [mem EXCEPT ![j] = "FAILED"] /\ disk' = mem'
          \/ runner' = [runner EXCEPT ![j] = "none"]
      BY <1>2 DEF Start, Errs, SavesAfterRaise, Remembers, Writes, MarkedError, RunnerAt
    <2> QED
      BY <1>1, <2>1, <2>2 DEF JobMove, Announces, JobTable, Terminal
  <1>3. CASE Finish(j)
    <2>1. api' = "up" /\ runner[j] = "executing"
      BY <1>3 DEF Finish
    <2>2. \/ /\ runner' = [runner EXCEPT ![j] = "announcing"]
             /\ \E end \in {"COMPLETED", "FAILED"} : mem' = [mem EXCEPT ![j] = end] /\ disk' = mem'
          \/ /\ runner' = [runner EXCEPT ![j] = "reporting"]
             /\ mem' = [mem EXCEPT ![j] = "FAILED"] /\ disk' = mem'
          \/ runner' = [runner EXCEPT ![j] = "none"]
      BY <1>3 DEF Finish, Errs, Saves, SavesAfterRaise, Remembers, Writes, MarkedError,
                  MarkedComplete, RunnerAt
    <2> QED
      BY <1>1, <2>1, <2>2 DEF JobMove, Announces, JobTable, Terminal
  <1>4. CASE Raise(j)
    <2>1. api' = "up" /\ runner[j] = "executing"
      BY <1>4 DEF Raise
    <2>2. \/ /\ runner' = [runner EXCEPT ![j] = "reporting"]
             /\ mem' = [mem EXCEPT ![j] = "FAILED"] /\ disk' = mem'
          \/ runner' = [runner EXCEPT ![j] = "none"]
      BY <1>4 DEF Raise, Saves, Remembers, Writes, MarkedError, RunnerAt
    <2> QED
      BY <1>1, <2>1, <2>2 DEF JobMove, Announces, JobTable, Terminal
  <1>5. CASE Announced(j)
    BY <1>1, <1>5 DEF Announced, RunnerAt, JobMove
  <1>6. CASE Cancel(j)
    <2>1. /\ api = "stopping" /\ runner' = [runner EXCEPT ![j] = "none"]
          /\ mem' \in {mem, [mem EXCEPT ![j] = "FAILED"]} /\ disk' \in {disk, mem'}
      BY <1>6 DEF Cancel, RunnerAt, Saves, SaveRaises, Remembers, Writes, MarkedError
    <2>2. mem'[j] \in {mem[j], "FAILED"} /\ disk'[j] \in {disk[j], mem'[j]} /\ runner'[j] = "none"
      BY <1>1, <2>1 DEF JobTable
    <2> QED
      BY <2>1, <2>2 DEF JobMove
  <1> QED
    BY <1>2, <1>3, <1>4, <1>5, <1>6 DEF RunnerNext

\* The other jobs: at most, the file catches up with memory.
LEMMA OthersMove ==
    ASSUME AInv, NEW k \in Jobs, NEW j \in Jobs \ {k}, Create(k) \/ RunnerNext(k)
    PROVE  JobMove(j)
  <1>1. mem \in JobTable /\ disk \in JobTable /\ runner \in [Jobs -> Runs]
    BY DEF AInv, TypeOK, Runs
  <1>2. /\ \E status : mem' = [mem EXCEPT ![k] = status] \/ mem' = mem
        /\ \E stage : runner' = [runner EXCEPT ![k] = stage] \/ runner' = runner
        /\ disk' = disk \/ disk' = mem'
    BY DEF Create, RunnerNext, Start, Finish, Raise, Announced, Cancel, Errs, Saves, SaveRaises,
           SavesAfterRaise, SaveRaisesTwice, Remembers, Writes, MarkedError, MarkedRunning,
           MarkedComplete, RunnerAt
  <1>3. mem'[j] = mem[j] /\ runner'[j] = runner[j]
    BY <1>1, <1>2 DEF JobTable
  <1> QED
    BY <1>2, <1>3 DEF JobMove

LEMMA EveryMove ==
    ASSUME AInv, Next, api \in {"up", "stopping"}, api' \in {"up", "stopping"}, NEW j \in Jobs
    PROVE  JobMove(j)
  <1>1. CASE Shutdown
    BY <1>1 DEF Shutdown, JobMove
  <1>2. ASSUME NEW k \in Jobs, Create(k) \/ RunnerNext(k)
        PROVE  JobMove(j)
    <2>1. CASE k # j
      BY <1>2, <2>1, OthersMove
    <2>2. CASE k = j /\ RunnerNext(j)
      BY <2>2, OwnMove
    <2>3. CASE k = j /\ Create(j)
      <3>1. mem[j] = "ABSENT" /\ runner[j] = "none"
        BY <2>3 DEF Create, AInv, TypeOK, SafeOK, NotCreated
      <3>2. runner' = runner \/ runner' = [runner EXCEPT ![j] = "scheduled"]
        BY <2>3 DEF Create, RunnerAt
      <3> QED
        BY <3>1, <3>2 DEF JobMove, AInv, TypeOK
    <2> QED
      BY <1>2, <2>1, <2>2, <2>3
  <1> QED
    BY <1>1, <1>2 DEF Next, Lifespan, Boot, Prune, Sweep, Serve, Stopped, StartFails, Crash, Down

-----------------------------------------------------------------------------
\* The steps of the jobs, as the clients see them.
LEMMA JobStepTyped ==
    ASSUME LiveInv, JobStep
    PROVE  /\ LiveTypeOK'
           /\ \A j \in Jobs : tell'[j] = IF Enters(j) THEN Telling(Announces(j))
                                         ELSE IF runner'[j] = "none" THEN Silent ELSE tell[j]
           /\ \A j \in Jobs : due'[j] = IF Enters(j) THEN active \cap alive
                                        ELSE IF runner'[j] = "none" THEN {} ELSE due[j]
  <1>1. AInv /\ LiveTypeOK /\ Next
    BY DEF LiveInv, JobStep, WithClients
  <1>2. /\ \A j \in Jobs : tell'[j] = IF Enters(j) THEN Telling(Announces(j))
                                      ELSE IF runner'[j] = "none" THEN Silent ELSE tell[j]
        /\ \A j \in Jobs : due'[j] = IF Enters(j) THEN active \cap alive
                                     ELSE IF runner'[j] = "none" THEN {} ELSE due[j]
        /\ DOMAIN tell' = Jobs /\ DOMAIN due' = Jobs
        /\ tell' = [j \in Jobs |-> tell'[j]] /\ due' = [j \in Jobs |-> due'[j]]
    BY DEF JobStep, WithClients
  <1>3. ASSUME NEW j \in Jobs, Enters(j)
        PROVE  Announces(j) \in Told
    <2>1. api \in {"up", "stopping"}
      <3>1. CASE api \notin {"up", "stopping"}
        <4>1. runner = NoRunner
          BY <1>1, <3>1 DEF AInv, SafeOK, RunnerNeedsApi
        <4>2. runner' = runner \/ runner' = NoRunner
          BY <1>1, <3>1 DEF Next, Lifespan, Boot, Prune, Sweep, Serve, Stopped, StartFails,
                            Shutdown,
                            Crash, Down, Create, RunnerNext, Start, Finish, Raise, Announced, Cancel
        <4> QED
          BY <1>3, <4>1, <4>2 DEF Enters
      <3> QED
        BY <3>1
    <2>2. api' \in {"up", "stopping"}
      <3>1. CASE api' \notin {"up", "stopping"}
        <4>1. runner' = NoRunner
          BY <1>1, <2>1, <3>1 DEF Next, Lifespan, Boot, Prune, Sweep, Serve, Stopped, StartFails,
                                  Shutdown,
                                  Crash, Down, Create, RunnerNext, Start, Finish, Raise, Announced,
                                  Cancel
        <4> QED
          BY <1>3, <4>1 DEF Enters, NoRunner
      <3> QED
        BY <3>1
    <2>3. JobMove(j)
      BY <1>1, <2>1, <2>2, EveryMove
    <2> QED
      BY <1>3, <2>3 DEF JobMove, Enters, Terminal, Told
  <1>4. ASSUME NEW j \in Jobs
        PROVE  tell'[j] \in TellRecord /\ due'[j] \subseteq Conns
    <2>1. tell[j] \in TellRecord /\ due[j] \subseteq Conns /\ active \subseteq Conns
      BY <1>1 DEF LiveTypeOK, TellRecord
    <2>2. Enters(j) => Telling(Announces(j)) \in TellRecord
      BY <1>3, <2>1 DEF Telling, TellRecord
    <2> QED
      BY <1>2, <2>1, <2>2, SilentTyped
  <1>5. tell' \in [Jobs -> TellRecord] /\ due' \in [Jobs -> SUBSET Conns]
    BY <1>2, <1>4
  <1>6. /\ alive' \subseteq Conns /\ active' \subseteq Conns
        /\ topics' \in [Jobs -> SUBSET Conns]
        /\ heard' \in [Conns -> [Jobs -> SUBSET Terminal]]
    <2>1. CASE api' = "down"
      BY <2>1 DEF JobStep, WithClients
    <2>2. CASE api' # "down"
      BY <1>1, <2>2 DEF JobStep, WithClients, LiveTypeOK
    <2> QED
      BY <2>1, <2>2
  <1> QED
    BY <1>2, <1>5, <1>6 DEF LiveTypeOK, TellRecord

\* A step of the jobs keeps what was told true, and no runner that ends while the
\* API serves leaves anybody untold.
LEMMA JobStepSafe ==
    ASSUME LiveInv, JobStep
    PROVE  /\ LiveSafe'
           /\ \A j \in Jobs :
                 runner[j] \in {"announcing", "reporting"} /\ runner'[j] = "none" /\ api' = "up" =>
                     \A c \in due[j] : heard[c][j] # {}
  <1>1. /\ AInv /\ LiveTypeOK /\ LiveSafe /\ Next
        /\ crashes \in Nat /\ crashes' \in Nat /\ crashes' >= crashes
        /\ runner \in [Jobs -> Runs]
    <2>1. AInv /\ LiveTypeOK /\ LiveSafe /\ Next
      BY DEF LiveInv, JobStep, WithClients
    <2>2. crashes' \in 0..MaxCrashes /\ crashes \in 0..MaxCrashes
      BY <2>1, TypeStep DEF AInv, TypeOK
    <2>3. crashes' = crashes \/ crashes' = crashes + 1
      BY <2>1 DEF Next, Lifespan, Boot, Prune, Sweep, Serve, Stopped, StartFails, Shutdown,
                  Crash, Create, RunnerNext, Start, Finish, Raise, Announced, Cancel
    <2>4. runner \in [Jobs -> Runs]
      BY <2>1 DEF AInv, TypeOK, Runs
    <2> QED
      BY <2>1, <2>2, <2>3, <2>4, LimitsAreNaturals DEF LimitsAreNaturals
  <1>2. /\ \A j \in Jobs : tell'[j] = IF Enters(j) THEN Telling(Announces(j))
                                      ELSE IF runner'[j] = "none" THEN Silent ELSE tell[j]
        /\ \A j \in Jobs : due'[j] = IF Enters(j) THEN active \cap alive
                                     ELSE IF runner'[j] = "none" THEN {} ELSE due[j]
    BY JobStepTyped
  <1>3. CASE api' \notin {"up", "stopping"}
    <2>1. /\ \A j \in Jobs : runner'[j] = "none"
          /\ \A c \in Conns, j \in Jobs : heard'[c][j] = {}
      <3>1. CASE api' = "down"
        <4>1. runner' = NoRunner
          <5>1. CASE api = "down"
            BY <1>1, <3>1, <5>1 DEF AInv, SafeOK, RunnerNeedsApi, Next, Lifespan, Boot, Prune,
                                    Sweep, Serve, Stopped, StartFails, Shutdown,
                          Crash, Down, Create, RunnerNext, Start, Finish, Raise, Announced, Cancel
          <5>2. CASE api # "down"
            BY <1>1, <3>1, <5>2 DEF Next, Lifespan, Boot, Prune, Sweep, Serve, Stopped, StartFails,
                                    Shutdown,
                          Crash, Down, Create, RunnerNext, Start, Finish, Raise, Announced, Cancel
          <5> QED
            BY <5>1, <5>2
        <4>2. heard' = [c \in Conns |-> [j \in Jobs |-> {}]]
          BY <3>1 DEF JobStep, WithClients
        <4> QED
          BY <4>1, <4>2 DEF NoRunner
      <3>2. CASE api' # "down"
        <4>1. api \notin {"up", "stopping"} /\ runner' = runner
          BY <1>1, <1>3, <3>2 DEF Next, Lifespan, Boot, Prune, Sweep, Serve, Stopped, StartFails,
                                  Shutdown,
                            Crash, Down, Create, RunnerNext, Start, Finish, Raise, Announced, Cancel
        <4>2. runner = NoRunner /\ heard' = heard
          BY <1>1, <3>2, <4>1 DEF AInv, SafeOK, RunnerNeedsApi, JobStep, WithClients
        <4> QED
          BY <1>1, <4>1, <4>2 DEF NoRunner, LiveSafe, HeardInProcess
      <3> QED
        BY <3>1, <3>2
    <2>2. \A j \in Jobs : tell'[j].stage = "none" /\ due'[j] = {}
      BY <1>2, <2>1, SilentTyped DEF Enters
    <2> QED
      BY <1>3, <2>1, <2>2 DEF LiveSafe, HeardInProcess, HeardOfEnded, TellsStored, DueOrHeard
  <1>4. CASE api \notin {"up", "stopping"} /\ api' \in {"up", "stopping"}
    <2>1. api' = "up" /\ runner' = NoRunner
      BY <1>1, <1>4 DEF AInv, SafeOK, RunnerNeedsApi, Next, Lifespan, Boot, Prune, Sweep, Serve,
                        Stopped,
                        StartFails, Shutdown, Crash, Down, Create, RunnerNext, Start, Finish, Raise,
                        Announced, Cancel
    <2>2. runner = NoRunner /\ heard' = heard
      BY <1>1, <1>4, <2>1 DEF AInv, SafeOK, RunnerNeedsApi, JobStep, WithClients
    <2>3. \A c \in Conns, j \in Jobs : heard'[c][j] = {}
      BY <1>1, <1>4, <2>2 DEF LiveSafe, HeardInProcess
    <2>4. \A j \in Jobs : runner'[j] = "none" /\ runner[j] = "none"
      BY <2>1, <2>2 DEF NoRunner
    <2>5. \A j \in Jobs : tell'[j].stage = "none" /\ due'[j] = {}
      BY <1>2, <2>4, SilentTyped DEF Enters
    <2> QED
      BY <2>1, <2>3, <2>4, <2>5 DEF LiveSafe, HeardInProcess, HeardOfEnded, TellsStored, DueOrHeard
  <1>5. CASE api \in {"up", "stopping"} /\ api' \in {"up", "stopping"}
    <2>1. UNCHANGED <<alive, active, heard>>
      BY <1>5 DEF JobStep, WithClients
    <2>2. \A j \in Jobs : JobMove(j) /\ Awaits(j)
      BY <1>1, <1>5, EveryMove DEF JobStep, WithClients
    <2>3. HeardInProcess'
      <3>1. api' = "stopping" => crashes' > 0
        <4>1. CASE api = "stopping"
          BY <1>1, <4>1 DEF LiveSafe, HeardInProcess
        <4>2. CASE api = "up" /\ api' = "stopping"
          BY <1>1, <4>2 DEF Next, Lifespan, Boot, Prune, Sweep, Serve, Stopped, StartFails,
                            Shutdown,
                            Crash, Down, Create, RunnerNext, Start, Finish, Raise, Announced, Cancel
        <4> QED
          BY <1>5, <4>1, <4>2
      <3> QED
        BY <1>5, <3>1 DEF HeardInProcess
    <2>4. ASSUME NEW c \in Conns, NEW j \in Jobs
          PROVE  /\ heard'[c][j] # {} => /\ runner'[j] \notin {"scheduled", "executing"}
                                         /\ mem'[j] \in Terminal /\ disk'[j] \in Terminal
                 /\ "COMPLETED" \in heard'[c][j] =>
                       crashes' > 0 \/ (mem'[j] = "COMPLETED" /\ disk'[j] = "COMPLETED")
                 /\ "FAILED" \in heard'[c][j] =>
                       mem'[j] = "FAILED" /\ disk'[j] = "FAILED" /\ "COMPLETED" \notin heard'[c][j]
      <3>1. /\ heard[c][j] # {} => /\ runner[j] \notin {"scheduled", "executing"}
                                   /\ mem[j] \in Terminal /\ disk[j] \in Terminal
            /\ "COMPLETED" \in heard[c][j] =>
                  crashes > 0 \/ (mem[j] = "COMPLETED" /\ disk[j] = "COMPLETED")
            /\ "FAILED" \in heard[c][j] =>
                  mem[j] = "FAILED" /\ disk[j] = "FAILED" /\ "COMPLETED" \notin heard[c][j]
        BY <1>1 DEF LiveSafe, HeardOfEnded
      <3>2. heard'[c][j] = heard[c][j]
        BY <2>1
      <3>3. api = "stopping" => crashes' > 0
        BY <1>1 DEF LiveSafe, HeardInProcess
      <3>4. heard[c][j] # {} => /\ runner[j] \notin {"scheduled", "executing"} /\ mem[j] # "ABSENT"
        BY <3>1 DEF Terminal
      <3>5. JobMove(j)
        BY <2>2
      <3> QED
        BY <1>1, <3>1, <3>2, <3>3, <3>4, <3>5 DEF JobMove, Terminal
    <2>5. ASSUME NEW j \in Jobs, tell'[j].stage # "none"
          PROVE  \/ runner'[j] = "executing" /\ tell'[j].status = "RUNNING"
                 \/ /\ runner'[j] \in {"announcing", "reporting"}
                    /\ tell'[j].status \in Terminal
                    /\ mem'[j] = tell'[j].status /\ disk'[j] = tell'[j].status
                    /\ \A c \in Conns : heard'[c][j] \subseteq {tell'[j].status}
      <3>1. CASE Enters(j)
        <4>1. tell'[j].status = Announces(j)
          <5>1. tell'[j] = Telling(Announces(j))
            BY <1>2, <3>1
          <5>2. Telling(Announces(j)).status = Announces(j)
            BY Zenon DEF Telling
          <5> QED
            BY <5>1, <5>2
        <4>2. \A c \in Conns : runner[j] \in {"scheduled", "executing"} => heard[c][j] = {}
          BY <1>1 DEF LiveSafe, HeardOfEnded
        <4>3. JobMove(j)
          BY <2>2
        <4> QED
          BY <2>1, <3>1, <4>1, <4>2, <4>3 DEF JobMove, Enters
      <3>2. CASE ~Enters(j)
        <4>1. runner'[j] # "none" /\ tell'[j] = tell[j]
          BY <1>2, <2>5, <3>2, SilentTyped
        <4>2. \/ runner[j] = "executing" /\ tell[j].status = "RUNNING"
              \/ /\ runner[j] \in {"announcing", "reporting"}
                 /\ tell[j].status \in Terminal
                 /\ mem[j] = tell[j].status /\ disk[j] = tell[j].status
                 /\ \A c \in Conns : heard[c][j] \subseteq {tell[j].status}
          BY <1>1, <2>5, <4>1 DEF LiveSafe, TellsStored
        <4>3. runner'[j] = runner[j] /\ mem'[j] = mem[j] /\ disk'[j] \in {disk[j], mem[j]}
          BY <2>2, <3>2, <4>1, <4>2 DEF JobMove, Enters
        <4> QED
          BY <2>1, <4>1, <4>2, <4>3
      <3> QED
        BY <3>1, <3>2
    <2>6. ASSUME NEW j \in Jobs, NEW c \in due'[j]
          PROVE  /\ c \in alive'
                 /\ runner'[j] \in {"announcing", "reporting"} /\ heard'[c][j] = {} =>
                       tell'[j].stage = "all" /\ c \in tell'[j].left
      <3>1. CASE Enters(j)
        <4>1. tell'[j] = Telling(Announces(j)) /\ c \in active \cap alive
          BY <1>2, <2>6, <3>1
        <4>2. Telling(Announces(j)).stage = "all" /\ Telling(Announces(j)).left = active
          BY Zenon DEF Telling
        <4> QED
          BY <2>1, <4>1, <4>2
      <3>2. CASE ~Enters(j)
        <4>1. runner'[j] # "none" /\ c \in due[j] /\ tell'[j] = tell[j]
          BY <1>2, <2>6, <3>2
        <4>2. runner'[j] \in {"announcing", "reporting"} => runner'[j] = runner[j]
          BY <3>2 DEF Enters
        <4> QED
          BY <1>1, <2>1, <4>1, <4>2 DEF LiveSafe, DueOrHeard
      <3> QED
        BY <3>1, <3>2
    <2>7. ASSUME NEW j \in Jobs, runner[j] \in {"announcing", "reporting"}, runner'[j] = "none", api' = "up",
                 NEW c \in due[j]
          PROVE  heard[c][j] # {}
      <3>1. tell[j] = Silent
        BY <2>2, <2>7 DEF Awaits
      <3> QED
        BY <1>1, <2>7, <3>1, SilentTyped DEF LiveSafe, DueOrHeard
    <2> QED
      BY <2>3, <2>4, <2>5, <2>6, <2>7 DEF LiveSafe, HeardOfEnded, TellsStored, DueOrHeard
  <1>6. ASSUME NEW j \in Jobs, runner[j] \in {"announcing", "reporting"}, api' = "up", api \notin {"up", "stopping"}
        PROVE  FALSE
    BY <1>1, <1>6 DEF AInv, SafeOK, RunnerNeedsApi, NoRunner
  <1> QED
    BY <1>3, <1>4, <1>5, <1>6

-----------------------------------------------------------------------------
\* The steps of the clients and of the tellings: the jobs stand still.

\* A connection that is sent the outcome of a job hears what is stored.
LEMMA Hearing ==
    ASSUME LiveInv, UNCHANGED vars, api \in {"up", "stopping"},
           NEW j \in Jobs, NEW c \in Conns, tell[j].stage # "none", Hears(c, j)
    PROVE  /\ HeardInProcess' /\ HeardOfEnded'
           /\ \A d \in Conns, k \in Jobs : heard[d][k] \subseteq heard'[d][k]
           /\ runner[j] \in {"announcing", "reporting"} =>
                 heard'[c][j] # {} /\ \A d \in Conns : heard'[d][j] \subseteq {tell[j].status}
           /\ \A d \in Conns, k \in Jobs : k # j => heard'[d][k] = heard[d][k]
  <1>1. LiveTypeOK /\ LiveSafe
    BY DEF LiveInv
  <1>2. /\ heard'[c][j] = heard[c][j] \cup ({tell[j].status} \cap Terminal)
        /\ \A d \in Conns, k \in Jobs : d # c \/ k # j => heard'[d][k] = heard[d][k]
    BY <1>1, HearsTyped
  <1>3. /\ mem' = mem /\ disk' = disk /\ runner' = runner /\ api' = api /\ crashes' = crashes
    BY DEF vars
  <1>4. HeardInProcess'
    BY <1>1, <1>3 DEF LiveSafe, HeardInProcess
  <1>5. CASE runner[j] = "executing" /\ tell[j].status = "RUNNING"
    <2>1. \A d \in Conns, k \in Jobs : heard'[d][k] = heard[d][k]
      BY <1>2, <1>5 DEF Terminal
    <2> QED
      BY <1>1, <1>3, <1>4, <1>5, <2>1 DEF LiveSafe, HeardOfEnded
  <1>6. CASE /\ runner[j] \in {"announcing", "reporting"}
             /\ tell[j].status \in Terminal
             /\ mem[j] = tell[j].status /\ disk[j] = tell[j].status
             /\ \A d \in Conns : heard[d][j] \subseteq {tell[j].status}
    <2>1. heard'[c][j] = {tell[j].status}
      BY <1>2, <1>6
    <2>2. HeardOfEnded'
      BY <1>1, <1>2, <1>3, <1>6, <2>1 DEF LiveSafe, HeardOfEnded, Terminal
    <2> QED
      BY <1>2, <1>4, <1>6, <2>1, <2>2
  <1> QED
    BY <1>1, <1>5, <1>6 DEF LiveSafe, TellsStored

\* Steps that tell nobody anything: nothing was taken back, and nobody was due.
LEMMA Unheard ==
    ASSUME LiveInv, UNCHANGED <<vars, tell, heard>>, alive \subseteq alive', due' = due
    PROVE  LiveSafe'
  <1>1. LiveSafe
    BY DEF LiveInv
  <1>2. /\ mem' = mem /\ disk' = disk /\ runner' = runner /\ api' = api /\ crashes' = crashes
        /\ tell' = tell /\ heard' = heard
    BY DEF vars
  <1> QED
    BY <1>1, <1>2 DEF LiveSafe, HeardInProcess, HeardOfEnded, TellsStored, DueOrHeard

LEMMA ClientSafe ==
    ASSUME LiveInv, ClientStep
    PROVE  LiveTypeOK' /\ LiveSafe'
  <1>1. LiveTypeOK /\ LiveSafe /\ UNCHANGED vars
    BY ClientsWatch DEF LiveInv
  <1>2. ASSUME NEW c \in Conns, Connect(c)
        PROVE  LiveTypeOK' /\ LiveSafe'
    BY <1>1, <1>2, Unheard DEF Connect, LiveTypeOK
  <1>3. ASSUME NEW c \in Conns, NEW j \in Jobs, Subscribe(c, j)
        PROVE  LiveTypeOK' /\ LiveSafe'
    BY <1>1, <1>3, Unheard DEF Subscribe, LiveTypeOK
  <1>4. ASSUME NEW c \in Conns, Disconnect(c)
        PROVE  LiveTypeOK' /\ LiveSafe'
    BY <1>1, <1>4, Unheard DEF Disconnect, Dropped, LiveTypeOK
  <1>5. ASSUME NEW c \in Conns, Close(c)
        PROVE  LiveTypeOK' /\ LiveSafe'
    <2>1. /\ \A j \in Jobs : heard'[c][j] = {} /\ due'[j] = due[j] \ {c}
          /\ \A d \in Conns \ {c} : heard'[d] = heard[d]
          /\ alive' = alive \ {c} /\ tell' = tell
          /\ mem' = mem /\ disk' = disk /\ runner' = runner /\ api' = api /\ crashes' = crashes
      BY <1>1, <1>5 DEF Close, LiveTypeOK, vars
    <2>2. LiveTypeOK'
      BY <1>1, <1>5 DEF Close, LiveTypeOK
    <2>3. HeardInProcess' /\ TellsStored'
      BY <1>1, <2>1 DEF LiveSafe, HeardInProcess, TellsStored
    <2>4. HeardOfEnded'
      BY <1>1, <2>1 DEF LiveSafe, HeardOfEnded
    <2>5. DueOrHeard'
      <3>1. \A j \in Jobs : due[j] \subseteq Conns
        BY <1>1 DEF LiveTypeOK
      <3> QED
        BY <1>1, <2>1, <3>1 DEF LiveSafe, DueOrHeard
    <2> QED
      BY <2>2, <2>3, <2>4, <2>5 DEF LiveSafe
  <1> QED
    BY <1>2, <1>3, <1>4, <1>5 DEF ClientStep

LEMMA TellingSafe ==
    ASSUME LiveInv, NEW j \in Jobs, Tells(j)
    PROVE  LiveTypeOK' /\ LiveSafe'
  <1>1. LiveTypeOK /\ LiveSafe /\ UNCHANGED vars /\ \A k \in Jobs : due[k] \subseteq Conns
    BY ClientsWatch DEF LiveInv, LiveTypeOK
  <1>2. /\ mem' = mem /\ disk' = disk /\ runner' = runner /\ api' = api /\ crashes' = crashes
    BY <1>1 DEF vars
  <1>3. ASSUME NEW c \in Conns, Send(j, c)
        PROVE  LiveTypeOK' /\ LiveSafe'
    <2>1. /\ tell' \in [Jobs -> TellRecord]
          /\ \A k \in Jobs \ {j} : tell'[k] = tell[k]
          /\ tell'[j].stage = "all" /\ tell'[j].status = tell[j].status
          /\ tell'[j].left = tell[j].left \ {c}
      BY <1>1, <1>3, SendKeeps
    <2>2. /\ api \in {"up", "stopping"} /\ tell[j].stage = "all"
          /\ UNCHANGED <<alive, active, topics, due>>
          /\ IF c \in alive THEN Hears(c, j) ELSE heard' = heard
      BY <1>3 DEF Send
    <2>3. /\ HeardInProcess' /\ HeardOfEnded'
          /\ heard' \in [Conns -> [Jobs -> SUBSET Terminal]]
          /\ \A d \in Conns, k \in Jobs : heard[d][k] \subseteq heard'[d][k]
          /\ runner[j] \in {"announcing", "reporting"} => \A d \in Conns : heard'[d][j] \subseteq {tell[j].status}
          /\ \A d \in Conns, k \in Jobs : k # j => heard'[d][k] = heard[d][k]
          /\ runner[j] \in {"announcing", "reporting"} /\ c \in alive => heard'[c][j] # {}
      <3>1. CASE c \in alive
        BY <1>1, <2>2, <3>1, Hearing, HearsTyped
      <3>2. CASE c \notin alive
        BY <1>1, <1>2, <2>2, <3>2 DEF LiveTypeOK, LiveSafe, HeardInProcess, HeardOfEnded,
                                      TellsStored
      <3> QED
        BY <3>1, <3>2
    <2>4. LiveTypeOK'
      BY <1>1, <2>1, <2>2, <2>3 DEF LiveTypeOK, TellRecord
    <2>5. TellsStored'
      <3>1. \A k \in Jobs : tell'[k].status = tell[k].status
                           /\ (tell'[k].stage # "none" => tell[k].stage # "none")
        BY <2>1, <2>2
      <3>2. \A k \in Jobs :
              tell[k].stage # "none" =>
                  \/ runner[k] = "executing" /\ tell[k].status = "RUNNING"
                  \/ /\ runner[k] \in {"announcing", "reporting"}
                     /\ tell[k].status \in Terminal
                     /\ mem[k] = tell[k].status /\ disk[k] = tell[k].status
                     /\ \A d \in Conns : heard'[d][k] \subseteq {tell[k].status}
        <4> SUFFICES ASSUME NEW k \in Jobs, tell[k].stage # "none", runner[k] # "executing"
                     PROVE  /\ runner[k] \in {"announcing", "reporting"}
                            /\ tell[k].status \in Terminal
                            /\ mem[k] = tell[k].status /\ disk[k] = tell[k].status
                            /\ \A d \in Conns : heard'[d][k] \subseteq {tell[k].status}
          BY <1>1 DEF LiveSafe, TellsStored
        <4>1. /\ runner[k] \in {"announcing", "reporting"}
              /\ tell[k].status \in Terminal
              /\ mem[k] = tell[k].status /\ disk[k] = tell[k].status
              /\ \A d \in Conns : heard[d][k] \subseteq {tell[k].status}
          BY <1>1 DEF LiveSafe, TellsStored
        <4>2. \A d \in Conns : heard'[d][k] \subseteq {tell[k].status}
          <5>1. CASE k = j
            BY <2>3, <4>1, <5>1
          <5>2. CASE k # j
            BY <2>3, <4>1, <5>2
          <5> QED
            BY <5>1, <5>2
        <4> QED
          BY <4>1, <4>2
      <3> QED
        BY <1>2, <3>1, <3>2 DEF TellsStored
    <2>6. DueOrHeard'
      BY <1>1, <1>2, <2>1, <2>2, <2>3 DEF LiveSafe, DueOrHeard
    <2> QED
      BY <2>3, <2>4, <2>5, <2>6 DEF LiveSafe
  <1>4. ASSUME NEW c \in Conns, SendTopic(j, c)
        PROVE  LiveTypeOK' /\ LiveSafe'
    <2>1. /\ tell' \in [Jobs -> TellRecord]
          /\ \A k \in Jobs \ {j} : tell'[k] = tell[k]
          /\ tell'[j].stage = "topic" /\ tell'[j].status = tell[j].status
      BY <1>1, <1>4, SendTopicKeeps
    <2>2. /\ api \in {"up", "stopping"} /\ tell[j].stage = "topic"
          /\ UNCHANGED <<alive, due>>
          /\ active' \subseteq Conns /\ topics' \in [Jobs -> SUBSET Conns]
          /\ Hears(c, j) \/ heard' = heard
      BY <1>1, <1>4 DEF SendTopic, Dropped, LiveTypeOK
    <2>3. /\ HeardInProcess' /\ HeardOfEnded'
          /\ heard' \in [Conns -> [Jobs -> SUBSET Terminal]]
          /\ \A d \in Conns, k \in Jobs : heard[d][k] \subseteq heard'[d][k]
          /\ runner[j] \in {"announcing", "reporting"} => \A d \in Conns : heard'[d][j] \subseteq {tell[j].status}
          /\ \A d \in Conns, k \in Jobs : k # j => heard'[d][k] = heard[d][k]
      <3>1. CASE Hears(c, j)
        BY <1>1, <2>2, <3>1, Hearing, HearsTyped
      <3>2. CASE heard' = heard
        BY <1>1, <1>2, <2>2, <3>2 DEF LiveTypeOK, LiveSafe, HeardInProcess, HeardOfEnded,
                                      TellsStored
      <3> QED
        BY <2>2, <3>1, <3>2
    <2>4. LiveTypeOK'
      BY <1>1, <2>1, <2>2, <2>3 DEF LiveTypeOK, TellRecord
    <2>5. TellsStored'
      <3>1. \A k \in Jobs : tell'[k].status = tell[k].status
                           /\ (tell'[k].stage # "none" => tell[k].stage # "none")
        BY <2>1, <2>2
      <3>2. \A k \in Jobs :
              tell[k].stage # "none" =>
                  \/ runner[k] = "executing" /\ tell[k].status = "RUNNING"
                  \/ /\ runner[k] \in {"announcing", "reporting"}
                     /\ tell[k].status \in Terminal
                     /\ mem[k] = tell[k].status /\ disk[k] = tell[k].status
                     /\ \A d \in Conns : heard'[d][k] \subseteq {tell[k].status}
        <4> SUFFICES ASSUME NEW k \in Jobs, tell[k].stage # "none", runner[k] # "executing"
                     PROVE  /\ runner[k] \in {"announcing", "reporting"}
                            /\ tell[k].status \in Terminal
                            /\ mem[k] = tell[k].status /\ disk[k] = tell[k].status
                            /\ \A d \in Conns : heard'[d][k] \subseteq {tell[k].status}
          BY <1>1 DEF LiveSafe, TellsStored
        <4>1. /\ runner[k] \in {"announcing", "reporting"}
              /\ tell[k].status \in Terminal
              /\ mem[k] = tell[k].status /\ disk[k] = tell[k].status
              /\ \A d \in Conns : heard[d][k] \subseteq {tell[k].status}
          BY <1>1 DEF LiveSafe, TellsStored
        <4>2. \A d \in Conns : heard'[d][k] \subseteq {tell[k].status}
          <5>1. CASE k = j
            BY <2>3, <4>1, <5>1
          <5>2. CASE k # j
            BY <2>3, <4>1, <5>2
          <5> QED
            BY <5>1, <5>2
        <4> QED
          BY <4>1, <4>2
      <3> QED
        BY <1>2, <3>1, <3>2 DEF TellsStored
    <2>6. DueOrHeard'
      BY <1>1, <1>2, <2>1, <2>2, <2>3 DEF LiveSafe, DueOrHeard
    <2> QED
      BY <2>3, <2>4, <2>5, <2>6 DEF LiveSafe
  <1>5. CASE TurnToTopic(j)
    <2>1. /\ tell' \in [Jobs -> TellRecord]
          /\ topics' \in [Jobs -> SUBSET Conns] /\ active' \subseteq Conns
          /\ \A k \in Jobs \ {j} : tell'[k] = tell[k]
          /\ tell'[j].stage = "topic" /\ tell'[j].status = tell[j].status
      BY <1>1, <1>5, TurnKeeps
    <2>2. tell[j].stage = "all" /\ tell[j].left = {} /\ UNCHANGED <<alive, due, heard>>
      BY <1>5 DEF TurnToTopic
    <2>3. LiveTypeOK'
      BY <1>1, <2>1, <2>2 DEF LiveTypeOK, TellRecord
    <2>4. HeardInProcess' /\ HeardOfEnded' /\ TellsStored'
      BY <1>1, <1>2, <2>1, <2>2 DEF LiveSafe, HeardInProcess, HeardOfEnded, TellsStored
    <2>5. DueOrHeard'
      BY <1>1, <1>2, <2>1, <2>2 DEF LiveSafe, DueOrHeard
    <2> QED
      BY <2>3, <2>4, <2>5 DEF LiveSafe
  <1>6. CASE EndTelling(j)
    <2>1. /\ tell' \in [Jobs -> TellRecord]
          /\ \A k \in Jobs \ {j} : tell'[k] = tell[k]
          /\ tell'[j].stage = "none"
      BY <1>1, <1>6, EndKeeps
    <2>2. tell[j].stage = "topic" /\ UNCHANGED <<alive, active, topics, due, heard>>
      BY <1>6 DEF EndTelling
    <2>3. LiveTypeOK'
      BY <1>1, <2>1, <2>2 DEF LiveTypeOK, TellRecord
    <2>4. HeardInProcess' /\ HeardOfEnded' /\ TellsStored'
      BY <1>1, <1>2, <2>1, <2>2 DEF LiveSafe, HeardInProcess, HeardOfEnded, TellsStored
    <2>5. DueOrHeard'
      BY <1>1, <1>2, <2>1, <2>2 DEF LiveSafe, DueOrHeard
    <2> QED
      BY <2>3, <2>4, <2>5 DEF LiveSafe
  <1> QED
    BY <1>3, <1>4, <1>5, <1>6 DEF Tells

-----------------------------------------------------------------------------
ToldStep ==
    \A j \in Jobs :
        runner[j] \in {"announcing", "reporting"} /\ runner'[j] = "none" /\ api' = "up" =>
            \A c \in due[j] : heard[c][j] # {}

LEMMA LiveStep ==
    ASSUME LiveInv, [LiveNext]_liveVars
    PROVE  LiveInv' /\ [ToldStep]_liveVars
  <1>1. AInv'
    BY JobsStep, SafeStep DEF LiveInv
  <1>2. CASE JobStep
    BY <1>1, <1>2, JobStepTyped, JobStepSafe DEF LiveInv, ToldStep
  <1>3. CASE ClientStep \/ \E j \in Jobs : Tells(j)
    <2>1. LiveTypeOK' /\ LiveSafe'
      BY <1>3, ClientSafe, TellingSafe
    <2>2. runner' = runner
      BY <1>3, ClientsWatch DEF vars
    <2> QED
      BY <1>1, <2>1, <2>2 DEF LiveInv, ToldStep
  <1>4. CASE UNCHANGED liveVars
    <2>1. /\ UNCHANGED vars /\ alive' = alive /\ active' = active /\ topics' = topics /\ tell' = tell
          /\ due' = due /\ heard' = heard
      BY <1>4 DEF liveVars, live
    <2>2. LiveSafe'
      BY <2>1, Unheard
    <2>3. LiveTypeOK'
      BY <2>1 DEF LiveInv, LiveTypeOK
    <2> QED
      BY <1>1, <1>4, <2>2, <2>3 DEF LiveInv
  <1> QED
    BY <1>2, <1>3, <1>4 DEF LiveNext

\* What clients were told, and what runners are telling, agrees with memory and
\* file in every state.
THEOREM LiveInvariance == LiveSpec => []LiveInv
  <1>1. LiveInit => LiveInv
    <2> SUFFICES ASSUME LiveInit
                 PROVE  LiveInv
      OBVIOUS
    <2>1. AInv /\ api = "down"
      BY SafeInit DEF LiveInit, Init
    <2>2. \A j \in Jobs : tell[j] = Silent /\ due[j] = {}
      BY DEF LiveInit
    <2>3. LiveTypeOK
      BY SilentTyped DEF LiveInit, LiveTypeOK, TellRecord
    <2>4. LiveSafe
      BY <2>1, <2>2, SilentTyped
         DEF LiveInit, LiveSafe, HeardInProcess, HeardOfEnded, TellsStored, DueOrHeard
    <2> QED
      BY <2>1, <2>3, <2>4 DEF LiveInv
  <1>2. LiveInv /\ [LiveNext]_liveVars => LiveInv'
    BY LiveStep
  <1> QED
    BY <1>1, <1>2, PTL DEF LiveSpec

\* What a client was told is what the file says, for any number of clients, jobs,
\* crashes and saves that raise.
THEOREM TruthfulNews == LiveSpec => []HeardIsStored
  <1>1. LiveInv => HeardIsStored
    <2> SUFFICES ASSUME LiveInv, NEW c \in Conns, NEW j \in Jobs
                 PROVE  /\ "COMPLETED" \in heard[c][j] =>
                              disk[j] \in {"COMPLETED", "ABSENT"} \/ (disk[j] = "FAILED" /\ crashes > 0)
                        /\ "FAILED" \in heard[c][j] =>
                              disk[j] \in {"FAILED", "ABSENT"} /\ "COMPLETED" \notin heard[c][j]
      BY DEF HeardIsStored
    <2> QED
      BY DEF LiveInv, LiveSafe, HeardOfEnded, Terminal
  <1> QED
    BY <1>1, LiveInvariance, PTL

\* A runner that is done has told everybody who was there when it began to tell
\* the outcome and still is, whoever else came, closed or failed meanwhile.
THEOREM Everybody == LiveSpec => EverybodyHears
  <1>1. LiveInv /\ [LiveNext]_liveVars => [ToldStep]_liveVars
    BY LiveStep
  <1>2. LiveSpec => [][ToldStep]_liveVars
    BY <1>1, LiveInvariance, PTL DEF LiveSpec
  <1> QED
    BY <1>2 DEF EverybodyHears, ToldStep
=============================================================================
