# Formal models of IND-Diplomat

TLA+ models of IND-Diplomat: the two job stores and the processes that share
them, the assessment behind `execute()` from the feeds to the safety enforcer,
the orchestrated investigation, the debate over the message bus, the WebSocket
clients, the stores an assessment leaves behind, and the tools that validate it
all. TLC checks each model on a small instance; TLAPS proves the main safety
properties for every value of the constants. Paths below are relative to
`src/dip/` unless they start with `docs/`, `docker/`, `scripts/` or `tests/`.

1. [The system](#1-the-system)
2. [The modules](#2-the-modules)
3. [The runs](#3-the-runs)
4. [The proofs](#4-the-proofs)
5. [What the models say about the code](#5-what-the-models-say-about-the-code)
6. [Not modelled](#6-not-modelled)

## 1. The system

IND-Diplomat takes a question about a country's posture, collects signals about
it, lets a council of model-backed ministers reason over them, and answers with
a graded assessment or with the reasons why none is released.

    browser / client ----- WebSocket ------ api/ws/
       |  POST /api/v3/assess          POST /api/v3/analyst-jobs
       v                               v
    api/rest_api.py (one FastAPI process)
       |  _run_assessment_job          run_job_background      scripts/analyst_worker.py
       |        |                            |                  (0..n processes)
       |  engines/job_store.py         api/analyst/job_store.py <-- claim, update --+
       |        |                            |  JSON file + flock
       v        v                            v
    unified_pipeline.execute()            same pipeline      engines/SystemGuardian
       feeds, signals, score, research       |                  (1 process, reads and
       loop, council, red team, CRAG,        |                  writes the same file)
       synthesis, verification, gate,        v
       forecast, briefing, guardrails,    JSON, JSONL, markdown, SQLite stores
       narrative, enforcer

    investigate.py (MasterOrchestrator)     pipeline/deliberation (message bus)
       plan, collect, review, reason, ...      specialists, Contrarian, verification,
       over investigations/<id>/ and           deterministic gate
       a SQLite index

### Inventory

| Part | State | Operations | What is hard | What makes it correct | Modelled by |
|---|---|---|---|---|---|
| Analyst job store and its processes: `api/analyst/job_store.py`, `api/rest_api.py`, `scripts/analyst_worker.py`, `engines/SystemGuardian/` | a JSON file, one copy of it in each process, runner tasks | create, claim, update, prune, mark_interrupted, list; start, poll, stop; the guardian's check and clearing | processes that share a file, writes that fail half-way, crashes, a writer without the lock, a stale copy | one runner for a job, a shown result is stored, a result is final, jobs end | `JobLedger`, `AnalystJobs` |
| Assessment job store and runner: `engines/job_store.py`, `api/rest_api.py` | a JSON file, one copy, a runner for each job | create, mark_running, mark_complete, mark_error, list, prune; the restart sweep, shutdown | cancellation at each await, a save that fails in a try block or in its handler, restarts, a limited list | what is shown as COMPLETED is stored with its result, an active job has a runner, a job moves along the lifecycle, accepted jobs end | `AssessmentJobs` |
| WebSocket manager: `api/ws/` | connections, topics | connect, subscribe, broadcast, publish_topic, disconnect | connections that come and go while a broadcast awaits its sends | whoever was there hears the outcome, and it is the stored one | `LiveUpdates` |
| Collection: `pipeline/collection/` | sources, counts, budgets, the bundle | select, query, collect, steer, validate; the search cascade and the feeds' deadline | services that fail or are slow, a loop with three ends | rounds stay in the budget, collection ends | `Collection`, `Feeds` |
| Investigation lifecycle: `investigate.py`, `core/investigation_store.py`, `pipeline/memory/core/investigation_memory.py`, `hitl/` | the record, its timeline, a SQLite row, the object the nodes pass on | the nodes, transition, resume, feedback, traces | three writers of one file, a crash between two writes, refused transitions | the stores agree, feedback is not lost, a run ends | `Investigation` |
| Research loop: `runtime/control_loop/` | counts of evidence, round, previous score, plateau count | evaluate, stop (ready, plateau, exhausted), send an RFI, take in its answer | termination, a plateau rule against an open gap | the loop ends, readiness never falls, no plateau with a gap open | `Readiness`, `ResearchLoop` |
| Knowledge and scoring: `pipeline/knowledge/`, `pipeline/world_model/`, `engines/sre.py` | signals, beliefs, their history, trends, the score | extract, accumulate, record, trend, project, fuse, index | merging, capping and fusing by different keys, a firewall with several ways round it | more evidence never calms, legal material has one way in | `Scoring` |
| Council: `unified_pipeline.py`, `pipeline/deliberation/reasoning/ministers/`, `pipeline/deliberation/deliberation/` (red team, CRAG), `verifier.py` | the hypotheses, the gaps, the red team's report, the verdict | baseline, ministers, experts, arbiter, merge, challenge, investigate gaps, decide again, verify | seven authors over one table, any of which may fail | bands survive the merge, a verified assessment is grounded, the council ends | `Cabinet`, `Council` |
| Assessment pipeline: `unified_pipeline.py`, `pipeline/synthesis/`, `pipeline/forecasting/`, `engines/symbolic_guardrails.py`, `engines/briefing.py`, `engines/safety_enforcer.py`, `runtime/investigation/hitl.py` | `result["status"]`, the session, the records kept of it | the steps of `execute()` | five steps write one status, each may raise, each reads what an earlier one left | what is released passed every check and agrees with its records | `Disposition`, `Outlook`, `Pipeline` |
| Deliberation bus and debate: `pipeline/deliberation/reasoning/` | memory, queue, ledger, calls under way | publish, deliver, the handlers, the waits, the gate, stop | late and failed models, order across a queue and tasks, timeouts | the strongest hypothesis is attacked, a release is on record, a debate ends | `Groupthink`, `Deliberation` |
| Learning stores: `pipeline/memory/core/`, `pipeline/world_model/state/working_memory.py`, `pipeline/deliberation/reasoning/introspection.py` | four JSON files rewritten in place, a log, documents and an index | load, change, save, append | lost updates between processes, torn and half-done rewrites, a failure between two stores | an entry is lost only to an overlap or a fault, the stores tell one story | `Archives` |
| Backtesting and calibration: `pipeline/memory/backtesting/`, `pipeline/deliberation/reasoning/` (trajectories, calibration, ablation), `scripts/run_validation_suite.py`, `engines/latency_dashboard.py` | the environment, patched modules, agents' records, reports | suite, ablation, benchmark, study, replay, calibration loop | a stub left behind by an execution that raises, the same statistic by different code | the metrics agree, a report says what ran | `Metrics`, `Trajectories`, `Validation` |
| LLM clients and telemetry | network clients | calls | outages, canned answers | - | in part, as choices of `Council`, `Pipeline`, `Investigation` |
| Legal retrieval, exporters, collaboration, enterprise, ecosystem, adaptive packages, frontend, deployment | - | - | - | - | not modelled, see section 6 |

Of the 392 modules of `src/dip`, 143 are reachable by imports from the API, the
worker, the guardian and the command line: 16,808 of 33,721 lines. The models
are about those, and about what is started by hand: the orchestrated investigation
(`investigate.py`), the debate (`run_replay.py`, `run_backtest.py`) and the tools of
validation.

`PROJECT.json` has the same list under "components", and under "hazards" what is
hard to test in this code, each at its line, with the properties that watch it.

## 2. The modules

| Module | Extends or instantiates | Models |
|---|---|---|
| `JobLedger` | - | the abstract specification of a job store: jobs, exclusive claims, reports by the holder |
| `AnalystJobs` | `JobLedger` by refinement | the analyst store, the API, the workers, the runners and the guardian over one file |
| `AssessmentJobs` | - | the assessment store with lifespan, the endpoint and the runners |
| `LiveUpdates` | `AssessmentJobs` | the assessment jobs composed with the clients that follow them |
| `Readiness`, `ResearchLoop` | the second extends the first | the score of the evidence and the loop of the investigation controller |
| `Disposition`, `Outlook` | the second extends the first | the rules that grade, release or hold; decay, trajectory, black swans, the briefing's reading of them |
| `Pipeline` | `ResearchLoop`, `Outlook` | one call of `execute()` |
| `Feeds`, `Scoring` | the second extends the first | what the feeds bring, and the way from reports to a score |
| `Cabinet`, `Council` | `Council` extends `Cabinet`, `Scoring` | the ministers, and what the council makes of scored signals |
| `Collection`, `Investigation` | the second extends the first | adaptive collection, inside one run of an investigation |
| `Groupthink`, `Deliberation` | the second extends the first | one debate over the message bus |
| `Archives` | - | the stores of an assessment, in several processes |
| `Metrics`, `Trajectories`, `Validation` | the third extends both | statistics, projections, and the tools that use them |
| `MCAnalystJobs`, `MCArchives`, `MCCouncil`, `MCDeliberation`, `MCInvestigation`, `MCPipeline`, `MCValidation` | the module of the name | the values of its constants, symmetry, a view |
| `AnalystJobs_proofs`, `Archives_proofs`, `Council_proofs`, `Deliberation_proofs`, `Investigation_proofs`, `LiveUpdates_proofs`, `Pipeline_proofs`, `Validation_proofs` | the module of the name, TLAPS | the theorems of section 4; those about `AssessmentJobs` are the first half of `LiveUpdates_proofs` |

Definitions whose comment starts with "Mutant:" are bugs a maintainer could make.
No specification uses them; they stand before the definition they would replace,
and each is paired in `PROJECT.json` with a property that fails under it.

### AnalystJobs

State. `disk` is the file, `mem[p]` the `_jobs` of process p, `tasks` the asyncio
tasks that run a job, with the point of `run_job_background` they are at, `todo[w]`
the rest of a worker's tick, `pending` the requests between `create_job` and
`claim_job`, `snapshot` what the guardian read and will write.

Steps. A mutation of the store takes an asyncio lock and an flock, reloads the
file, changes its copy and writes it back without an await, so it is one step
(`Saved`, `SaveFails`). `update_job` rolls back when the write fails
(`UpdateFails`); the other mutations do not (`ClaimFails`, and the second
alternative of `CreateJob`). The endpoint is two steps, `CreateJob` and
`ApiClaim`, because it awaits between them. `Poll` reads memory, as `list_jobs`
does. The guardian takes no lock: `GuardianCheck`, `GuardianRead` and
`GuardianWrite` are three steps with everybody else's in between. `ApiCrash` and
`WorkerCrash` are deaths as well as shutdowns: a cancelled runner stores nothing.

Left out: the payload of a job, timestamps (any finished job may be old enough
to prune, any RUNNING one old enough to be stuck), the 200-job limit of `list_jobs`.

### AssessmentJobs

State. `disk` and `mem` have the statuses, `stored` and `results` say which jobs have a
`result` in the file and in memory, `runner[j]` is the await a runner is at (scheduled,
executing the pipeline, announcing a result, reporting an error), `sweep` what start-up has
left to fail. The store is used by one process and never awaits, so its
operations are single steps. Each changes memory and then saves all of it; a save that
raises leaves memory changed (`SaveRaises`). Inside the try block the `except` handles
that in the same step (`Errs`): `mark_error` sets the status, keeps the result that
`mark_complete` put in memory, and saves, which stores the result after all
(`SavesAfterRaise`) or raises again (`SaveRaisesTwice`). `Cancel` is what shutdown does to a runner
at each of its awaits; `Crash` is a death without any of it. `ListLimit` stands
for the 100 of `list()`.

### LiveUpdates

The composition: every step is a step of `AssessmentJobs` with what it tells, or a
step of the clients. `tell[j]` is the broadcast of a job's runner, first over a
snapshot of all connections, then over one of the topic's subscribers, one send per
step with an await after it; `alive` says whose peer is there, so that a send may
raise and the connection be dropped after the loop. `due[j]` records who was there
when an outcome began to be told and still is, `heard` what each was told; both are
history, read by the properties only. A runner whose telling is under way does not
move on, and one that is cancelled tells nothing more.

Left out: the document socket (Yjs), and the progress messages of `execute()`, which
are tasks of their own, carry no outcome and may arrive after it.

### Readiness and ResearchLoop

`evidence` holds the counts the score reads. Every weighted term of
`readiness_engine.py` is a multiple of half a point, so the score is a whole number
of half points and no rounding is involved. An action is one way through one
evaluation of `run_loop` (`StopReady`, `StopOnPlateau`, `StopExhausted`,
`RequestInformation`) or the intake of an RFI's answer (`Gather`). The counts are
forgotten when the loop ends, since no later step reads them.

Left out: what the signals say, and contradictions, which no caller fills. A gain
of exactly 1.0 points counts as a plateau here as in the code; that the sum of
floats might miss 1.0 by rounding is abstracted.

### Disposition, Outlook and Pipeline

`phase` is the next step of `execute()`, `status` is `result["status"]`, `session`
the `CouncilSession`, `result` the fields of the answer that a later step or a
reader uses, with what the audit log and the archive have kept. Scores count
thousandths, the precision to which the code rounds; where it keeps a float a
product is cut. Each action is one step of the function in its order: `Reason`,
`Synthesize` and `SynthesizeAgain` (the second `decide()`, after a disagreement),
`Verify`, `Finalize`, `Gate`, `Forecast`, `Store`, `Brief`, `Guard`, `Narrate`,
`Enforce`. A step in a try of its own may leave its output unset; any other may raise
(`Fail`), and then only the enforcer runs. Trajectory, black swan detector and enforcer
may raise too, and that is logged and passed over: `Forecast` may leave the trajectory or
the black swans out (`screened` says whether the detector answered), `Enforce` may leave
`safety` unset, and the status stays as it was. A blank query is refused before all of
this (`RefuseBlank`) and never gets to the enforcer.

`Disposition` has the rules: the heuristic rail of each threat dimension and its
clipping, refusal, review, the gate's five rules, the guardrails with the optional
solvers, the enforcer's patterns. `Outlook` has what is computed for later readers:
blind spots and decay, velocity and the trajectory, the black swan channels,
pressures, options and posture.

Left out: the values the council, the verifier and the SRE compute (here any of a set
that stands on both sides of each threshold; `Council` computes them), the effect of a
step that raises half-way (only the enforcer runs after it, and it reads none of that),
progress messages, and the contents of the stores (`Archives` has them).

### Feeds and Scoring

`Feeds` is a function of what each outside service does: find something or not,
at once or only when its whole time is up. It follows the search cascade with the
time it grants each provider, the observations the cascade makes up when all fail, the
optional feeds that run beside it, and the integrator's deadline, after which all
is dropped. `Scoring` follows a report from there to a score. `signals` are what the
extractor made, `beliefs` their supports after merging, `trends` what the belief history
says about each, and the score is the SRE's index. The actions are the order of
`execute()`: `Extract`, `Seed`, `Build`, `TakeAnswer` (an RFI's), `Score`. Numbers are
percents, products ten-thousandths, cut where the code rounds.

Left out: the text a report is parsed from, dates inside one collection, and the table of
source reliabilities, which is never consulted (section 5).

### Cabinet and Council

`Cabinet` tabulates what the seven ministers ask for and miss. `hypotheses` is the table
of authors and their confidences, with whether a signal was matched and which
categories are still missed. `turn` walks the bench: each minister answers or fails
(`MinisterSpeaks`, `MinisterFails`), experts and the arbiter follow (`ConsultExperts`),
the heuristic baseline is merged in (`MergeEngines`), the red team attacks
(`Challenge`), the gaps are investigated with or without a model (`CoverGaps`,
`CragEnds`, `CragByRules`), the decision may send the council round once more (`Decide`),
and the verdict falls (`Verify`). A model's answer is one of a set, the failures and
the canned answers of an outage among them.

Left out: the wording, the sources a hypothesis cites beyond whether they exist, and
the debate inside an expert's prompt.

### Collection and Investigation

`Investigation` flattens the nodes of the orchestrator into one list of operations
(`Program`): check a transition, save the object, update the SQLite row, append an event,
wait for a person, call something that may raise, collect. `pc` is the next of them, and
the process may die between any two (`Crash`, which may tear the file being written).
`held` is the object the nodes pass on, `meta` the file, `index` the row, `timeline` the
log. The reviewer (`HumanReviews`) and the tracer (inside `CallReturns`) load the file,
append and save it, while the orchestrator writes its own object over it. `Collection` is
the one operation with steps of its own: `SelectSources`, `GenerateQueries`, then
`CheckLoop`, `CollectRound` and `SteerRound` until one of the three ends is reached, and
`Settle`. It counts observations; the clock may have run out at any check. When a model
planned the News queries as something other than a list, steering raises
(`SteerRaises`, `adaptive_collector.py:127`) and the run with it. A behaviour starts a new
investigation; a resumed one is not modelled.

Left out: what the nodes compute, listing and searching the stores (they change
nothing), the crawler and the cache.

### Groupthink and Deliberation

`published` is the debate memory, `queue` the bus, `ledger` the agents' latest
probabilities, `calls` the model calls under way. `Publish` records and queues; rebuttals,
revisions and results, for which no handler has a case, are recorded only. `Deliver`
takes the head of the queue and runs each subscriber up to its first await, which is a
model call; `EndCall` lets any call end, in any order. A specialist writes its belief into
the ledger and then builds its message: a hypothesis, a rebuttal or a revision goes out
(`Says`), or building it raises on a malformed answer, which is logged, and the belief stays
(`CannotSay`). A call that fails before its belief changes nothing (`CallFails`). `unsent`
is history: whose last belief has no message. The orchestrator waits for enough messages or for its
timeout (`Gather`), and nothing later tells the two apart. `Verified` is the pause
before the gate together with the groupthink score, `EvaluateGate` the five rules,
`Stop` the end. `tabled` is history: the hypotheses there were when the challenge was
called. `Groupthink` has the score in thousandths, term by term.

Left out: the rate limits (200 per agent and round; an agent sends three messages here),
signatures (each agent signs with its own key), and `swarm_blackboard.py`, which only
tests use.

### Archives

`where[s]` is the statement of `execute()` a session is at, `doing[s]` the part of a
rewrite: load, open (which truncates), flush. `runs[s]` is its process, `copy[s]` what it
loaded, `file` the four JSON files, `audited`, `filed` and `indexed` the stores that are
only added to. Inside a process the event loop keeps two sessions apart between awaits;
across processes nothing does. `wrote` and `spoiled` are history: every entry saved, and
the files that two processes updated at once or a write left half-done. `Crash` kills a
process with all its sessions, and leaves any file it had open torn.

The constructors create a file that is missing (`forecast_archive.py:20-21`,
`learning_engine.py:25-32`, `working_memory.py:26-28`); this happens in the first session of a
source tree only, and the model starts when the files exist.

Left out: what the entries say, the minister weights (no one reads them), and the
migration of an old file at import.

### Metrics, Trajectories and Validation

One behaviour is one run of one tool: the suite (backtest, ablation, calibration,
benchmark, latency), the benchmark alone, the ablation study, a replay of scenarios, the
calibration loop. `forced` is the variable of the environment the tools set, `stubs` the
attributes they have replaced, `found` what the phase has gathered, `ran` each execution
with the mode it ran in, `report` what is printed. An execution returns one of
`Answers` or raises. `Metrics` computes Brier scores, bins, lead times, hit rates and
percentiles as exact sums and counts; `Trajectories` momentum, persistence and
projection in hundredths of a percent, to which the code rounds a share. The Gaussian of
`trajectory_engine.py:123-127` is the constant `Kernel`: of it the model uses that it is a
number for each distance, falls with the distance and is above zero where the nearest
centre can be. The run gives it the Gaussian's values in hundred-thousandths, percent by
percent and in proportion between. A forecast of the study is made from the trajectory of every
agent (`Forecast`), or from none with NO_TEMPORAL.

Left out: printing, report files, and probabilities whose bin depends on how a float is
rounded (0.3, 0.6 and 0.7 in tenths).

## 3. The runs

| Run | Asks | Instance | Result |
|---|---|---|---|
| `AnalystJobs` | Do the API and the workers, without the guardian, share the file safely, and do they implement the ledger? | 2 jobs, the API, 2 workers, 2 task identities, 1 slot, 1 crash, 2 failing writes, symmetric | holds, 244 thousand states |
| `AnalystJobsProgress` | Does a stored job end? | 2 jobs, 1 worker, 1 crash, 1 failing write | holds |
| `AnalystJobsGuardian` | With the guardian, does a job that lost its runner leave RUNNING? | 1 job, 2 workers, 2 crashes, 1 failing write | holds |
| `AnalystJobsStaleWrite` | Is a claim exclusive with the guardian deployed? | 2 jobs, 1 worker, 2 slots, no fault | violated |
| `AssessmentJobs` | Does what is served as COMPLETED survive, do jobs keep to the lifecycle, does every active job have a runner, does every accepted job end? | 3 jobs, a list of 2, 2 crashes, 2 failing saves | holds, 25 thousand states |
| `LiveUpdates` | Does everybody who listens hear the outcome, and is it the stored one? | 2 jobs, a list of 2, 1 crash, 2 connections | holds, 2.5 million states |
| `Pipeline` | Does only what passed every check leave as COMPLETE, in agreement with its records; does research behave; does the call return? | the loop's own limits, 3 dimensions, both solvers, 11 contexts, values at each threshold | holds, 1.2 million states |
| `Council` | Is a score monotone in its evidence, and is a verdict grounded in it? | 4 reports, 2 per collection, 1 RFI answer, 2 ministers, 2 baseline ministers, 1 expert | holds, 770 thousand states |
| `Investigation` | Do file, index and timeline agree, who may lose feedback, does collection keep its budget? | the collector's own limits, 1 crash, 2 traces | holds, 203 thousand states |
| `Deliberation` | Is the strongest hypothesis attacked, is a release on record, does a debate end? | 2 specialists, both required, 2 probabilities, 2 signals, 2 states | holds, 1.1 million states |
| `Archives` | When may an entry be lost, and do the stores tell one story? | 3 sessions in 2 processes, windows of 2, 2 and 1, 1 crash, 1 failing write, symmetric, with a view | holds, 1.6 million states |
| `Validation` | Are the metrics what their names say, and do the reports say what ran? | 3 crises, 3 answers, 3 modules, 2 queries, 4 traces, 2 cases, 4 revisions, 3 days, 3 forecasts | holds, 821 thousand states |

### The properties

`AnalystJobs`: `ClaimExclusive` (no two live runners of a job),
`ServedCompletedIsDurable` (no process shows a COMPLETED the file does not have),
`NoOrphanWithoutFault` (RUNNING without a runner only after a fault),
`CompletedIsFinal`, `ImplementsLedger` (refinement: `disk` is the ledger, the live
tasks are the claims, the identifiers handed out are spent), `SubmittedJobEnds`,
`NoJobRunsForever`.

`AssessmentJobs`: `ServedResultIsStored` (a job served as COMPLETED is in the file with its
result; a result the file lacks belongs to a failed job after two saves that raised),
`LifecycleMovesForward` (in the file a job takes the steps of the lifecycle only, but for the
cancelled announcement; its result comes with its end and stays), `ActiveHasRunner`,
`AcceptedJobEnds`. The two exceptions that `ActiveHasRunner` and `AcceptedJobEnds` make,
a save that failed and a job beyond the list of the sweep, are what the code itself
leaves open: it has no rollback and no second look.

`LiveUpdates`: `EverybodyHears` (who was connected when an outcome began to be told and
still is when the runner is done was told it, whoever failed meanwhile), `HeardIsStored`.

`Pipeline`: `ReleasedIsChecked`, `ReviewNeverReleased`, `ReleasedAgreesWithRecords`,
`HeldStaysHeld` (four relations between the five writers of the status and the
readers between them; `ReleasedIsChecked` takes the word of detector and enforcer where they
gave one), `LevelWithinRail` (the model moves the level by one band at
most), `ReadinessNeverFalls`, `GivesUpOnlyWithoutGap`, `AssessmentEnds`.

`Council`: `MoreEvidenceNeverCalms` (the same collection with one report more never
scores lower), `LegalMovesTrendsOnly` (the firewall of `engines/sre.py` lets legal
material in by no way but the trends), `BaselineBandsHold` (whatever models say or
fail to say, a baseline minister's confidence stays in the band the heuristic gave it),
`VerifiedIsGrounded` (the run reaches its disjuncts but the one of four outlets, for which it has
too few sources; the theorem covers that one), `CouncilEnds`.

`Investigation`: `StoresAgree` (the timeline is at most one event behind the file, and
the row is never ahead of the timeline), `OnlyOwnSavesForget` (feedback and traces leave
the file only under the orchestrator's own save or a torn write),
`RoundsWithinBudget`, `RunEnds`.

`Deliberation`: `AttackMeetsStrongest` (no hypothesis that was on the table when the
challenge was called is stronger than the one attacked), `ReleaseIsOnRecord` (verification and
answers to challenges are in the debate memory, and so is every belief the gate counts, except
of an agent whose message could not be built), `DebateEnds`.

`Archives`: `LostOnlyByOverlap` (a file that no two processes updated at once and no
write left half-done holds every entry saved, its window aside), `TrailIsOrdered` (index
within vault, vault, goals and forecasts within the audit log, audit log within the
contexts).

`Validation`: `MetricsAgree` (bins partition, scores equal their definitions, and the
two libraries agree where they measure the same; where a state of conflict dominates, conflict has
half of the mass, and one state with more than half dominates), `ReportsSayWhatRan` (each execution ran
in the mode and with the stubs its report names, the study compares with FULL,
each outcome counts once).

Type invariants are run where a proof does not make the run superfluous: those of
`Archives` and `Deliberation` are theorems, that of `LiveUpdates` is part of one.

### The bounds, and why they are enough

Two jobs and three processes are what every race over a claim needs: the one who
wins, the one who loses, and one whose copy is older than both. A second job lets
a mutation for one job carry another job's change in and out of a copy. One slot
makes a second claimed job of a worker wait. One crash and two failing writes let
a write fail, its handler's write fail too, and a restart follow. In
`AnalystJobsGuardian` two crashes let both the first runner and a later one die.
The two liveness runs of the analyst jobs are apart because they assume different
deployments: the guardian's stale write can put a FAILED job back to QUEUED.
In `AssessmentJobs` three jobs exceed a list of two, so that a job beyond the list
exists, as the 101st does in the code. `Tasks` bounds the runners alive at once.
Two clients are one that stays and one that fails while it is told; saves do not
fail in `LiveUpdates`, because `AssessmentJobs` has their failures and the theorems
carry them over.

`Pipeline` keeps the loop's limits of the code (5 rounds, 75 points, patience 2).
Evidence starts at 1, 4, 11 or 12 signals (the gap closes at 12, connectivity
changes at 5), with few or many observations, trends and sources. Verification
takes 0.25 to 0.701 (both sides of 0.5, of the gate's 0.55, of 0.6 and 0.7), model
scores -0.2, 0.47 and 1.2 give every clipping, three dimensions a disagreement with a
majority, and the eleven contexts stand on both sides of every other threshold (no
signal, extracted and fallback ones, a rare action, rising and falling trends, what the
narrative may say). `Investigation` keeps the collector's limits (15 observations, 2 rounds,
200 articles); an update of 0, 8 or 100 events ends the loop by each of its rules.

`Council`'s reports are a strong and a weak one of the same event, a legal one and a
de-escalating one, two per collection, so that merging, capping and the firewall
meet; an answer of an RFI may close a gap; one minister has a baseline and the other
none, and one baseline has no minister. `Deliberation`'s two specialists are both required, so
each one's silence matters, and the probabilities lie on both sides of the gate's
one half. In `Archives` three sessions overflow every window; the view forgets what no
later step can read, namely the texts of spoiled files and of stores every session has
passed. In `Validation` two executions of a phase show an effect of the first on the second,
and the percentages stand in different bins, the last edge included.

Bounds cap faults, identifiers and inputs only; none stops a process from running.
`CHECK_DEADLOCK FALSE` is set where a system may rest: an idle server with no job
left to create, a run, debate, tool or call that has ended.

### Fairness

Weak fairness for each sequential process: the API starts after it went down
(`docker/docker-compose.yml` restarts web, worker and guardian unless stopped), a
request goes on after an await, a worker goes round its loop, each runner's task is
served by its event loop and its pipeline call ends, a guardian that found stuck
jobs writes. `GuardianCheck` has strong fairness for each job: it runs every minute,
and a job that stays RUNNING is overdue at each check from some point on, also if
other steps disable the action between two checks. `execute()` is one coroutine:
`WF(Next)` in `Pipeline` and `Council` says that the calls it awaits return or raise. In
`Investigation` `WF(Step)` says the same of the orchestrator, whose clients have
timeouts; a person need not answer. In `Deliberation` the orchestrator and the bus worker share
one event loop, which does not rest while one of them is ready, and the models are not fair:
`DebateEnds` holds although no call may ever return.
Nothing obliges a client to submit, a process to die or a write to fail. The runs
that check only safety assume no fairness.

### The violation

`AnalystJobsStaleWrite`. The guardian writes back a table it read without the lock
(`engines/SystemGuardian/guardian_agent.py:117-126`). A claim in between is undone, the
job is QUEUED while its runner works, and another process runs it a second time, against
`claim_job`'s "Safe across processes" (`api/analyst/job_store.py:117`).

## 4. The proofs

All theorems follow from the assumptions named in the modules (the constants are
naturals and finite sets of the right kind, the API is not a worker, thresholds and
inputs are scores) and hold for any number of jobs, workers, clients, sessions,
specialists, rounds and faults.

`AnalystJobs_proofs`. `TypeCorrect` holds for every deployment. `Exclusive`,
`Durable`, `Final`, `NoOrphan` and `Refinement` assume `GuardianDeployed = FALSE`: with the
guardian the first is false (run `AnalystJobsStaleWrite`). The inductive invariant is

    IInv == TypeOK /\ NoGuardian /\ FirstWrite /\ KnownIds /\ RunnerOwns
            /\ ClaimExclusive /\ ServedCompletedIsDurable

`ClaimExclusive` is not inductive alone: a claim asks only that the reloaded table says
QUEUED, so one has to know that a job with a runner is never QUEUED in the file
(`RunnerOwns`), that the reloaded table is the file (`FirstWrite`: before the first
write there is nothing to reload, and nothing in memory either) and that a new
identifier has no runner (`KnownIds`). `LoadedIsDisk` is the lemma all steps rest on:
a mutation starts from the file, whatever its process had in memory. The lemmas
`UpdateSafe`, `ClaimSafe` and `QuietStep` treat the three kinds of step, the lemmas
`ApiSafe`, `WorkerSafe` and `RunnerSafe` the actions. `NoOrphan` needs no more than `IInv`
beside itself. `Refinement` maps each step to a step of the ledger or to a stutter under
the same invariant.

`LiveUpdates_proofs`, first half, about `AssessmentJobs` alone: `TypeCorrect`, `Durable`
(`ServedResultIsStored`) and `Forward` (`LifecycleMovesForward`), from

    SafeOK == ServedResultIsStored /\ RunnerMatches /\ RunnerNeedsApi /\ EndsInMemory
              /\ NotCreated /\ SweepInFlight /\ FreshStart /\ MemoryAhead /\ ResultsOK
    AInv == TypeOK /\ SafeOK

Memory is changed before the save, and nothing rolls it back. What is shown as COMPLETED is
stored all the same, because a `mark_complete` whose save fails is followed by
`mark_error` in the same step, which changes the status, though not the result. The result
that is left in memory is written by whichever save succeeds next, so how far memory may be ahead of
the file has to be said: of statuses by `MemoryAhead` (an unsaved creation, an unsaved
failure), of results by `ResultsOK` (the file has that job as RUNNING). From these two,
and from the runner's position, which fixes its job's status (`RunnerMatches`), every change
of the file is a step of the lifecycle or the cancelled announcement. `Attended` (`ActiveHasRunner`) strengthens this to `CoverInv`: a
runner that announces or reports has ended its job in memory (`TellersEnded`), jobs
outlive an API process only if it was stopped or killed, or a save failed (`QuietStart`),
and each active job is covered by a runner, the sweep or the list's limit (`Covered`).

`LiveUpdates_proofs`, second half. `Unobserved`: every behaviour of the composition is one of
`AssessmentJobs`, so `AInv` holds of it without a second proof. `LiveInvariance` adds what
ties telling to storing: nothing is heard of a process that is not up
(`HeardInProcess`), an outcome is heard of a job that ended (`HeardOfEnded`), a runner tells what is
stored (`TellsStored`), and whoever is due is still to be told or has heard
(`DueOrHeard`). `TruthfulNews` and `Everybody` follow.

`Pipeline_proofs`. `TypeCorrect` rests on `SearchHasRound` (the loop asks for
information only with a round left). `ReadinessMonotone` is arithmetic on the score.
`PlateauHasNoGap` needs `GapRaisesScore`: while fewer than 12 signals are known, a
round brings at least one, which is worth at least two points, more than a
plateau's one; so the plateau count is 0. `LevelIsBounded` needs that scores at most
150 apart lie in adjacent bands, bands being 200 wide (`NearScoresNearLevels`), and
that both calls of `decide()` clip against the same rail (`LevelFollowsRail`).
`ReleaseIsChecked`, `ReviewIsNeverReleased`, `ReleaseAgreesWithRecords` and
`HeldIsNeverReleased` share `StatusInv`: before verification nothing is decided
(`Undecided`), and COMPLETE at any later point means that the checks so far have
passed and the records so far agree (`Cleared`). Of detector and enforcer it says that
they did not object (`Calm`, `Unobjected`), since either may have raised.

`Investigation_proofs`. `Budgeted` (`RoundsWithinBudget`) from `BudgetInv`: the counts are
counts, and a round that is about to start was allowed by the check before it
(`RoundAllowed`), since nothing between the two changes them. `Forgetting`
(`OnlyOwnSavesForget`) needs only what can be in the file (`MetaOK`). `Stores`
(`StoresAgree`) is about a run that starts a new investigation, and about a place in the program: each change of status is a check, a save
and an event, other operations come between, so how far object, file and timeline are
apart depends on which of them was last. `StoresInv` says it for each place (`StagesOK`;
`OpeningOK` for the places before the first status, `TimelineOK` for the events, and
`IndexIsLate` for the row, which is no inductive statement without them). That every check is
followed by its save and its event is shown once for each piece of `Program`, and for the whole by
`OrderlyConcat`: two orderly programs one after the other are orderly.

`Deliberation_proofs`. `Attacked` (`AttackMeetsStrongest`) is a statement about order: the
challenge is called after the tabled hypotheses were queued, so when it reaches the
Contrarian it has seen them all. The invariant says that whatever is still queued
ahead of the challenge (`InOrder`) or seen makes up what was tabled, that there is no
call of the Contrarian before (`Uncalled`), and one challenge only (`CalledOnce`), with
`Roles` on who sends what. `Released` (`ReleaseIsOnRecord`) needs that the
probabilities in the ledger were published, agents in `unsent` apart (`Recorded`), that only who was challenged rebuts
(`Rebutted`; with one challenge at most, the gate's comparison of two numbers says that it
was answered) and that the verification's results say what the evidence
memory holds (`Checked`). `TypeCorrect` is the one on types.

`Archives_proofs`. `Trail` (`TrailIsOrdered`) needs where each session is to tell what
the stores have of it (`Along`). `Losses` (`LostOnlyByOverlap`) is about overlap: of an
unspoiled file at most one process has a copy under way (`Alone`), nobody knows an entry
that is not in the history (`Unlearned`), and file and copy are what the windows leave of
the history (`Whole`); `TypeCorrect` as before.

`Council_proofs`. `Bands` (`BaselineBandsHold`), `Verified` (`VerifiedIsGrounded`), `Legal`
(`LegalMovesTrendsOnly`) and `Calm` (`MoreEvidenceNeverCalms`) rest on numbers that come out
of folds: a report is absorbed by the signals before it, groups are fused, beliefs and
scores are sums and maxima. The library's
induction theorems take an operator, so the module proves induction over numbers
(`NumberInduction`) and over finite sets (`SubsetInduction`) with a set in the predicate's
place, and from these that a recursive sum or fold exists, unfolds (`SumUnfolds`,
`FoldExists`) and stays where each of its steps stays (`TotalType`, `RowInduction`). The
lemmas ending in `Type` carry this through the engines, up to `RiskScoreType`. The
inductive invariant `Grounds` then has to say what the council is still looking at:

- what was extracted of the feeds is a prefix of the signals until they are scored
  (`ReadFirst`), since reports absorbed later only append (`ExtractedAppend`);
- until they are scored, beliefs, trends and escalation are those of what was extracted, and
  the history is some past with those beliefs put behind it (`Remembered`), whatever was
  answered since;
- a score is a number, and when it is given the score of the signals and trends there
  are (`ScoreOK`);
- every hypothesis has a number for its confidence through proposals, refinement, red
  team, merge and arbitration (`CouncilOK`), and a verdict comes last (`VerdictOK`).

`BaselineBandsHold` and `VerifiedIsGrounded` are conjuncts of `Grounds` (`GroundsHold`).
`Legal` compares two runs of the engines that differ in a legal report: the engine
skips the group of a firewalled code (`EligibleReads`), and absorbing a legal report leaves
every other group as it was (`AbsorbedCode`).

`Calm` compares two runs as well, and here every engine has to grow with what it reads. The
argument follows the data:

- one report more leaves each signal, or one that outdoes it: more confidence or intensity, all
  else alike (`MoreOutdoes`). So no action has less support (`SupportGrows`) and no belief is
  lost (`BeliefsGrow`);
- a trend of a belief is kept when its latest support is greater (`TrendGrows`). For the slope
  this is a matter of the last weight. A spike is judged against a deviation that the new support
  itself widens, so `StandsOut` needs that squares sum to no less than the square of the
  sum by their number (`Squares`), and works out that the distance from the mean
  widens faster;
- projections (`ProjectedGrows`), their fuzzy union (`FuzzyOrGrows`), domains (`FusedGrows`),
  the bonus of the trends (`BonusGrows`) and the index with its capability floor (`IndexGrows`)
  are no less. Exercises fade when they are intense and talks weigh against a risk: of these
  two codes the projections are alike (`AbsorbedCode`), which is where the exception in
  the property is used;
- so are both scores (`MoreRisk`, `EscalationGrows`), and `Remembered` says that the scores the state
  holds are the ones compared (`GroundsCalm`).

The assumptions are those of the three modules: ministers sit in a sequence, a council's
confidences are thousandths, reports are made by `Report` of actions the vocabulary
knows with a percent of confidence and a recency that is a share (the table of source tiers and
`_clip01`), and a history on file is a row of snapshots of such actions with percents of support.

`Validation_proofs`. `Reports` (`ReportsSayWhatRan`) rests on sums over collections of any
size, so the first part shows, by the two inductions of `Council_proofs`, that the library's sum
exists whatever order it takes the elements in, that one element more adds its number
(`OneMore`), and that the parts of a set add up to the set (`SumOfParts`, `SizeOfParts`). From
there `Projected` stays on its scale and a forecast is a number (`ProjectedType`,
`ForecastIs`). The inductive invariant (`Validated`) is one statement for each tool:

- `ModeOK`: nothing is replaced but what raising executions left, and until the benchmark
  the mode is the one asked for;
- `StudyOK`: FULL comes first, and every later configuration finds its score as baseline;
- `LoopOK`: whoever had a belief in a resolved forecast is known to the loop, with the count and
  the error of exactly those forecasts. `PendingIs` (the place found has no outcome yet) is why an
  outcome told twice is not counted twice;
- `BacktestOK` and `ReplayOK`: a backtest gathers evaluations of its own crises, and the days of a
  scenario are numbered as they were entered;
- `ToolOK`, which keeps the phase of one tool from being read as another's.

That the curve counts every resolved forecast below certainty is no part of the invariant:
`CurveCountsResolved` shows it of any record, the fifths being the parts of a set.

`Agreements` (`MetricsAgree`) needs little of the invariant: its equalities hold of any
days, forecasts or steps, and the lemmas ending in `Agree` say so, one for each.

- `ScenariosAgree`: five scores sum to one (`FivePlus`, `BrierOfStates`), the bins of a curve and
  the diagonal of the confusion matrix are the parts of a set (`CurvesCover`, `HitsOnDiagonal`),
  and the ends of a bin and the capped quotient name the same bin (`BinIs`), so both modules sum
  the same gaps (`GapsAre`, `ErrorsAgree`). The largest mean gap bounds their mean
  (`WorstIsWorst`), since numbers no larger have a sum no larger (`SumMonotone`). The first day of
  a warning before the escalation is one that counts as a false alarm (`EarlyIsFalse`).
- `ReplaysAgree`: without a posterior the error is zero, so the tier is always the best and
  the verdict is left to the hits (`SingleVerdict`).
- `TracesAgree`: durations telescope (`DurationsAddUp`), the layers share them (`LayersShare`), and a
  percentile exists and grows with its place (`SomeAtPlace`, `PercentilesGrow`).
- `ForecastsAgree`: the kernel falls with the distance from a state's centre, so on either side
  of 40 percent it is known which states outweigh which (`FiveWeights`). The heaviest state is the
  dominant one (`DominantIs`), and half of the weight is half of the share (`HalfOfShare`), with
  a mass above zero to divide by (`MassIs`). That a conflict more likely than not dominates is
  no part of it and does not hold: at 39.99 percent the three conflicts have 0.5007 of the mass,
  and CRISIS dominates.
- `WarningsAgree`: jumps below ten have a mean below the threshold (`SpikeHasJump`), and an
  alert means that the last directions were the same (`AlertHasDirection`).

`ValidationAssumption` says what the inputs are: crises have one of four levels, probabilities
are percents, a posterior sums to at most one, and the steps of a trace are in the order of
their times; `KernelAssumption` what the kernel is.

Only model-checked:

- liveness (`SubmittedJobEnds`, `NoJobRunsForever`, `AcceptedJobEnds`, `AssessmentEnds`,
  `RunEnds`, `DebateEnds`, `CouncilEnds`): liveness under fairness and ENABLED are out of the
  prover's reach.

Every invariant and every action property of the runs that hold has a theorem.

No module that a theorem depends on has a RECURSIVE operator.

## 5. What the models say about the code

Found while modelling, and in the models as they are. The first is a run of section 3; a run of
the others would restate what the text of the code shows.

Jobs.

- The guardian's unlocked write undoes a claim (section 3).
- "Refresh the view each tick" (`scripts/analyst_worker.py:41`) stands over a call that copies
  memory. A job whose claim by the API failed to be written is QUEUED in the file, and
  a worker sees it only after a mutation of its own has reloaded the table.
- A shutdown during the announcement of a finished job turns the COMPLETED of the file into FAILED
  (`api/rest_api.py:166-168`), against "QUEUED -> RUNNING -> COMPLETED | FAILED"
  (`engines/job_store.py:38`). `LifecycleMovesForward` allows this step and no other.
- `mark_complete` sets `job.result` and then saves, and `mark_error` leaves it
  (`engines/job_store.py:137-149`): when both saves raise, the job is FAILED in memory with a result
  that the file does not have, and `api/rest_api.py:213-215` serves it whatever the status, although
  `docs/BUG_AUDIT.md:26` says of both stores "write failures roll back".
- Progress messages are tasks of their own and may arrive after `job.completed`; a client
  that subscribed hears an outcome twice.

Pipeline.

- Review asks for the text HIGH (`unified_pipeline.py:563`): a CRITICAL assessment with weak
  verification is refused without the review that `runtime/investigation/hitl.py:4-6` promises.
- HUMAN_OVERRIDE_REQUIRED of an exhausted loop is overwritten (`unified_pipeline.py:560-570`)
  before the narrative that would tell the reader (`strategic_narrative.py:42-43`) runs.
- The enforcer may overwrite ERROR with WITHHELD, and the job counts as completed; the audit log is
  written before either. A blank query returns at 291-306 without
  the enforcer, against "on every return path" (`unified_pipeline.py:910`).
- Black swan detector and enforcer fail open: when they raise, the error is logged (690-691,
  918-919) and a COMPLETE goes out without them.
- CRITICAL falls into the last branch of the recommendations, "No immediate action required"
  (`threat_synthesizer.py:104-120`).
- Signals a model extracts have domain "unknown", so only those of the keyword fallback raise
  the heuristic rail. Of the black swan channels one can fire. Gate rules 1, 3 and 5 read
  inputs that nothing fills. With a full briefing the enforcer scans fixed fields only, against
  "Checks EVERY output" (`safety_enforcer.py:5`).
- The step tracer is one global: two assessments at once record into each other's trace.

Feeds, scoring and council.

- What DuckDuckGo finds never becomes an observation: the conversion stands after a `continue`
  (`web_surfer.py:137-153`). When all providers fail the surfer makes up two observations
  (183-202), which reach the signals as news, and the RSS fallback is never tried.
- Feeds that exceed the deadline of 30 s together lose the results of the fast ones as well.
- Every reliability score is the default of 0.5, so the SRE's table of sources is unused.
- SIG_DEESCALATION scores as HOSTILITY, though `engines/sre.py:119` lists it under NEGOTIATION.
  Legal material still raises a score through the trend bonus, contrary to `sre.py:5-6`.
- The query's own text becomes a signal, so that one weak report may score lower than none
  (`MoreEvidenceNeverCalms` compares collections that have one).
- In an outage the canned answer of the offline model moves each minister's confidence and each
  threat dimension by at most 0.15, as any model may.
- A hypothesis has no rationale, so the fallback of the experts' debate raises and drops the
  experts. The claims that verification looks up are in the corpus it looks them up in.

Investigation.

- A run does not get past the forecasting node: `investigate.py:226` asks for ANALYZING to
  FORECASTING, which the transition table refuses, although "every phase transitions the
  investigation through its lifecycle" (`investigate.py:6`).
- The orchestrator's own saves erase feedback and traces that others appended; a rejection has
  no effect, edits of the world model are dropped; queries for the gaps are dropped when five
  are planned already.
- News queries that a model answers as text or as an object have no `extend()`: the first gap
  found ends the run (`adaptive_collector.py:127`).

Deliberation.

- The request for the challenge is an EVIDENCE_REQUEST like the first, so every minister answers
  with a second hypothesis, which may overwrite a concession. A REVISION does not count as an
  answer to a challenge, so a concession forces WITHHOLD. A specialist's belief is in the ledger before its
  message is built (`security_minister.py:141-158`): an answer with a null claim leaves a belief that
  the gate counts, with no hypothesis on record. The groupthink warning is logged, and
  no gate asks for it.

Stores.

- Two processes that share the source tree (`start.sh`) lose entries to each other. A torn or
  truncated file reads as the default, and the next save makes that permanent. Beyond 25 goals
  the newest is dropped. A learning step that fails skips the archive after it.

Validation.

- Five of the six ablations replace a name that its caller imported by value, and have no effect;
  a stub is taken back only when the execution succeeds. Calibration is always given an empty
  list and reports GOOD. A failed or withheld assessment is scored as a prediction of LOW,
  MODERATE counts as LOW, and `warning_timely` is always true (`historical_crisis_evaluator.py`
  244, 289). The calibration loop's five bins leave out a forecast of 1.0.

## 6. Not modelled

Not modelled, or not all of it:

- Legal retrieval: regular expressions over text. Exporters and presentation, sanitizing, and
  the read-only handlers of the API: formatting of a state that the models have.
- Collaboration, enterprise, ecosystem, adaptive packages: `docs/MODULE_CATALOG.md` calls them
  experimental or stubs, and no modelled path calls them. The document socket relays Yjs updates.
- Frontend and deployment: a client of the API, and container files, whose restart policy is
  the ground of the fairness.
- LLM clients: the wire protocol, the timeout of a request, costs and trace files. What a call
  may answer is a choice where it is used.
- Embeddings, the vector store, the graph database and the hidden Markov model: I/O behind a
  client, and an iteration over floats on which no step of `execute()` decides. The wargame: random
  numbers and floats, called with arguments it does not take, and nothing is decided on it.
- `runtime/graph.py`'s own graph, the skeleton of `pipeline/deliberation/reasoning/` that `run_debate`
  does not reach (`debate_manager.py`, `swarm_blackboard.py`), `dream_scheduler.py` (prints only),
  the generators under `scratch/`: not on a path of the program.
- The planner of an investigation is one call of `Investigation`.

Hazards listed without a property, with the reason in `PROJECT.json`: the 200 jobs of
a worker's listing and its stale poll, the audit log of a withheld assessment, and ERROR becoming
WITHHELD between the pipeline and its runner. Where the code
itself does what a hazard warns of, the property delimits it: it names the one case that is
lost (two processes that overlap, a job beyond the list, the orchestrator's own save, a row that stays
behind, a stub an execution left) and says that there is no other; these hazards have a note.

Beyond the provers: liveness, ENABLED, and induction over data (section 4).
