--------------------------- MODULE Investigation ----------------------------
(***************************************************************************)
(* One run of run_investigation: the nodes of the MasterOrchestrator over  *)
(* the investigation's folder (InvestigationStore) and its row in the      *)
(* SQLite index (InvestigationMemory).                                     *)
(*                                                                         *)
(* Three parties write the same metadata.json.  The orchestrator writes    *)
(* the object it holds.  The review manager and the LLM tracer each load   *)
(* the file, append to it, and save the copy with InvestigationMemory.     *)
(*                                                                         *)
(* A node is a sequence of operations; an operation is one write, one      *)
(* check or one call that may raise.  The process may die between any two. *)
(***************************************************************************)
EXTENDS Collection

CONSTANT
    MaxTraces    \* bound: traces recorded in a run

ASSUME MaxTracesAssumption == MaxTraces \in Nat

VARIABLES
    held,      \* the status of the Investigation object the nodes pass on
    meta,      \* metadata.json; its status is "ABSENT" or "TORN" when it does not load
    index,     \* the status in the SQLite row, or "ABSENT"
    timeline,  \* events.jsonl
    pc,        \* the operation that comes next
    outcome,   \* of ainvoke()
    hitl,      \* HITL_MODE
    traced     \* whether the later nodes see current_investigation_id

run  == <<held, meta, index, timeline, pc, outcome, hitl, traced>>
vars == <<collecting, run>>

-----------------------------------------------------------------------------
(***************************************************************************)
(* The lifecycle of core/schema.py.                                        *)
(***************************************************************************)
Lifecycle == <<"CREATED", "PLANNING", "COLLECTING", "ANALYZING", "REASONING",
               "FORECASTING", "REPORTING", "MONITORING", "ARCHIVED">>

Statuses == ToSet(Lifecycle)

ValidTransitions ==
    {<<Lifecycle[i], Lifecycle[i + 1]>> : i \in 1..7}
        \cup {<<"REPORTING", "ARCHIVED">>, <<"MONITORING", "ARCHIVED">>}
        \cup {<<"MONITORING", "COLLECTING">>, <<"ARCHIVED", "COLLECTING">>}

-----------------------------------------------------------------------------
(***************************************************************************)
(* The nodes.                                                              *)
(***************************************************************************)
Event(e)     == <<"event", e>>
Call(name)   == <<"call", name>>
Review(what) == <<"review", what>>
Save         == <<"save", "held">>
Index        == <<"index", "held">>

\* InvestigationStore.create and .transition, InvestigationMemory.save_investigation.
Create         == <<Save, Event("CREATED")>>
SaveAndIndex   == <<Save, Index>>

\* Mutant: the event is written before the file.
TransitionAnnounced(to) == <<<<"check", to>>, Event(to), Save>>

Transition(to) == <<<<"check", to>>, Save, Event(to)>>

NodePlanning ==
    <<Call("planner")>> \o Create \o Transition("PLANNING")
        \o <<Review("objective"), Review("scope")>> \o SaveAndIndex

NodeCollection ==
    Transition("COLLECTING") \o <<<<"collect", "rounds">>, Event("COLLECTION_COMPLETE"),
                                  Save, Event("DATA_COLLECTED")>>

\* The snapshot and the hypotheses are files of their own that nothing reads
\* back; what a reviewer makes of the world model is dropped.
NodeWorldModel ==
    Transition("ANALYZING") \o <<Call("claims"), Save, Event("WORLD_MODEL_SAVED"), Review("world model")>>

NodeReasoning ==
    <<Call("experts"), Review("reasoning"), Save, Event("ANALYSIS_COMPLETE")>>

NodeForecasting == Transition("FORECASTING") \o <<Call("forecast"), Call("metadata"), Save>>

NodeWorkspace ==
    Transition("REPORTING")
        \o <<Call("workspace"), Call("metadata"), Call("checkpoint_with_edits"), Save>>

NodeLearning == <<Call("learning"), Call("metadata"), Save>>

NodeFinalize ==
    Transition("MONITORING") \o SaveAndIndex \o <<Call("export"), Event("PIPELINE_COMPLETE")>>

Program ==
    NodePlanning \o NodeCollection \o NodeWorldModel \o NodeReasoning
        \o NodeForecasting \o NodeWorkspace \o NodeLearning \o NodeFinalize

Running  == outcome = "running"
At(kind) == Running /\ Program[pc][1] = kind
Operand  == Program[pc][2]

-----------------------------------------------------------------------------
Unreadable(how) == [status |-> how, feedback |-> 0, traces |-> 0]

Init ==
    /\ CollectionInit
    /\ held = "CREATED"
    /\ meta = Unreadable("ABSENT")
    /\ index = "ABSENT"
    /\ timeline = <<>>
    /\ pc = 1
    /\ outcome = "running"
    /\ hitl \in BOOLEAN
    /\ traced \in BOOLEAN

Advance == /\ pc' = pc + 1
           /\ outcome' = IF pc = Len(Program) THEN "finished" ELSE outcome

\* Mutant: the graph runs a node that raised once more.
RunsAgain == UNCHANGED <<pc, outcome>>

\* An exception leaves ainvoke(); nothing marks the investigation.
Raises == outcome' = "failed" /\ UNCHANGED pc

\* What the orchestrator writes: its object never holds feedback or traces.
Held == [status |-> held, feedback |-> 0, traces |-> 0]

Loads == meta.status \in Statuses

\* The row follows the object that was saved; a commit that fails is rolled
\* back and logged.
RowFollows(status) == index' \in {index, status}

CheckTransition ==
    /\ At("check")
    /\ IF <<held, Operand>> \in ValidTransitions
       THEN held' = Operand /\ Advance
       ELSE Raises /\ UNCHANGED held
    /\ UNCHANGED <<collecting, meta, index, timeline, hitl, traced>>

SaveHeld ==
    /\ At("save")
    /\ meta' = Held
    /\ Advance
    /\ UNCHANGED <<collecting, held, index, timeline, hitl, traced>>

IndexHeld ==
    /\ At("index")
    /\ RowFollows(held)
    /\ Advance
    /\ UNCHANGED <<collecting, held, meta, timeline, hitl, traced>>

AppendTimeline ==
    /\ At("event")
    /\ timeline' = Append(timeline, Operand)
    /\ Advance
    /\ UNCHANGED <<collecting, held, meta, index, hitl, traced>>

-----------------------------------------------------------------------------
(***************************************************************************)
(* The other two writers.                                                  *)
(***************************************************************************)

\* Mutant: the copy is the one that was loaded when the call was made.
RecordsStale ==
    \/ UNCHANGED <<meta, index>>
    \/ /\ traced /\ Loads /\ meta.traces < MaxTraces
       /\ meta' = [meta EXCEPT !.traces = @ + 1, !.feedback = 0]
       /\ RowFollows(meta.status)

\* LLMTracer: a call that succeeds appends a trace; the load, the append and
\* the save come after the answer and do not await.  A call answered by the
\* fallback model leaves no trace.
Records ==
    \/ UNCHANGED <<meta, index>>
    \/ /\ traced /\ Loads /\ meta.traces < MaxTraces
       /\ meta' = [meta EXCEPT !.traces = @ + 1]
       /\ RowFollows(meta.status)

\* ReviewManager.checkpoint.  Whatever the choice, the feedback is appended to
\* the copy on disk and the data goes on; a rejection only tells.  An edit of the
\* reasoning that is not an object makes the next .get() raise.
SkipReview ==
    /\ At("review")
    /\ ~hitl
    /\ Advance
    /\ UNCHANGED <<collecting, held, meta, index, timeline, hitl, traced>>

HumanReviews ==
    /\ At("review")
    /\ hitl
    /\ IF Loads
       THEN meta' = [meta EXCEPT !.feedback = @ + 1] /\ RowFollows(meta.status)
       ELSE UNCHANGED <<meta, index>>
    /\ Advance \/ (Operand = "reasoning" /\ Raises)
    /\ UNCHANGED <<collecting, held, timeline, hitl, traced>>

\* Nothing sets Investigation.metadata, and ReviewManager has no
\* checkpoint_with_edits.
Broken == {"metadata", "checkpoint_with_edits"}

\* The planner runs before the id is set.  Without evidence there is nothing to
\* extract claims from; a claim makes register_claim read an attribute that
\* RawObservation does not have.
CallReturns ==
    /\ At("call")
    /\ Operand \notin Broken
    /\ Advance
    /\ IF Operand = "planner" \/ (Operand = "claims" /\ evidence = 0)
       THEN UNCHANGED <<meta, index>>
       ELSE Records
    /\ UNCHANGED <<collecting, held, timeline, hitl, traced>>

CallRaises ==
    /\ At("call")
    /\ Operand = "claims" => evidence > 0
    /\ Raises
    /\ IF Operand \in {"claims", "experts"} THEN Records ELSE UNCHANGED <<meta, index>>
    /\ UNCHANGED <<collecting, held, timeline, hitl, traced>>

\* collect(): planning the queries and detecting gaps call a model, and using its
\* answers may raise.
Collect ==
    /\ At("collect")
    /\ \/ (SelectSources \/ CheckLoop \/ CollectRound) /\ UNCHANGED <<meta, index, pc, outcome>>
       \/ (GenerateQueries \/ SteerRound) /\ Records /\ UNCHANGED <<pc, outcome>>
       \/ SteerRaises /\ Records /\ Raises
       \/ Settle /\ Advance /\ UNCHANGED <<meta, index>>
    /\ UNCHANGED <<held, timeline, hitl, traced>>

\* The process dies.  A file being written in place is left torn.
WritesNext == \E kind \in {"save", "review", "call", "collect"} : At(kind)

Crash ==
    /\ Running
    /\ outcome' = "crashed"
    /\ meta' = meta \/ (WritesNext /\ meta' = Unreadable("TORN"))
    /\ UNCHANGED <<collecting, held, index, timeline, pc, hitl, traced>>

Step ==
    \/ CheckTransition \/ SaveHeld \/ IndexHeld \/ AppendTimeline
    \/ SkipReview \/ CallReturns \/ CallRaises \/ Collect

Next == Step \/ HumanReviews \/ Crash

Spec == Init /\ [][Next]_vars

\* The event loop runs the graph, and every call returns or raises: clients have
\* timeouts.  A person need not answer.
FairSpec == Spec /\ WF_vars(Step)

-----------------------------------------------------------------------------
TypeOK ==
    /\ CollectionTypeOK
    /\ held \in Statuses
    /\ meta \in [status : Statuses \cup {"ABSENT", "TORN"}, feedback : Nat, traces : Nat]
    /\ index \in Statuses \cup {"ABSENT"}
    /\ timeline \in Seq(STRING)
    /\ pc \in 1..(Len(Program) + 1)
    /\ outcome \in {"running", "failed", "finished", "crashed"}
    /\ hitl \in BOOLEAN /\ traced \in BOOLEAN

(***************************************************************************)
(* Properties.                                                             *)
(***************************************************************************)

\* Where the timeline announces a status, and the last one it announces.
StateEvents == {i \in DOMAIN timeline : timeline[i] \in Statuses}

Announced == IF StateEvents = {} THEN "none" ELSE timeline[Max(StateEvents)]

\* The file is never behind the timeline, and at most the one transition ahead
\* whose event is the next thing to be written.
TimelineFollowsFile ==
    Loads =>
        \/ meta.status = Announced
        \/ Program[pc] = Event(meta.status)

\* "The SQLite DB is an INDEX ... the file-system is the SOURCE OF TRUTH"
\* (investigation_memory.py:5): a filter by status may be late, it is never
\* ahead of what the file and the timeline say.
IndexIsLate ==
    index # "ABSENT" => index \in ToSet(timeline)

StoresAgree == TimelineFollowsFile /\ IndexIsLate

\* What people said and what the models answered leaves the file by no other
\* step than the orchestrator writing its own object over it, or a torn write.
OnlyOwnSavesForget ==
    [][Loads /\ Loads' /\ ~At("save") =>
          /\ meta'.feedback >= meta.feedback
          /\ meta'.traces >= meta.traces
          /\ meta'.status = meta.status]_vars

AwaitsHuman == At("review") /\ hitl

\* A run comes to an end, or waits for a person: no collection goes on for ever.
RunEnds == <>[](~Running \/ AwaitsHuman)
=============================================================================
