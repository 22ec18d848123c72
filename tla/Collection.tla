----------------------------- MODULE Collection -----------------------------
(***************************************************************************)
(* AdaptiveCollector.collect with the parts it calls: SourceSelector,      *)
(* QueryGenerator, BudgetManager, StoppingCriteria, MissingEvidence-       *)
(* Detector, Deduplicator and SourceValidator.                             *)
(*                                                                         *)
(* Observations are counted, not named: the loop looks at how many there   *)
(* are and nothing else.  Of the registry only the sources that have a     *)
(* sensor are kept; the others are selected and then set aside.            *)
(***************************************************************************)
EXTENDS Naturals, FiniteSetsExt, SequencesExt

CONSTANTS
    Needs,            \* the source types of the collection plan
    Answers,          \* for each sensor, the needs its category or domains match
    MinObservations,  \* StoppingCriteria.min_observations (15)
    MaxRounds,        \* StoppingCriteria.max_rounds (2)
    MaxArticles,      \* BudgetManager.max_articles (200)
    GdeltYields,      \* how many events one GDELT update may bring
    PlannedQueries    \* how many News queries the model may plan

Basic   == {"gdelt", "google_news"}
Sensors == Basic \cup {"acled", "ofac_sipri"}

ASSUME CollectionAssumption ==
    /\ Answers \in [Sensors -> SUBSET Needs]
    /\ MinObservations \in Nat /\ MaxRounds \in Nat /\ MaxArticles \in Nat
    /\ GdeltYields \subseteq Nat /\ PlannedQueries \subseteq Nat

VARIABLES
    stage,     \* the step of collect() that comes next, or "idle"
    sources,   \* the available sources of this collection
    news,      \* queries["News"], as where each query came from
    rounds,    \* round_num
    raw,       \* len(all_observations)
    asked,     \* the News queries of the last round
    evidence,  \* len(final_obs)
    needs      \* CollectionNeed.status

collecting == <<stage, sources, news, rounds, raw, asked, evidence, needs>>

QueriesPerRound == 5
PerQuery        == 5

CollectionInit ==
    /\ stage = "idle"
    /\ sources = {}
    /\ news = <<>>
    /\ rounds = 0
    /\ raw = 0
    /\ asked = <<>>
    /\ evidence = 0
    /\ needs = [n \in Needs |-> "Pending"]

CollectionTypeOK ==
    /\ stage \in {"idle", "queries", "check", "round", "steer", "settle", "report"}
    /\ sources \subseteq Sensors
    /\ news \in Seq({"title", "planned", "gap"})
    /\ rounds \in Nat
    /\ raw \in Nat
    /\ asked \in Seq({"title", "planned", "gap"})
    /\ evidence \in Nat
    /\ needs \in [Needs -> {"Pending", "Collected", "Skipped"}]

-----------------------------------------------------------------------------
\* SourceSelector.select: the reranker's ten, or the sources whose domains meet
\* the scope; the two basic ones are always added.
SelectSources ==
    /\ stage = "idle"
    /\ stage' = "queries"
    /\ \E more \in SUBSET (Sensors \ Basic) : sources' = Basic \cup more
    /\ UNCHANGED <<news, rounds, raw, asked, evidence, needs>>

\* The model plans queries per category.  It may leave News out (the title is
\* then the only query) or empty; when it fails there are fallback queries.
GenerateQueries ==
    /\ stage = "queries"
    /\ stage' = "check"
    /\ \/ news' = <<"title">>
       \/ \E n \in PlannedQueries : news' = [i \in 1..n |-> "planned"]
    /\ UNCHANGED <<sources, rounds, raw, asked, evidence, needs>>

-----------------------------------------------------------------------------
(***************************************************************************)
(* The rounds.  can_collect() is false when the articles or the five       *)
(* minutes are used up; the clock is not modelled, so time may be up at    *)
(* any check.  No collection has a cost.                                   *)
(***************************************************************************)

\* Mutant: one round more than max_rounds.
ShouldStopLate(timeUp) ==
    \/ timeUp
    \/ raw >= MaxArticles
    \/ rounds > MaxRounds
    \/ raw >= MinObservations /\ rounds >= 1

\* StoppingCriteria.should_stop of the current counts.
ShouldStop(timeUp) ==
    \/ timeUp
    \/ raw >= MaxArticles
    \/ rounds >= MaxRounds
    \/ raw >= MinObservations /\ rounds >= 1

CheckLoop ==
    /\ stage = "check"
    /\ \E timeUp \in BOOLEAN : stage' = IF ShouldStop(timeUp) THEN "settle" ELSE "round"
    /\ UNCHANGED <<sources, news, rounds, raw, asked, evidence, needs>>

NewsQueries == SubSeq(news, 1, IF Len(news) < QueriesPerRound THEN Len(news) ELSE QueriesPerRound)

\* One round over the available sources; a sensor that fails brings nothing.
\* The ACLED and OFAC feeds have no fetch(): the AttributeError is caught and
\* they never bring anything.
CollectRound ==
    /\ stage = "round"
    /\ stage' = "steer"
    /\ rounds' = rounds + 1
    /\ asked' = NewsQueries
    /\ \E events \in GdeltYields, answered \in 0..Len(NewsQueries) :
          raw' = raw + events + answered * PerQuery
    /\ UNCHANGED <<sources, news, evidence, needs>>

\* After a round that does not end the loop, the gaps become News queries,
\* after those that are there; the detector may find none.
Gaps == IF raw = 0 THEN {1} ELSE {0, 3}

Steered(gaps) ==
    IF gaps = 0 THEN news
    ELSE (IF news = <<"title">> THEN <<>> ELSE news) \o [i \in 1..gaps |-> "gap"]

SteerRound ==
    /\ stage = "steer"
    /\ stage' = "check"
    /\ \E timeUp \in BOOLEAN, gaps \in Gaps : news' = IF ShouldStop(timeUp) THEN news ELSE Steered(gaps)
    /\ UNCHANGED <<sources, rounds, raw, asked, evidence, needs>>

\* The model may have planned News as text or as an object, and what has no extend()
\* raises.  Without News there is a new list, and what was extended once is a list.
SteerRaises ==
    /\ stage = "steer"
    /\ news # <<"title">> /\ "gap" \notin ToSet(news)
    /\ \E timeUp \in BOOLEAN : ~ShouldStop(timeUp)
    /\ UNCHANGED collecting

-----------------------------------------------------------------------------
\* Deduplicator: a batch of at most one is returned as it is.  Otherwise all of
\* it (no duplicate, or embedding failed), or one observation of each cluster.
Unique == IF raw <= 1 THEN {raw} ELSE {1, raw}

\* SourceValidator: the classifier may reject any of them; the fallback scores
\* are all at or above the threshold.
Validated(unique) == {0, unique}

\* _update_collection_status: by the sources that were available, whatever they
\* brought.
Settled == [n \in Needs |-> IF \E s \in sources : n \in Answers[s] THEN "Collected" ELSE "Skipped"]

\* collect() returns: its locals are gone, the timeline event of the collection
\* is still to be written.
Settle ==
    /\ stage = "settle"
    /\ stage' = "report"
    /\ \E unique \in Unique : evidence' \in Validated(unique)
    /\ needs' = Settled
    /\ sources' = {} /\ news' = <<>> /\ asked' = <<>> /\ raw' = 0
    /\ UNCHANGED rounds

-----------------------------------------------------------------------------
\* StoppingCriteria and BudgetManager: a round starts only below max_rounds and
\* below the article budget, and after the first one only without enough
\* observations - whatever the sensors brought and whenever time was up.
RoundsWithinBudget ==
    [][rounds' # rounds =>
          /\ rounds < MaxRounds
          /\ raw < MaxArticles
          /\ rounds >= 1 => raw < MinObservations]_collecting
=============================================================================
