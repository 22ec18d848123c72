------------------------ MODULE Investigation_proofs ------------------------
(***************************************************************************)
(* Theorems about Investigation and the collection inside it, for any      *)
(* plan, any sources, any yields and any limits.                           *)
(***************************************************************************)
EXTENDS Investigation, TLAPS

\* What the loop has checked when a round is to start.
RoundAllowed ==
    stage = "round" =>
        /\ rounds < MaxRounds
        /\ raw < MaxArticles
        /\ rounds >= 1 => raw < MinObservations

\* The counts are numbers.
CountsOK == rounds \in Nat /\ raw \in Nat

BudgetInv == CountsOK /\ RoundAllowed

RoundStep ==
    rounds' # rounds =>
        /\ rounds < MaxRounds
        /\ raw < MaxArticles
        /\ rounds >= 1 => raw < MinObservations

-----------------------------------------------------------------------------
\* Only Collect touches the variables of the collection.
LEMMA CollectionSteps ==
    ASSUME [Next]_vars
    PROVE  \/ SelectSources \/ GenerateQueries \/ CheckLoop \/ CollectRound \/ SteerRound \/ Settle
           \/ UNCHANGED collecting
  <1>1. CASE Collect
    BY <1>1 DEF Collect, SteerRaises
  <1>2. CASE ~Collect
    BY <1>2 DEF Next, Step, vars, CheckTransition, SaveHeld, IndexHeld, AppendTimeline, SkipReview,
                HumanReviews, CallReturns, CallRaises, Crash
  <1> QED
    BY <1>1, <1>2

\* What a round brings is counted in numbers.
LEMMA RoundCounts ==
    ASSUME CountsOK, CollectRound
    PROVE  CountsOK' /\ rounds' = rounds + 1 /\ stage' = "steer"
  <1>1. rounds' = rounds + 1 /\ stage' = "steer"
    BY DEF CollectRound
  <1>2. PICK events \in GdeltYields, answered \in 0..Len(NewsQueries) :
          raw' = raw + events + answered * PerQuery
    BY DEF CollectRound
  <1>3. events \in Nat /\ answered \in Nat
    BY CollectionAssumption
  <1> QED
    BY <1>1, <1>2, <1>3 DEF CountsOK, PerQuery

\* Every step keeps the budget, and spends it one round at a time.
LEMMA BudgetStep ==
    ASSUME BudgetInv, [Next]_vars
    PROVE  BudgetInv' /\ [RoundStep]_collecting
  <1>1. CASE SelectSources \/ GenerateQueries \/ SteerRound
    BY <1>1 DEF SelectSources, GenerateQueries, SteerRound, BudgetInv, CountsOK, RoundAllowed, RoundStep
  <1>2. CASE CheckLoop
    <2>1. PICK timeUp \in BOOLEAN : stage' = IF ShouldStop(timeUp) THEN "settle" ELSE "round"
      BY <1>2 DEF CheckLoop
    <2>2. rounds' = rounds /\ raw' = raw
      BY <1>2 DEF CheckLoop
    <2>3. stage' = "round" => ~ShouldStop(timeUp)
      BY <2>1
    <2>4. stage' = "round" => rounds < MaxRounds /\ raw < MaxArticles /\ (rounds >= 1 => raw < MinObservations)
      BY <2>3, CollectionAssumption DEF ShouldStop, BudgetInv, CountsOK
    <2> QED
      BY <2>2, <2>4 DEF BudgetInv, CountsOK, RoundAllowed, RoundStep
  <1>3. CASE CollectRound
    <2>1. stage = "round"
      BY <1>3 DEF CollectRound
    <2> QED
      BY <1>3, <2>1, RoundCounts DEF BudgetInv, RoundAllowed, RoundStep
  <1>4. CASE Settle
    BY <1>4 DEF Settle, BudgetInv, CountsOK, RoundAllowed, RoundStep
  <1>5. CASE UNCHANGED collecting
    BY <1>5 DEF collecting, BudgetInv, CountsOK, RoundAllowed
  <1> QED
    BY <1>1, <1>2, <1>3, <1>4, <1>5, CollectionSteps

\* No collection starts a round beyond its limits: whatever the sensors bring, and
\* for any limits, a round begins below the two budgets and, after the first,
\* only without enough observations.
THEOREM Budgeted == Spec => RoundsWithinBudget
  <1>1. Init => BudgetInv
    BY DEF Init, CollectionInit, BudgetInv, CountsOK, RoundAllowed
  <1>2. BudgetInv /\ [Next]_vars => BudgetInv'
    BY BudgetStep
  <1>3. BudgetInv /\ [Next]_vars => [RoundStep]_collecting
    BY BudgetStep
  <1>4. Spec => [][RoundStep]_collecting
    BY <1>1, <1>2, <1>3, PTL DEF Spec
  <1> QED
    BY <1>4 DEF RoundsWithinBudget, RoundStep

-----------------------------------------------------------------------------
(***************************************************************************)
(* What the three writers of metadata.json do to each other.               *)
(***************************************************************************)

\* metadata.json counts what was appended to it.
MetaOK ==
    /\ meta = [status |-> meta.status, feedback |-> meta.feedback, traces |-> meta.traces]
    /\ meta.feedback \in Nat /\ meta.traces \in Nat

ForgetStep ==
    Loads /\ Loads' /\ ~At("save") =>
        /\ meta'.feedback >= meta.feedback
        /\ meta'.traces >= meta.traces
        /\ meta'.status = meta.status

\* What is recorded beside a run adds to its metadata and keeps the status on file.
LEMMA RecordsKeep ==
    ASSUME MetaOK, Records
    PROVE  /\ MetaOK'
           /\ meta'.feedback >= meta.feedback /\ meta'.traces >= meta.traces
           /\ meta'.status = meta.status
  <1>1. CASE UNCHANGED <<meta, index>>
    BY <1>1 DEF MetaOK
  <1>2. CASE meta' = [meta EXCEPT !.traces = @ + 1]
    <2>1. meta' = [status |-> meta.status, feedback |-> meta.feedback, traces |-> meta.traces + 1]
      BY <1>2 DEF MetaOK
    <2> QED
      BY <2>1 DEF MetaOK
  <1> QED
    BY <1>1, <1>2 DEF Records

\* Only the save of the run itself takes counted feedback or traces off the file.
LEMMA ForgetsOnlyItself ==
    ASSUME MetaOK, [Next]_vars
    PROVE  MetaOK' /\ ForgetStep
  <1>1. CASE SaveHeld
    BY <1>1 DEF SaveHeld, Held, MetaOK, ForgetStep
  <1>2. CASE HumanReviews
    <2>1. CASE meta' = [meta EXCEPT !.feedback = @ + 1]
      <3>1. meta' = [status |-> meta.status, feedback |-> meta.feedback + 1, traces |-> meta.traces]
        BY <2>1 DEF MetaOK
      <3> QED
        BY <3>1 DEF MetaOK, ForgetStep
    <2>2. CASE meta' = meta
      BY <2>2 DEF MetaOK, ForgetStep
    <2> QED
      BY <1>2, <2>1, <2>2 DEF HumanReviews
  <1>3. CASE Records
    BY <1>3, RecordsKeep DEF ForgetStep
  <1>4. CASE Crash
    <2>1. meta' = meta \/ meta' = [status |-> "TORN", feedback |-> 0, traces |-> 0]
      BY <1>4 DEF Crash, Unreadable
    <2>2. "TORN" \notin Statuses
      BY DEF Statuses, Lifecycle, ToSet
    <2> QED
      BY <2>1, <2>2 DEF MetaOK, ForgetStep, Loads
  <1>5. CASE meta' = meta
    BY <1>5 DEF MetaOK, ForgetStep
  <1> QED
    BY <1>1, <1>2, <1>3, <1>4, <1>5
       DEF Next, Step, vars, run, CheckTransition, IndexHeld, AppendTimeline, SkipReview,
           CallReturns, CallRaises, Collect

\* Human feedback and model traces are lost to no other step than the orchestrator
\* saving its own object over them, in any plan and with any number of traces.
THEOREM Forgetting == Spec => OnlyOwnSavesForget
  <1>1. Init => MetaOK
    BY DEF Init, Unreadable, MetaOK
  <1>2. MetaOK /\ [Next]_vars => MetaOK'
    BY ForgetsOnlyItself
  <1>3. MetaOK /\ [Next]_vars => [ForgetStep]_vars
    BY ForgetsOnlyItself
  <1>4. Spec => [][ForgetStep]_vars
    BY <1>1, <1>2, <1>3, PTL DEF Spec
  <1> QED
    BY <1>4 DEF OnlyOwnSavesForget, ForgetStep

-----------------------------------------------------------------------------
(***************************************************************************)
(* The plan of the nodes, as a sequence of operations.                     *)
(***************************************************************************)
Sequence(s) == \E S : s \in Seq(S)

\* Past its first n operations a plan checks a transition only to save and announce
\* it, and announces a status only as the end of a transition to it.
OrderlyAfter(s, n) ==
    /\ Sequence(s)
    /\ n \in 0..Len(s)
    /\ \A i \in (n + 1)..Len(s) :
          /\ s[i][1] = "check" =>
                /\ i + 2 <= Len(s)
                /\ s[i][2] \in Statuses
                /\ s[i + 1] = Save
                /\ s[i + 2] = Event(s[i][2])
          /\ s[i][1] = "event" /\ s[i][2] \in Statuses =>
                /\ i >= n + 3
                /\ s[i - 1] = Save
                /\ s[i - 2] = <<"check", s[i][2]>>

Orderly(s) == OrderlyAfter(s, 0)

\* Putting an orderly block behind a plan keeps it orderly, and its opening.
LEMMA OrderlyConcat ==
    ASSUME NEW s, NEW t, NEW n, OrderlyAfter(s, n), Orderly(t)
    PROVE  /\ OrderlyAfter(s \o t, n)
           /\ \A i \in 1..n : (s \o t)[i] = s[i]
  <1> DEFINE c == s \o t
  <1>1. PICK S, T : s \in Seq(S) /\ t \in Seq(T)
    BY DEF OrderlyAfter, Orderly, Sequence
  <1>2. s \in Seq(S \cup T) /\ t \in Seq(S \cup T)
    BY <1>1
  <1>3. /\ c \in Seq(S \cup T)
        /\ Len(s) \in Nat /\ Len(t) \in Nat /\ n \in 0..Len(s)
        /\ Len(c) = Len(s) + Len(t)
    BY <1>2 DEF OrderlyAfter, Orderly
  <1>4. \A i \in 1..Len(s) : c[i] = s[i]
    BY <1>2, <1>3
  <1>5. \A i \in 1..Len(t) : c[Len(s) + i] = t[i]
    BY <1>2, <1>3
  <1> HIDE DEF c
  <1>6. ASSUME NEW i \in (n + 1)..Len(c)
        PROVE  /\ c[i][1] = "check" =>
                     /\ i + 2 <= Len(c)
                     /\ c[i][2] \in Statuses
                     /\ c[i + 1] = Save
                     /\ c[i + 2] = Event(c[i][2])
               /\ c[i][1] = "event" /\ c[i][2] \in Statuses =>
                     /\ i >= n + 3
                     /\ c[i - 1] = Save
                     /\ c[i - 2] = <<"check", c[i][2]>>
    <2>1. CASE i <= Len(s)
      <3>1. i \in (n + 1)..Len(s) /\ c[i] = s[i]
        BY <1>3, <1>4, <2>1
      <3>2. CASE s[i][1] = "check"
        <4>1. i + 2 <= Len(s) /\ s[i][2] \in Statuses /\ s[i + 1] = Save /\ s[i + 2] = Event(s[i][2])
          BY <3>1, <3>2 DEF OrderlyAfter
        <4>2. i + 1 \in 1..Len(s) /\ i + 2 \in 1..Len(s)
          BY <1>3, <3>1, <4>1
        <4>3. c[i + 1] = s[i + 1] /\ c[i + 2] = s[i + 2]
          BY <1>4, <4>2
        <4> QED
          BY <1>3, <3>1, <3>2, <4>1, <4>3
      <3>3. CASE s[i][1] = "event" /\ s[i][2] \in Statuses
        <4>1. i >= n + 3 /\ s[i - 1] = Save /\ s[i - 2] = <<"check", s[i][2]>>
          BY <3>1, <3>3 DEF OrderlyAfter
        <4>2. i - 1 \in 1..Len(s) /\ i - 2 \in 1..Len(s)
          BY <1>3, <2>1, <3>1, <4>1
        <4>3. c[i - 1] = s[i - 1] /\ c[i - 2] = s[i - 2]
          BY <1>4, <4>2
        <4> QED
          BY <3>1, <3>3, <4>1, <4>3
      <3> QED
        BY <3>1, <3>2, <3>3
    <2>2. CASE i > Len(s)
      <3> DEFINE j == i - Len(s)
      <3>1. j \in 1..Len(t) /\ i = Len(s) + j
        BY <1>3, <2>2
      <3> HIDE DEF j
      <3>2. c[i] = t[j]
        BY <1>5, <3>1
      <3>3. CASE t[j][1] = "check"
        <4>1. j + 2 <= Len(t) /\ t[j][2] \in Statuses /\ t[j + 1] = Save /\ t[j + 2] = Event(t[j][2])
          BY <1>3, <3>1, <3>3 DEF OrderlyAfter, Orderly
        <4>2. c[i + 1] = t[j + 1] /\ c[i + 2] = t[j + 2]
          <5>1. j + 1 \in 1..Len(t) /\ j + 2 \in 1..Len(t)
            BY <1>3, <3>1, <4>1
          <5>2. i + 1 = Len(s) + (j + 1) /\ i + 2 = Len(s) + (j + 2)
            BY <1>3, <3>1
          <5> QED
            BY <1>5, <5>1, <5>2
        <4> QED
          BY <1>3, <3>1, <3>2, <3>3, <4>1, <4>2
      <3>4. CASE t[j][1] = "event" /\ t[j][2] \in Statuses
        <4>1. j \in (0 + 1)..Len(t) /\ OrderlyAfter(t, 0)
          BY <3>1 DEF Orderly
        <4>2. j >= 0 + 3 /\ t[j - 1] = Save /\ t[j - 2] = <<"check", t[j][2]>>
          BY <3>4, <4>1 DEF OrderlyAfter
        <4>3. c[i - 1] = t[j - 1] /\ c[i - 2] = t[j - 2]
          <5>1. j - 1 \in 1..Len(t) /\ j - 2 \in 1..Len(t)
            BY <1>3, <3>1, <4>2
          <5>2. i - 1 = Len(s) + (j - 1) /\ i - 2 = Len(s) + (j - 2)
            BY <1>3, <3>1
          <5> QED
            BY <1>5, <5>1, <5>2
        <4> QED
          BY <1>3, <3>1, <3>2, <3>4, <4>2, <4>3
      <3> QED
        BY <3>2, <3>3, <3>4
    <2> QED
      BY <1>3, <2>1, <2>2
  <1>7. OrderlyAfter(c, n)
    BY <1>3, <1>6 DEF OrderlyAfter, Sequence
  <1>8. \A i \in 1..n : c[i] = s[i]
    BY <1>3, <1>4
  <1> QED
    BY <1>7, <1>8 DEF c

\* The lifecycle, as a set.
LEMMA StatusesAre ==
    Statuses = {"CREATED", "PLANNING", "COLLECTING", "ANALYZING", "REASONING",
                "FORECASTING", "REPORTING", "MONITORING", "ARCHIVED"}
  <1>1. DOMAIN Lifecycle = 1..9
    BY DEF Lifecycle
  <1>2. Statuses = {Lifecycle[i] : i \in 1..9}
    BY <1>1 DEF Statuses, ToSet
  <1>3. 1..9 = {1, 2, 3, 4, 5, 6, 7, 8, 9}
    OBVIOUS
  <1> QED
    BY <1>2, <1>3 DEF Lifecycle

\* A transition is orderly, and so is a block with neither check nor status.
LEMMA OrderlyTransition ==
    ASSUME NEW to \in Statuses
    PROVE  Orderly(Transition(to))
  <1>1. Transition(to) \in Seq({<<"check", to>>, Save, Event(to)})
    BY DEF Transition
  <1>2. Sequence(Transition(to)) /\ Len(Transition(to)) = 3
    BY <1>1 DEF Transition, Sequence
  <1>3. /\ Transition(to)[1] = <<"check", to>>
        /\ Transition(to)[2] = Save
        /\ Transition(to)[3] = Event(to)
    BY DEF Transition
  <1>4. 1..3 = {1, 2, 3}
    OBVIOUS
  <1> QED
    BY <1>2, <1>3, <1>4 DEF Orderly, OrderlyAfter, Save, Event

Plain(s) ==
    /\ Sequence(s)
    /\ \A i \in 1..Len(s) : s[i][1] # "check" /\ (s[i][1] = "event" => s[i][2] \notin Statuses)

\* A plain stretch of the program is in order.
LEMMA OrderlyPlain ==
    ASSUME NEW s, Plain(s)
    PROVE  Orderly(s)
  BY DEF Plain, Orderly, OrderlyAfter

\* Stretches without a check and without an announced status are plain: of two operations,
LEMMA PlainTwo ==
    ASSUME NEW a, NEW b,
           a[1] # "check", b[1] # "check",
           a[1] = "event" => a[2] \notin Statuses,
           b[1] = "event" => b[2] \notin Statuses
    PROVE  Plain(<<a, b>>)
  <1> DEFINE s == <<a, b>>
  <1>1. s \in Seq({a, b}) /\ Len(s) = 2
    OBVIOUS
  <1>2. 1..2 = {1, 2}
    OBVIOUS
  <1>3. s[1] = a /\ s[2] = b
    OBVIOUS
  <1> QED
    BY <1>1, <1>2, <1>3 DEF Plain, Sequence

\* of three,
LEMMA PlainThree ==
    ASSUME NEW a, NEW b, NEW c,
           a[1] # "check", b[1] # "check", c[1] # "check",
           a[1] = "event" => a[2] \notin Statuses,
           b[1] = "event" => b[2] \notin Statuses,
           c[1] = "event" => c[2] \notin Statuses
    PROVE  Plain(<<a, b, c>>)
  <1> DEFINE s == <<a, b, c>>
  <1>1. s \in Seq({a, b, c}) /\ Len(s) = 3
    OBVIOUS
  <1>2. 1..3 = {1, 2, 3}
    OBVIOUS
  <1>3. s[1] = a /\ s[2] = b /\ s[3] = c
    OBVIOUS
  <1> QED
    BY <1>1, <1>2, <1>3 DEF Plain, Sequence

\* and of four.
LEMMA PlainFour ==
    ASSUME NEW a, NEW b, NEW c, NEW d,
           a[1] # "check", b[1] # "check", c[1] # "check", d[1] # "check",
           a[1] = "event" => a[2] \notin Statuses,
           b[1] = "event" => b[2] \notin Statuses,
           c[1] = "event" => c[2] \notin Statuses,
           d[1] = "event" => d[2] \notin Statuses
    PROVE  Plain(<<a, b, c, d>>)
  <1> DEFINE s == <<a, b, c, d>>
  <1>1. s \in Seq({a, b, c, d}) /\ Len(s) = 4
    OBVIOUS
  <1>2. 1..4 = {1, 2, 3, 4}
    OBVIOUS
  <1>3. s[1] = a /\ s[2] = b /\ s[3] = c /\ s[4] = d
    OBVIOUS
  <1> QED
    BY <1>1, <1>2, <1>3 DEF Plain, Sequence

\* The opening: the planner, the first save and the first event.
Opened(s) ==
    /\ OrderlyAfter(s, 3)
    /\ s[1] = Call("planner") /\ s[2] = Save /\ s[3] = Event("CREATED")

\* A program that opens as create() does still does with more behind it.
LEMMA OpenedConcat ==
    ASSUME NEW s, NEW t, Opened(s), Orderly(t)
    PROVE  Opened(s \o t)
  <1>1. OrderlyAfter(s, 3) /\ 1 \in 1..3 /\ 2 \in 1..3 /\ 3 \in 1..3
    BY DEF Opened
  <1>2. OrderlyAfter(s \o t, 3) /\ \A i \in 1..3 : (s \o t)[i] = s[i]
    BY <1>1, OrderlyConcat
  <1> QED
    BY <1>1, <1>2 DEF Opened

\* One operation and two are three.
LEMMA OneAndTwo ==
    ASSUME NEW a, NEW b, NEW c
    PROVE  /\ <<a>> \o <<b, c>> \in Seq({a, b, c})
           /\ Len(<<a>> \o <<b, c>>) = 3
           /\ (<<a>> \o <<b, c>>)[1] = a /\ (<<a>> \o <<b, c>>)[2] = b /\ (<<a>> \o <<b, c>>)[3] = c
  OBVIOUS

\* The program of a new investigation opens so.
LEMMA OpenedOpening == Opened(<<Call("planner")>> \o Create)
  <1>1. Create = <<Save, Event("CREATED")>>
    BY DEF Create
  <1> DEFINE s == <<Call("planner")>> \o Create
  <1>2. /\ s \in Seq({Call("planner"), Save, Event("CREATED")})
        /\ Len(s) = 3
        /\ s[1] = Call("planner") /\ s[2] = Save /\ s[3] = Event("CREATED")
    BY <1>1, OneAndTwo
  <1> HIDE DEF s
  <1>3. Opened(s)
    BY <1>2 DEF Opened, OrderlyAfter, Sequence
  <1> QED
    BY <1>3 DEF s

\* The plan of the nodes: the opening, and everything after it orderly.
LEMMA ProgramOrderly == Opened(Program)
  <1> USE DEF Call, Review, Save, Event, Index
  <1>1. Orderly(SaveAndIndex)
    BY PlainTwo, OrderlyPlain DEF SaveAndIndex
  <1>2. /\ Orderly(Transition("PLANNING")) /\ Orderly(Transition("COLLECTING"))
        /\ Orderly(Transition("ANALYZING")) /\ Orderly(Transition("FORECASTING"))
        /\ Orderly(Transition("REPORTING")) /\ Orderly(Transition("MONITORING"))
    BY OrderlyTransition, StatusesAre
  <1>3. Opened(NodePlanning)
    <2>1. Orderly(<<Review("objective"), Review("scope")>>)
      BY PlainTwo, OrderlyPlain
    <2> QED
      BY <1>1, <1>2, <2>1, OpenedOpening, OpenedConcat DEF NodePlanning
  <1>4. Orderly(NodeCollection)
    <2>1. Orderly(<<<<"collect", "rounds">>, Event("COLLECTION_COMPLETE"), Save, Event("DATA_COLLECTED")>>)
      BY PlainFour, OrderlyPlain, StatusesAre
    <2> QED
      BY <1>2, <2>1, OrderlyConcat DEF NodeCollection, Orderly
  <1>5. Orderly(NodeWorldModel)
    <2>1. Orderly(<<Call("claims"), Save, Event("WORLD_MODEL_SAVED"), Review("world model")>>)
      BY PlainFour, OrderlyPlain, StatusesAre
    <2> QED
      BY <1>2, <2>1, OrderlyConcat DEF NodeWorldModel, Orderly
  <1>6. Orderly(NodeReasoning)
    BY PlainFour, OrderlyPlain, StatusesAre DEF NodeReasoning
  <1>7. Orderly(NodeForecasting)
    <2>1. Orderly(<<Call("forecast"), Call("metadata"), Save>>)
      BY PlainThree, OrderlyPlain
    <2> QED
      BY <1>2, <2>1, OrderlyConcat DEF NodeForecasting, Orderly
  <1>8. Orderly(NodeWorkspace)
    <2>1. Orderly(<<Call("workspace"), Call("metadata"), Call("checkpoint_with_edits"), Save>>)
      BY PlainFour, OrderlyPlain
    <2> QED
      BY <1>2, <2>1, OrderlyConcat DEF NodeWorkspace, Orderly
  <1>9. Orderly(NodeLearning)
    BY PlainThree, OrderlyPlain DEF NodeLearning
  <1>10. Orderly(NodeFinalize)
    <2>1. Orderly(<<Call("export"), Event("PIPELINE_COMPLETE")>>)
      BY PlainTwo, OrderlyPlain, StatusesAre
    <2>2. Orderly(Transition("MONITORING") \o SaveAndIndex)
      BY <1>1, <1>2, OrderlyConcat DEF Orderly
    <2> QED
      BY <2>1, <2>2, OrderlyConcat DEF NodeFinalize, Orderly
  <1> DEFINE p2 == NodePlanning \o NodeCollection
             p3 == p2 \o NodeWorldModel
             p4 == p3 \o NodeReasoning
             p5 == p4 \o NodeForecasting
             p6 == p5 \o NodeWorkspace
             p7 == p6 \o NodeLearning
             p8 == p7 \o NodeFinalize
  <1>11. Opened(p2)
    BY <1>3, <1>4, OpenedConcat
  <1>12. Opened(p3)
    BY <1>5, <1>11, OpenedConcat
  <1>13. Opened(p4)
    BY <1>6, <1>12, OpenedConcat
  <1>14. Opened(p5)
    BY <1>7, <1>13, OpenedConcat
  <1>15. Opened(p6)
    BY <1>8, <1>14, OpenedConcat
  <1>16. Opened(p7)
    BY <1>9, <1>15, OpenedConcat
  <1>17. Opened(p8)
    BY <1>10, <1>16, OpenedConcat
  <1>18. Program = p8
    BY DEF Program
  <1> QED
    BY <1>17, <1>18

-----------------------------------------------------------------------------
(***************************************************************************)
(* The object, the file, the timeline and the row, at each operation.      *)
(***************************************************************************)

\* The operation n places back is the check of a transition.
After(n) == pc > 3 + n /\ Program[pc - n][1] = "check"

PlaceOK ==
    /\ pc \in 1..(Len(Program) + 1)
    /\ Running => pc <= Len(Program) /\ meta.status # "TORN"

OpeningOK ==
    pc <= 3 =>
        /\ held = "CREATED" /\ index = "ABSENT" /\ timeline = <<>>
        /\ ~Loads \/ (pc = 3 /\ meta.status = "CREATED")
        /\ pc = 3 /\ Running => meta.status = "CREATED"

\* After the check only the object has moved, after the save the file too, and
\* after the event all three agree.
StagesOK ==
    pc > 3 /\ meta.status # "TORN" =>
        IF After(1) THEN held = Program[pc - 1][2] /\ meta.status = Announced
        ELSE IF After(2) THEN held = Program[pc - 2][2] /\ meta.status = held
        ELSE held = Announced /\ meta.status = held

TimelineOK ==
    /\ held \in Statuses
    /\ Sequence(timeline)
    /\ StateEvents # {} => Max(StateEvents) \in StateEvents
    /\ pc > 3 => Announced \in ToSet(timeline)

StoresInv ==
    /\ MetaOK /\ PlaceOK /\ OpeningOK /\ StagesOK /\ TimelineOK
    /\ IndexIsLate

\* One event more: what was known stays known, and the last status is the new one
\* if it is a status.
LEMMA AppendedEvent ==
    ASSUME Sequence(timeline), NEW e, timeline' = Append(timeline, e),
           StateEvents # {} => Max(StateEvents) \in StateEvents
    PROVE  /\ Sequence(timeline)'
           /\ (StateEvents # {} => Max(StateEvents) \in StateEvents)'
           /\ ToSet(timeline)' = ToSet(timeline) \cup {e}
           /\ e \in Statuses => Announced' = e
           /\ e \notin Statuses => Announced' = Announced
  <1>1. PICK S : timeline \in Seq(S)
    BY DEF Sequence
  <1>2. timeline \in Seq(S \cup {e}) /\ timeline' \in Seq(S \cup {e})
    BY <1>1
  <1> DEFINE n == Len(timeline)
  <1>3. /\ n \in Nat
        /\ DOMAIN timeline = 1..n
        /\ DOMAIN timeline' = 1..(n + 1)
        /\ timeline'[n + 1] = e
        /\ \A i \in 1..n : timeline'[i] = timeline[i]
    BY <1>1, <1>2
  <1> HIDE DEF n
  <1>4. ToSet(timeline)' = ToSet(timeline) \cup {e}
    <2>1. 1..(n + 1) = 1..n \cup {n + 1}
      BY <1>3
    <2> QED
      BY <1>3, <2>1 DEF ToSet
  <1>5. CASE e \in Statuses
    <2>1. StateEvents' = StateEvents \cup {n + 1}
      BY <1>3, <1>5 DEF StateEvents
    <2>2. StateEvents \subseteq 1..n
      BY <1>3 DEF StateEvents
    <2>3. Max(StateEvents') = n + 1
      BY <1>3, <2>1, <2>2 DEF Max
    <2> QED
      BY <1>2, <1>3, <1>4, <1>5, <2>1, <2>3 DEF Announced, Sequence
  <1>6. CASE e \notin Statuses
    <2>1. StateEvents' = StateEvents
      BY <1>3, <1>6 DEF StateEvents
    <2>2. StateEvents \subseteq 1..n
      BY <1>3 DEF StateEvents
    <2> QED
      BY <1>2, <1>3, <1>4, <1>6, <2>1, <2>2 DEF Announced, Sequence
  <1> QED
    BY <1>5, <1>6

\* What the plan says about the operation that comes next.
LEMMA NextOperation ==
    ASSUME PlaceOK, Running
    PROVE  /\ pc \in 1..Len(Program) /\ pc \in Nat /\ Len(Program) \in Nat
           /\ pc = 1 => Program[pc] = Call("planner")
           /\ pc = 2 => Program[pc] = Save
           /\ pc = 3 => Program[pc] = Event("CREATED")
           /\ At("check") => pc > 3 /\ Operand \in Statuses
           /\ pc > 3 /\ At("event") /\ Operand \in Statuses =>
                 After(2) /\ Operand = Program[pc - 2][2] /\ Program[pc - 1] = Save
           /\ After(1) => Program[pc] = Save
           /\ After(2) => Program[pc - 1] = Save /\ Program[pc] = Event(Program[pc - 2][2])
                            /\ Program[pc - 2][2] \in Statuses
  <1>1. /\ Len(Program) \in Nat /\ 3 \in 0..Len(Program)
        /\ Program[1] = Call("planner") /\ Program[2] = Save /\ Program[3] = Event("CREATED")
    <2>1. PICK S : Program \in Seq(S)
      BY ProgramOrderly DEF Opened, OrderlyAfter, Sequence
    <2> QED
      BY <2>1, ProgramOrderly DEF Opened, OrderlyAfter
  <1>2. pc \in 1..Len(Program) /\ pc \in Nat
    BY <1>1 DEF PlaceOK
  <1> DEFINE L == Len(Program)
  <1>3. \A i \in 4..L :
          /\ Program[i][1] = "check" =>
                /\ i + 2 <= L
                /\ Program[i][2] \in Statuses
                /\ Program[i + 1] = Save
                /\ Program[i + 2] = Event(Program[i][2])
          /\ Program[i][1] = "event" /\ Program[i][2] \in Statuses =>
                /\ i >= 6
                /\ Program[i - 1] = Save
                /\ Program[i - 2] = <<"check", Program[i][2]>>
    BY ProgramOrderly DEF Opened, OrderlyAfter
  <1>4. L \in Nat /\ pc \in 1..L
    BY <1>1, <1>2
  <1> HIDE DEF L
  <1>5. At("check") => pc > 3 /\ Operand \in Statuses
    <2>1. ~(pc \in {1, 2, 3} /\ At("check"))
      BY <1>1 DEF At, Call, Save, Event
    <2>2. pc \in {1, 2, 3} \/ pc \in 4..L
      BY <1>4
    <2> QED
      BY <1>3, <1>4, <2>1, <2>2 DEF At, Operand
  <1>6. pc > 3 /\ At("event") /\ Operand \in Statuses =>
          After(2) /\ Operand = Program[pc - 2][2] /\ Program[pc - 1] = Save
    BY <1>3, <1>4 DEF At, Operand, After
  <1>7. After(1) => Program[pc] = Save
    <2> SUFFICES ASSUME After(1) PROVE Program[pc] = Save
      OBVIOUS
    <2>1. pc - 1 \in 4..L /\ Program[pc - 1][1] = "check"
      BY <1>4 DEF After
    <2>2. (pc - 1) + 1 = pc
      BY <1>4
    <2> QED
      BY <1>3, <2>1, <2>2
  <1>8. After(2) => Program[pc - 1] = Save /\ Program[pc] = Event(Program[pc - 2][2])
                      /\ Program[pc - 2][2] \in Statuses
    <2> SUFFICES ASSUME After(2)
                 PROVE  Program[pc - 1] = Save /\ Program[pc] = Event(Program[pc - 2][2])
                          /\ Program[pc - 2][2] \in Statuses
      OBVIOUS
    <2>1. pc - 2 \in 4..L /\ Program[pc - 2][1] = "check"
      BY <1>4 DEF After
    <2>2. (pc - 2) + 1 = pc - 1 /\ (pc - 2) + 2 = pc
      BY <1>4
    <2> QED
      BY <1>3, <2>1, <2>2
  <1> QED
    BY <1>1, <1>2, <1>5, <1>6, <1>7, <1>8

\* Two operations after a check comes its event, whether the run is still going or not.
LEMMA PlanAfterCheck ==
    ASSUME PlaceOK, After(2)
    PROVE  Program[pc] = Event(Program[pc - 2][2])
  <1> DEFINE L == Len(Program)
  <1>1. L \in Nat
    <2>1. PICK S : Program \in Seq(S)
      BY ProgramOrderly DEF Opened, OrderlyAfter, Sequence
    <2> QED
      BY <2>1
  <1>2. \A i \in 4..L : Program[i][1] = "check" => Program[i + 2] = Event(Program[i][2])
    BY ProgramOrderly DEF Opened, OrderlyAfter
  <1>3. pc \in 1..(L + 1)
    BY DEF PlaceOK
  <1> HIDE DEF L
  <1>4. pc - 2 \in 4..L /\ Program[pc - 2][1] = "check" /\ (pc - 2) + 2 = pc
    BY <1>1, <1>3 DEF After
  <1> QED
    BY <1>2, <1>4

\* Nothing is pending when an operation other than a save or an event comes next.
LEMMA NothingPending ==
    ASSUME StoresInv, Running, Program[pc] # Save, Program[pc][1] # "event", pc > 3
    PROVE  /\ ~After(1) /\ ~After(2)
           /\ held = Announced /\ meta.status = held /\ held \in ToSet(timeline)
  <1>1. ~After(1) /\ ~After(2)
    BY NextOperation DEF StoresInv, Event
  <1> QED
    BY <1>1 DEF StoresInv, StagesOK, TimelineOK, PlaceOK

\* Where the plan has got to, one operation on.
LEMMA OneOn ==
    ASSUME PlaceOK, Running, Advance
    PROVE  /\ pc \in Nat /\ pc >= 1 /\ pc' = pc + 1
           /\ pc' \in 1..(Len(Program) + 1)
           /\ Running' => pc' <= Len(Program)
           /\ After(1)' <=> pc > 3 /\ Program[pc][1] = "check"
           /\ After(2)' <=> After(1)
  <1>1. pc \in 1..Len(Program) /\ pc \in Nat /\ Len(Program) \in Nat
    BY NextOperation
  <1>2. pc' = pc + 1 /\ pc' - 1 = pc /\ pc' - 2 = pc - 1
    BY <1>1 DEF Advance
  <1>3. Running' => pc # Len(Program)
    BY DEF Advance, Running
  <1> QED
    BY <1>1, <1>2, <1>3 DEF After

\* What does not touch the timeline announces nothing.
LEMMA TimelineStays ==
    ASSUME timeline' = timeline
    PROVE  /\ Announced' = Announced /\ ToSet(timeline)' = ToSet(timeline)
           /\ StateEvents' = StateEvents
           /\ Sequence(timeline)' = Sequence(timeline)
  BY DEF Announced, StateEvents, Sequence

\* A transition that is allowed keeps the invariant: the save and the event are to come.
LEMMA CheckKeeps ==
    ASSUME StoresInv, CheckTransition, <<held, Operand>> \in ValidTransitions
    PROVE  StoresInv'
  <1>1. Running /\ Advance /\ held' = Operand /\ UNCHANGED <<meta, index, timeline>>
    BY DEF CheckTransition, At
  <1>2. At("check") /\ pc > 3 /\ Operand \in Statuses /\ Program[pc][1] = "check" /\ Program[pc] # Save
    BY <1>1, NextOperation DEF CheckTransition, At, StoresInv, Save
  <1>3. meta.status = Announced
    BY <1>1, <1>2, NothingPending
  <1>4. After(1)' /\ pc' = pc + 1 /\ pc' > 4 /\ PlaceOK' /\ Program[pc' - 1] = Program[pc]
    BY <1>1, <1>2, OneOn DEF StoresInv, PlaceOK
  <1>5. MetaOK' /\ OpeningOK'
    BY <1>1, <1>2, <1>4 DEF StoresInv, MetaOK, OpeningOK, PlaceOK
  <1>6. StagesOK'
    BY <1>1, <1>3, <1>4, TimelineStays DEF StagesOK, Operand
  <1>7. TimelineOK' /\ IndexIsLate'
    BY <1>1, <1>2, TimelineStays DEF StoresInv, TimelineOK, IndexIsLate
  <1> QED
    BY <1>4, <1>5, <1>6, <1>7 DEF StoresInv

\* So does the save of the status the run holds,
LEMMA SaveKeeps ==
    ASSUME StoresInv, SaveHeld
    PROVE  StoresInv'
  <1>1. /\ Running /\ Advance /\ UNCHANGED <<held, index, timeline>>
        /\ meta' = [status |-> held, feedback |-> 0, traces |-> 0]
    BY DEF SaveHeld, At, Held
  <1>2. MetaOK' /\ meta'.status = held
    BY <1>1 DEF MetaOK
  <1>3. Program[pc][1] = "save"
    BY DEF SaveHeld, At
  <1>4. pc' = pc + 1 /\ ~After(1)' /\ (After(2)' <=> After(1)) /\ pc \in Nat /\ pc >= 1
    BY <1>1, <1>3, OneOn DEF StoresInv
  <1>5. /\ pc # 1 /\ pc # 3 /\ ~After(2)
        /\ pc \in 1..Len(Program) /\ Len(Program) \in Nat
    BY <1>1, <1>3, NextOperation DEF StoresInv, Call, Event
  <1>6. PlaceOK'
    BY <1>1, <1>2, OneOn, StatusesAre DEF StoresInv, PlaceOK, TimelineOK
  <1>7. OpeningOK'
    BY <1>1, <1>2, <1>4, <1>5 DEF StoresInv, OpeningOK
  <1>8. StagesOK'
    <2> SUFFICES ASSUME pc' > 3
                 PROVE  IF After(2)' THEN held' = Program[pc' - 2][2] /\ meta'.status = held'
                        ELSE held' = Announced' /\ meta'.status = held'
      BY <1>4 DEF StagesOK
    <2>1. pc > 3
      BY <1>4, <1>5
    <2>2. meta.status # "TORN"
      BY <1>1 DEF StoresInv, PlaceOK
    <2>3. After(1) => held = Program[pc - 1][2]
      BY <2>1, <2>2 DEF StoresInv, StagesOK
    <2>4. ~After(1) => held = Announced
      BY <1>5, <2>1, <2>2 DEF StoresInv, StagesOK
    <2>5. pc' - 2 = pc - 1
      BY <1>4
    <2> QED
      BY <1>1, <1>2, <1>4, <2>3, <2>4, <2>5, TimelineStays
  <1>9. TimelineOK' /\ IndexIsLate'
    <2>1. pc' > 3 => pc > 3
      BY <1>4, <1>5
    <2> QED
      BY <1>1, <2>1, TimelineStays DEF StoresInv, TimelineOK, IndexIsLate
  <1> QED
    BY <1>1, <1>2, <1>6, <1>7, <1>8, <1>9 DEF StoresInv

\* the event that announces it or another one,
LEMMA EventKeeps ==
    ASSUME StoresInv, AppendTimeline
    PROVE  StoresInv'
  <1>1. /\ Running /\ Advance /\ UNCHANGED <<held, meta, index>> /\ timeline' = Append(timeline, Operand)
        /\ At("event") /\ Program[pc][1] = "event"
    BY DEF AppendTimeline, At
  <1>2. /\ pc' = pc + 1 /\ ~After(1)' /\ (After(2)' <=> After(1)) /\ pc \in Nat /\ pc >= 1
        /\ PlaceOK'
    BY <1>1, OneOn DEF StoresInv, PlaceOK
  <1>3. /\ pc # 1 /\ pc # 2 /\ ~After(1)
        /\ pc = 3 => Operand = "CREATED"
    BY <1>1, NextOperation DEF StoresInv, Call, Save, Event, Operand
  <1>4. /\ Sequence(timeline)'
        /\ (StateEvents # {} => Max(StateEvents) \in StateEvents)'
        /\ ToSet(timeline)' = ToSet(timeline) \cup {Operand}
        /\ Operand \in Statuses => Announced' = Operand
        /\ Operand \notin Statuses => Announced' = Announced
    <2>1. Sequence(timeline) /\ (StateEvents # {} => Max(StateEvents) \in StateEvents)
      BY DEF StoresInv, TimelineOK
    <2> QED
      BY <1>1, <2>1, AppendedEvent
  <1>5. pc' > 3 /\ OpeningOK'
    BY <1>2, <1>3 DEF OpeningOK
  <1>6. held = Announced' /\ meta.status = held
    <2>1. CASE pc = 3
      BY <1>1, <1>3, <1>4, <2>1, StatusesAre DEF StoresInv, OpeningOK
    <2>2. CASE pc > 3 /\ After(2)
      <3>1. Operand = Program[pc - 2][2] /\ Operand \in Statuses
        BY <1>1, <2>2, NextOperation DEF StoresInv, Event, Operand
      <3>2. held = Program[pc - 2][2] /\ meta.status = held
        BY <1>1, <1>3, <2>2 DEF StoresInv, StagesOK, PlaceOK
      <3> QED
        BY <1>4, <3>1, <3>2
    <2>3. CASE pc > 3 /\ ~After(2)
      <3>1. Operand \notin Statuses
        BY <1>1, <2>3, NextOperation DEF StoresInv
      <3>2. held = Announced /\ meta.status = held
        BY <1>1, <1>3, <2>3 DEF StoresInv, StagesOK, PlaceOK
      <3> QED
        BY <1>4, <3>1, <3>2
    <2> QED
      BY <1>2, <1>3, <2>1, <2>2, <2>3
  <1>7. StagesOK'
    BY <1>1, <1>2, <1>3, <1>6 DEF StagesOK
  <1>8. TimelineOK'
    <2>1. Announced' \in ToSet(timeline)'
      <3>1. CASE Operand \in Statuses
        BY <1>4, <3>1
      <3>2. CASE Operand \notin Statuses
        <4>1. pc > 3
          BY <1>2, <1>3, <3>2, StatusesAre
        <4> QED
          BY <1>4, <3>2, <4>1 DEF StoresInv, TimelineOK
      <3> QED
        BY <3>1, <3>2
    <2> QED
      BY <1>1, <1>4, <2>1 DEF StoresInv, TimelineOK
  <1>9. IndexIsLate'
    BY <1>1, <1>4 DEF StoresInv, IndexIsLate
  <1> QED
    BY <1>1, <1>2, <1>5, <1>7, <1>8, <1>9 DEF StoresInv, MetaOK

\* What the other steps may do: leave the object, the timeline and the status on
\* file, and bring the row to the one or the other.
Touches ==
    /\ UNCHANGED <<held, timeline>>
    /\ MetaOK' /\ meta'.status = meta.status
    /\ index' = index \/ (pc > 3 /\ index' \in {held, meta.status})

\* and whatever touches neither the status on file nor the timeline.
LEMMA TouchKeeps ==
    ASSUME StoresInv, Running, Program[pc] # Save, Program[pc][1] \notin {"event", "check"},
           Touches, Advance \/ (pc' = pc /\ (Running' => Running))
    PROVE  StoresInv'
  <1>1. /\ pc \in 1..Len(Program) /\ pc \in Nat /\ Len(Program) \in Nat
        /\ pc # 2 /\ pc # 3 /\ meta.status # "TORN"
    BY NextOperation DEF StoresInv, Event, PlaceOK
  <1>2. pc > 3 => ~After(1) /\ ~After(2) /\ held = Announced /\ meta.status = held /\ held \in ToSet(timeline)
    BY NothingPending
  <1>3. /\ pc' \in {pc, pc + 1} /\ ~After(1)' /\ (After(2)' => pc > 3)
        /\ PlaceOK' /\ (pc > 3 => ~After(2)')
    <2>1. CASE Advance
      <3>1. pc' = pc + 1 /\ ~After(1)' /\ (After(2)' <=> After(1)) /\ PlaceOK'
        BY <1>1, <2>1, OneOn DEF StoresInv, PlaceOK, Touches
      <3> QED
        BY <1>1, <1>2, <3>1 DEF After
    <2>2. CASE pc' = pc /\ (Running' => Running)
      <3>1. (After(1)' <=> After(1)) /\ (After(2)' <=> After(2))
        BY <2>2 DEF After
      <3> QED
        BY <1>1, <1>2, <2>2, <3>1 DEF After, StoresInv, PlaceOK, Touches
    <2> QED
      BY <2>1, <2>2
  <1>4. OpeningOK'
    BY <1>1, <1>3 DEF StoresInv, OpeningOK, Touches, Loads
  <1>5. pc' > 3 => pc > 3
    BY <1>1, <1>3
  <1>6. StagesOK'
    BY <1>2, <1>3, <1>5, TimelineStays DEF StagesOK, Touches
  <1>7. TimelineOK' /\ IndexIsLate'
    BY <1>2, <1>5, TimelineStays DEF StoresInv, TimelineOK, IndexIsLate, Touches
  <1> QED
    BY <1>3, <1>4, <1>6, <1>7 DEF StoresInv, Touches

\* Where the plan stands still, and the file is as it was or torn, the stores agree as
\* they did.
LEMMA StoresKept ==
    ASSUME StoresInv, UNCHANGED <<held, timeline, index, pc>>,
           Running' => Running /\ meta' = meta,
           meta' = meta \/ meta' = Unreadable("TORN")
    PROVE  StoresInv'
  <1>1. (After(1)' <=> After(1)) /\ (After(2)' <=> After(2))
    BY DEF After
  <1>2. MetaOK' /\ PlaceOK'
    BY DEF StoresInv, MetaOK, PlaceOK, Unreadable
  <1>3. OpeningOK'
    <2>1. CASE meta' = meta
      BY <2>1 DEF StoresInv, OpeningOK, Loads
    <2>2. CASE meta' = Unreadable("TORN")
      BY <2>2, StatusesAre DEF StoresInv, OpeningOK, Loads, Unreadable, Running
    <2> QED
      BY <2>1, <2>2
  <1>4. StagesOK'
    <2>1. CASE meta' = meta
      BY <1>1, <2>1, TimelineStays DEF StoresInv, StagesOK
    <2>2. CASE meta' = Unreadable("TORN")
      BY <2>2 DEF StagesOK, Unreadable
    <2> QED
      BY <2>1, <2>2
  <1>5. TimelineOK' /\ IndexIsLate'
    BY TimelineStays DEF StoresInv, TimelineOK, IndexIsLate
  <1> QED
    BY <1>2, <1>3, <1>4, <1>5 DEF StoresInv

\* Where nothing is pending the invariant says that the stores agree.
LEMMA StoresInvAgree ==
    ASSUME StoresInv
    PROVE  StoresAgree
  <1>1. CASE ~Loads
    BY <1>1 DEF StoresAgree, TimelineFollowsFile, StoresInv
  <1>2. CASE Loads
    <2>1. meta.status # "TORN"
      BY <1>2, StatusesAre DEF Loads
    <2>2. CASE pc <= 3
      <3>1. pc = 3 /\ meta.status = "CREATED"
        BY <1>2, <2>2 DEF StoresInv, OpeningOK
      <3> QED
        BY <3>1, ProgramOrderly DEF StoresAgree, TimelineFollowsFile, StoresInv, Opened
    <2>3. CASE pc > 3 /\ After(2) /\ ~After(1)
      BY <2>1, <2>3, PlanAfterCheck DEF StoresAgree, TimelineFollowsFile, StoresInv, StagesOK
    <2>4. CASE pc > 3 /\ (After(1) \/ ~After(2))
      BY <2>1, <2>4 DEF StoresAgree, TimelineFollowsFile, StoresInv, StagesOK
    <2>5. pc <= 3 \/ pc > 3
      BY ProgramOrderly DEF StoresInv, PlaceOK, Opened, OrderlyAfter
    <2> QED
      BY <2>2, <2>3, <2>4, <2>5
  <1> QED
    BY <1>1, <1>2

\* Feedback, traces and summaries are such touches.
LEMMA RecordsTouch ==
    ASSUME StoresInv, Running, Records, UNCHANGED <<held, timeline>>,
           Program[pc][1] \in {"call", "collect"}
    PROVE  Touches
  <1>1. MetaOK' /\ meta'.status = meta.status
    BY RecordsKeep DEF StoresInv
  <1>2. Loads => pc > 3
    BY NextOperation DEF StoresInv, OpeningOK, PlaceOK, Loads, Event
  <1>3. index' = index \/ (Loads /\ index' = meta.status)
    BY DEF Records, RowFollows
  <1> QED
    BY <1>1, <1>2, <1>3 DEF Touches

\* No step of the run, nor a person, nor the death of the process, takes the stores apart.
LEMMA StoresStep ==
    ASSUME StoresInv, [Next]_vars
    PROVE  StoresInv'
  <1> USE DEF At
  <1>1. CASE CheckTransition
    <2>1. CASE <<held, Operand>> \in ValidTransitions
      BY <1>1, <2>1, CheckKeeps
    <2>2. CASE <<held, Operand>> \notin ValidTransitions
      BY <1>1, <2>2, StoresKept DEF CheckTransition, Raises
    <2> QED
      BY <2>1, <2>2
  <1>2. CASE SaveHeld
    BY <1>2, SaveKeeps
  <1>3. CASE AppendTimeline
    BY <1>3, EventKeeps
  <1>4. CASE IndexHeld
    <2>1. Running /\ Advance /\ UNCHANGED <<held, meta, timeline>> /\ index' \in {index, held}
            /\ Program[pc][1] = "index"
      BY <1>4 DEF IndexHeld, RowFollows
    <2>2. Touches
      BY <2>1, NextOperation DEF StoresInv, Touches, MetaOK, PlaceOK, Call, Save, Event
    <2> QED
      BY <2>1, <2>2, TouchKeeps DEF Save
  <1>5. CASE SkipReview
    BY <1>5, TouchKeeps DEF SkipReview, Touches, StoresInv, MetaOK, Save
  <1>6. CASE HumanReviews
    <2>1. Running /\ Program[pc][1] = "review" /\ UNCHANGED <<held, timeline>>
      BY <1>6 DEF HumanReviews
    <2>2. Touches
      <3>1. CASE Loads
        <4>1. meta' = [meta EXCEPT !.feedback = @ + 1] /\ index' \in {index, meta.status}
          BY <1>6, <3>1 DEF HumanReviews, RowFollows
        <4>2. meta' = [status |-> meta.status, feedback |-> meta.feedback + 1, traces |-> meta.traces]
          BY <4>1 DEF StoresInv, MetaOK
        <4>3. pc > 3
          BY <2>1, NextOperation DEF StoresInv, PlaceOK, Call, Save, Event
        <4> QED
          BY <2>1, <4>1, <4>2, <4>3 DEF Touches, StoresInv, MetaOK
      <3>2. CASE ~Loads
        BY <1>6, <2>1, <3>2 DEF HumanReviews, Touches, StoresInv, MetaOK
      <3> QED
        BY <3>1, <3>2
    <2>3. Advance \/ (pc' = pc /\ (Running' => Running))
      BY <1>6, <2>1 DEF HumanReviews, Raises
    <2> QED
      BY <2>1, <2>2, <2>3, TouchKeeps DEF Save
  <1>7. CASE CallReturns \/ CallRaises
    <2>1. /\ Running /\ Program[pc][1] = "call" /\ UNCHANGED <<held, timeline>>
          /\ Advance \/ (pc' = pc /\ (Running' => Running))
          /\ Records \/ UNCHANGED <<meta, index>>
      BY <1>7 DEF CallReturns, CallRaises, Raises
    <2>2. Touches
      BY <2>1, RecordsTouch DEF Touches, StoresInv, MetaOK
    <2> QED
      BY <2>1, <2>2, TouchKeeps DEF Save
  <1>8. CASE Collect
    <2>1. /\ Running /\ Program[pc][1] = "collect" /\ UNCHANGED <<held, timeline>>
          /\ Advance \/ (pc' = pc /\ (Running' => Running))
          /\ Records \/ UNCHANGED <<meta, index>>
      BY <1>8 DEF Collect, Running, Raises
    <2>2. Touches
      BY <2>1, RecordsTouch DEF Touches, StoresInv, MetaOK
    <2> QED
      BY <2>1, <2>2, TouchKeeps DEF Save
  <1>9. CASE Crash
    BY <1>9, StoresKept DEF Crash, Running
  <1>10. CASE UNCHANGED vars
    BY <1>10, StoresKept DEF vars, run, Running
  <1> QED
    BY <1>1, <1>2, <1>3, <1>4, <1>5, <1>6, <1>7, <1>8, <1>9, <1>10 DEF Next, Step

\* In a run that starts a new investigation the stores tell one story, whatever its
\* calls, the reviewers and the sensors do and wherever the process dies: a file that loads
\* carries the status the timeline announced last, or the one whose event is the
\* next thing to be written, and the row of the index only ever holds a status that
\* the timeline has announced.
THEOREM Stores == Spec => []StoresAgree
  <1>1. Init => StoresInv
    <2> SUFFICES ASSUME Init PROVE StoresInv
      OBVIOUS
    <2>1. MetaOK /\ ~Loads /\ meta.status = "ABSENT"
      BY StatusesAre DEF Init, Unreadable, MetaOK, Loads
    <2>2. PlaceOK /\ Running
      <3>1. PICK S : Program \in Seq(S)
        BY ProgramOrderly DEF Opened, OrderlyAfter, Sequence
      <3>2. Len(Program) \in Nat /\ 3 \in 0..Len(Program)
        BY <3>1, ProgramOrderly DEF Opened, OrderlyAfter
      <3> QED
        BY <2>1, <3>2 DEF Init, PlaceOK, Running
    <2>3. TimelineOK
      <3>1. timeline \in Seq({}) /\ DOMAIN timeline = {}
        BY DEF Init
      <3> QED
        BY <3>1, StatusesAre DEF Init, TimelineOK, Sequence, StateEvents
    <2> QED
      BY <2>1, <2>2, <2>3 DEF Init, StoresInv, OpeningOK, StagesOK, IndexIsLate
  <1>2. StoresInv /\ [Next]_vars => StoresInv'
    BY StoresStep
  <1>3. StoresInv => StoresAgree
    BY StoresInvAgree
  <1> QED
    BY <1>1, <1>2, <1>3, PTL DEF Spec

=============================================================================
