---------------------------- MODULE Deliberation ----------------------------
(***************************************************************************)
(* One debate over the message bus: DebateOrchestrator.run_debate, the     *)
(* MessageBus, the specialists with the Contrarian, the verification       *)
(* pipeline and the deterministic gate.                                    *)
(*                                                                         *)
(* publish() records a message and queues it.  The bus worker takes the    *)
(* messages in order and starts one task per subscriber; tasks start in    *)
(* order, so what a handler does before its first await is part of the     *)
(* delivery.  Every handler that awaits, awaits a model: those calls end   *)
(* in any order, at any time, or fail.                                     *)
(*                                                                         *)
(* A debate stays in round 1 and an agent sends at most three messages, so *)
(* the rate limits (200 per agent and round, 10 evidence requests) are out *)
(* of reach, and every agent signs with its own key: publish() never       *)
(* raises here.                                                            *)
(***************************************************************************)
EXTENDS Groupthink, Sequences, SequencesExt

CONSTANTS
    Ministers,   \* the registered specialists without the Contrarian
    Required,    \* whom the gate requires (Security, Diplomacy and Strategy)
    Probs,       \* the probabilities a specialist may name, in percent
    Evidence,    \* the source and domain of each signal the bridge may bring in
    Stances      \* the states a minister may believe in

\* DOMAIN_AGENT_MAP: whom a signal concerns.
Everyone == {"Security", "Diplomacy", "Economic", "Domestic", "Alliance", "Strategy", "Contrarian"}
Concerned ==
    [military |-> {"Security", "Strategy", "Alliance"},
     diplomatic |-> {"Diplomacy", "Alliance", "Strategy"},
     economic |-> {"Economic", "Strategy"},
     internal |-> {"Domestic", "Economic"},
     political |-> {"Domestic", "Diplomacy"},
     cyber |-> {"Security", "Strategy"},
     legal |-> {"Diplomacy", "Alliance"},
     intelligence |-> {"Security", "Strategy", "Contrarian"},
     unknown |-> Everyone]

ASSUME DeliberationAssumption ==
    /\ Ministers # {}
    /\ Ministers \subseteq {"Security", "Diplomacy", "Strategy", "Domestic", "Economic", "Alliance"}
    /\ Probs \subseteq 0..100 /\ Stances # {}
    /\ \A e \in DOMAIN Evidence : Evidence[e].domain \in DOMAIN Concerned

VARIABLES
    pc,         \* OrchestratorState and its awaits
    decision,   \* gate_decision
    evidence,   \* whether evidence_memory has any node
    published,  \* debate_memory
    queue,      \* the queue of the bus: the messages that a handler acts on
    listening,  \* whether the verification pipeline has subscribed
    ledger,     \* agent_memory: the latest probability of each agent in it
    seen,       \* Contrarian.hypotheses_seen
    calls,      \* model calls under way: who asked, about which message
    tabled,     \* the hypotheses published when the challenge was called
    groupthink, \* the warning in groupthink_result
    unsent      \* whose latest belief came without its message: only the log says so

vars == <<pc, decision, evidence, published, queue, listening, ledger, seen, calls, tabled,
          groupthink, unsent>>

Message(type, from, to, p, about) ==
    [type |-> type, from |-> from, to |-> to, p |-> p, about |-> about]

OfType(types) == {m \in published : m.type \in types}

Agents == Ministers \cup {"Contrarian", "Verification", "Orchestrator"}

Types == {"EVIDENCE_REQUEST", "HYPOTHESIS", "CHALLENGE", "REBUTTAL", "REVISION",
          "VERIFICATION_REQUEST", "VERIFICATION_RESULT"}

TypeOK ==
    /\ pc \in {"analysis", "hypotheses", "challenge", "challenged", "rebuttal",
               "verify", "verifying", "gate", "stopping", "stopped"}
    /\ decision \in {"PENDING", "RELEASE", "WITHHOLD"}
    /\ evidence \in BOOLEAN /\ listening \in BOOLEAN /\ groupthink \in BOOLEAN
    /\ \A m \in published : m.type \in Types /\ m.from \in Agents
    /\ queue \in Seq(published)
    /\ DOMAIN ledger \subseteq Ministers /\ \A a \in DOMAIN ledger : ledger[a] \in Probs
    /\ unsent \subseteq DOMAIN ledger
    /\ seen \subseteq OfType({"HYPOTHESIS"}) /\ tabled \subseteq OfType({"HYPOTHESIS"})
    /\ \A c \in calls : c.by \in Ministers \cup {"Contrarian"} /\ c.on \in published

Init ==
    /\ pc = "analysis"
    /\ decision = "PENDING"
    /\ evidence \in BOOLEAN
    /\ published = {}
    /\ queue = <<>>
    /\ listening = FALSE
    /\ ledger = <<>>
    /\ seen = {}
    /\ calls = {}
    /\ tabled = {}
    /\ groupthink = FALSE
    /\ unsent = {}

\* Every message goes through the queue.  The delivery of these does nothing: the
\* handlers they reach have no case for them.
Unhandled == {"REBUTTAL", "REVISION", "VERIFICATION_RESULT"}

Publish(m) ==
    /\ published' = published \cup {m}
    /\ queue' = IF m.type \in Unhandled THEN queue ELSE Append(queue, m)

-----------------------------------------------------------------------------
(***************************************************************************)
(* The orchestrator.  Its second request, for the challenge, is an         *)
(* EVIDENCE_REQUEST to everybody, as the first is.                         *)
(***************************************************************************)
Request(about) == Message("EVIDENCE_REQUEST", "Orchestrator", "BROADCAST", 0, about)

AskHypotheses ==
    /\ pc = "analysis"
    /\ Publish(Request("hypotheses"))
    /\ pc' = "hypotheses"
    /\ UNCHANGED <<decision, evidence, listening, ledger, seen, calls, tabled, groupthink, unsent>>

Enough(types, expected) == Cardinality(OfType(types)) >= expected

\* Mutant: no timeout.
GatherAll(from, types, expected, to) ==
    /\ pc = from
    /\ Enough(types, expected)
    /\ pc' = to
    /\ UNCHANGED <<decision, evidence, published, queue, listening, ledger, seen, calls, tabled, groupthink, unsent>>

\* _wait_for_messages: enough messages, or the time is up; nothing that follows
\* looks at which of the two it was.
Gather(from, types, expected, to) ==
    /\ pc = from
    /\ pc' = to
    /\ \E timeUp \in BOOLEAN : Enough(types, expected) \/ timeUp
    /\ UNCHANGED <<decision, evidence, published, queue, listening, ledger, seen, calls, tabled, groupthink, unsent>>

Gathers ==
    \/ Gather("hypotheses", {"HYPOTHESIS"}, Cardinality(Ministers), "challenge")
    \/ Gather("challenged", {"CHALLENGE"}, 1, "rebuttal")
    \/ Gather("rebuttal", {"REBUTTAL", "REVISION"}, 1, "verify")

CallChallenge ==
    /\ pc = "challenge"
    /\ Publish(Request("challenge"))
    /\ tabled' = OfType({"HYPOTHESIS"})
    /\ pc' = "challenged"
    /\ UNCHANGED <<decision, evidence, listening, ledger, seen, calls, groupthink, unsent>>

\* Mutant: the pipeline subscribes after the request has gone out and been delivered.
AskVerificationEarly ==
    /\ pc = "verify"
    /\ Publish(Message("VERIFICATION_REQUEST", "Orchestrator", "BROADCAST", 0, "all"))
    /\ pc' = "verifying"
    /\ UNCHANGED <<decision, evidence, listening, ledger, seen, calls, tabled, groupthink, unsent>>

AskVerification ==
    /\ pc = "verify"
    /\ listening' = TRUE
    /\ Publish(Message("VERIFICATION_REQUEST", "Orchestrator", "BROADCAST", 0, "all"))
    /\ pc' = "verifying"
    /\ UNCHANGED <<decision, evidence, ledger, seen, calls, tabled, groupthink, unsent>>

\* The evidence bridge: what it brought into evidence_memory, with its source, and
\* what of it stands in the prompt of an agent.  Nothing holds the agent to that:
\* it may cite its evidence, none, or something that nobody has.
Memory == IF evidence THEN [e \in DOMAIN Evidence |-> Evidence[e].source] ELSE <<>>
Bundle(a) == {e \in DOMAIN Memory : a \in Concerned[Evidence[e].domain]}
Citations ==
    LET each(a) == {{}, Bundle(a), {"invented"}}
    IN {f \in [Ministers -> UNION {each(a) : a \in Ministers}] : \A a \in Ministers : f[a] \in each(a)}

\* GroupthinkDetector.evaluate.  What an answer carries besides its probability -
\* the state, the citations, the wording - counts here only and is chosen here.
Warned(state, cites, likeness) ==
    LET cited == [h \in OfType({"HYPOTHESIS"}) |-> cites[h.from]] IN
    GroupthinkWarning(GroupthinkRisk(
        AgreementScore(state), EvidenceDiversity(cited), SourceDiversity(cited, Memory),
        ArgumentDiversity(Cardinality(DOMAIN cited), likeness),
        ContrarianStrength(Cardinality(OfType({"CHALLENGE"})), Cardinality(OfType({"REBUTTAL"}))),
        ProbabilitySpread(ledger)))

\* sleep(1): the worker has emptied the queue by then, since nothing that it
\* starts blocks the loop for so long.  The warning is logged and kept for the
\* summary; no gate asks for it.
Verified ==
    /\ pc = "verifying"
    /\ queue = <<>>
    /\ pc' = "gate"
    /\ \E state \in [DOMAIN ledger -> Stances], cites \in Citations, likeness \in {0, 1000} :
          groupthink' = Warned(state, cites, likeness)
    /\ UNCHANGED <<decision, evidence, published, queue, listening, ledger, seen, calls, tabled, unsent>>

-----------------------------------------------------------------------------
(***************************************************************************)
(* DeterministicGate.evaluate.                                             *)
(***************************************************************************)
Unsupported == {m \in OfType({"VERIFICATION_RESULT"}) : m.about = "UNSUPPORTED"}

\* A REVISION does not count as an answer to a challenge.
OpenChallenges == Cardinality(OfType({"CHALLENGE"})) > Cardinality(OfType({"REBUTTAL"}))

Releases ==
    /\ published # {}
    /\ \E a \in DOMAIN ledger : ledger[a] >= 50
    /\ Required \subseteq DOMAIN ledger
    /\ Unsupported = {}
    /\ ~OpenChallenges

EvaluateGate ==
    /\ pc = "gate"
    /\ decision' = IF Releases THEN "RELEASE" ELSE "WITHHOLD"
    /\ pc' = "stopping"
    /\ UNCHANGED <<evidence, published, queue, listening, ledger, seen, calls, tabled, groupthink, unsent>>

\* After a second more the worker is cancelled; calls under way go on, and what
\* they publish is recorded and never delivered.
Stop ==
    /\ pc = "stopping"
    /\ pc' = "stopped"
    /\ UNCHANGED <<decision, evidence, published, queue, listening, ledger, seen, calls, tabled, groupthink, unsent>>

Orchestrate ==
    \/ AskHypotheses \/ Gathers \/ CallChallenge \/ AskVerification
    \/ Verified \/ EvaluateGate \/ Stop

-----------------------------------------------------------------------------
(***************************************************************************)
(* The bus and the handlers.                                               *)
(***************************************************************************)
Call(by, m) == [by |-> by, on |-> m]

\* The Contrarian attacks a hypothesis of the highest probability it has seen.
Strongest == {h \in seen : \A g \in seen : g.p <= h.p}

Attacks(m) ==
    IF m.about = "challenge" /\ seen # {}
    THEN {{Call("Contrarian", h)} : h \in Strongest}
    ELSE {{}}

\* Every minister answers either request with a hypothesis.
Answers(m) == {Call(a, m) : a \in Ministers}

OnRequest(m) ==
    /\ m.type = "EVIDENCE_REQUEST"
    /\ \E attack \in Attacks(m) : calls' = calls \cup Answers(m) \cup attack
    /\ UNCHANGED <<published, seen>>

OnHypothesis(m) ==
    /\ m.type = "HYPOTHESIS"
    /\ seen' = seen \cup {m}
    /\ UNCHANGED <<published, calls>>

OnChallenge(m) ==
    /\ m.type = "CHALLENGE"
    /\ calls' = calls \cup {Call(m.to, m)}
    /\ UNCHANGED <<published, seen>>

\* VerificationPipeline.verify_claims does not await a model.
Result == Message("VERIFICATION_RESULT", "Verification", "Orchestrator", 0,
                  IF evidence THEN "VERIFIED" ELSE "UNSUPPORTED")

OnVerification(m) ==
    /\ m.type = "VERIFICATION_REQUEST"
    /\ published' = published \cup (IF listening THEN {Result} ELSE {})
    /\ UNCHANGED <<calls, seen>>

\* Mutant: the worker takes the newest message.
DeliverNewest ==
    /\ pc # "stopped"
    /\ queue # <<>>
    /\ LET m == Last(queue) IN
          /\ OnRequest(m) \/ OnHypothesis(m) \/ OnChallenge(m) \/ OnVerification(m)
          /\ queue' = Front(queue)
    /\ UNCHANGED <<pc, decision, evidence, listening, ledger, tabled, groupthink, unsent>>

Deliver ==
    /\ pc # "stopped"
    /\ queue # <<>>
    /\ LET m == Head(queue) IN
          /\ OnRequest(m) \/ OnHypothesis(m) \/ OnChallenge(m) \/ OnVerification(m)
          /\ queue' = Tail(queue)
    /\ UNCHANGED <<pc, decision, evidence, listening, ledger, tabled, groupthink, unsent>>

-----------------------------------------------------------------------------
(***************************************************************************)
(* Model calls end.  The belief goes into the ledger; then the message     *)
(* goes out, or it cannot be built: a claim or a summary that is null or   *)
(* no text, citations that are no list.  That is logged, and the belief    *)
(* stays.                                                                  *)
(***************************************************************************)
Believes(a, p) == ledger' = [b \in {a} \cup DOMAIN ledger |-> IF b = a THEN p ELSE ledger[b]]

Says(a, m) == Publish(m) /\ unsent' = unsent \ {a}

CannotSay(a) == unsent' = unsent \cup {a} /\ UNCHANGED <<published, queue>>

AnswerRequest(c) ==
    /\ c.on.type = "EVIDENCE_REQUEST"
    /\ \E p \in Probs :
          /\ Believes(c.by, p)
          /\ \/ Says(c.by, Message("HYPOTHESIS", c.by, "BROADCAST", p, c.on.about))
             \/ CannotSay(c.by)

\* DEFEND or CONCEDE.
AnswerChallenge(c) ==
    /\ c.on.type = "CHALLENGE"
    /\ \E p \in Probs, answer \in {"REBUTTAL", "REVISION"} :
          /\ Believes(c.by, p)
          /\ Says(c.by, Message(answer, c.by, "Contrarian", p, "challenge")) \/ CannotSay(c.by)

\* The six classes are copies of one another up to mandate and wording, each with
\* handlers of its own.
Specialist(name, c) == c.by = name /\ (AnswerRequest(c) \/ AnswerChallenge(c))
SecuritySpecialist(c)  == Specialist("Security", c)
DiplomacySpecialist(c) == Specialist("Diplomacy", c)
StrategySpecialist(c)  == Specialist("Strategy", c)
DomesticSpecialist(c)  == Specialist("Domestic", c)
EconomicSpecialist(c)  == Specialist("Economic", c)
AllianceSpecialist(c)  == Specialist("Alliance", c)

Challenge(c) ==
    /\ c.on.type = "HYPOTHESIS"
    /\ Publish(Message("CHALLENGE", "Contrarian", c.on.from, 0, "challenge"))
    /\ UNCHANGED <<ledger, unsent>>

\* Before there is a belief: the model failed, its answer is not JSON, or the state
\* in it is no text.  The Contrarian's challenge may be as malformed as any message.
\* Logged, nothing else.
CallFails == UNCHANGED <<published, queue, ledger, unsent>>

EndCall(c) ==
    /\ c \in calls
    /\ calls' = calls \ {c}
    /\ \/ SecuritySpecialist(c) \/ DiplomacySpecialist(c) \/ StrategySpecialist(c)
       \/ DomesticSpecialist(c) \/ EconomicSpecialist(c) \/ AllianceSpecialist(c)
       \/ Challenge(c) \/ CallFails
    /\ UNCHANGED <<pc, decision, evidence, listening, seen, tabled, groupthink>>

Next == Orchestrate \/ Deliver \/ \E c \in calls : EndCall(c)

Spec == Init /\ [][Next]_vars

\* Orchestrator and worker share one event loop, which does not rest while one
\* of them is ready; the waits have timeouts.  A model need not answer.
FairSpec == Spec /\ WF_vars(Orchestrate \/ Deliver)

-----------------------------------------------------------------------------
(***************************************************************************)
(* Properties.                                                             *)
(***************************************************************************)

\* contrarian_minister.py:117: the attack goes against the strongest of all the
\* hypotheses that were on the table when the challenge was called, although
\* they reach the Contrarian over the queue.
AttackMeetsStrongest ==
    \A c \in calls : c.by = "Contrarian" => \A h \in tabled : h.p <= c.on.p

\* "The LLM should never be able to bypass this" (deterministic_gate.py:10): a
\* release rests on a verification that found evidence, and every challenge in
\* the debate memory has its answer there.  Of the beliefs it counts, the memory
\* has what the agent said, unless the model's answer made no message: each
\* required specialist has a hypothesis on record, and the belief of one half or
\* more is what its agent last said, or that agent is among those in the log.
ReleaseIsOnRecord ==
    [][decision = "PENDING" /\ decision' = "RELEASE" =>
          /\ \E m \in OfType({"VERIFICATION_RESULT"}) : m.about = "VERIFIED"
          /\ \A m \in OfType({"CHALLENGE"}) : \E r \in OfType({"REBUTTAL"}) : r.from = m.to
          /\ \A a \in Required \ unsent : \E m \in OfType({"HYPOTHESIS"}) : m.from = a
          /\ \E a \in DOMAIN ledger :
                /\ ledger[a] >= 50
                /\ a \notin unsent =>
                      \E m \in OfType({"HYPOTHESIS", "REBUTTAL", "REVISION"}) :
                         m.from = a /\ m.p = ledger[a]]_vars

\* A debate ends with a decision, whatever the models do.
DebateEnds == <>(pc = "stopped" /\ decision # "PENDING")
=============================================================================
