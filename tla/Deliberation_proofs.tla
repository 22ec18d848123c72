------------------------ MODULE Deliberation_proofs -------------------------
(***************************************************************************)
(* Theorems about Deliberation, for any specialists, any signals and any   *)
(* answers of the models, in any order.                                    *)
(***************************************************************************)
EXTENDS Deliberation, FiniteSetTheorems, SequenceTheorems, TLAPS

\* What goes over the bus.
Abouts == {"hypotheses", "challenge", "all", "VERIFIED", "UNSUPPORTED"}
Mail == [type : Types, from : Agents, to : Agents \cup {"BROADCAST"}, p : 0..100, about : Abouts]

TheChallenge == Request("challenge")

\* Whoever calls a model is an agent, and calls it about something on record.
Typed ==
    /\ published \subseteq Mail
    /\ queue \in Seq(Mail)
    /\ \A i \in 1..Len(queue) : queue[i] \in published
    /\ seen \subseteq OfType({"HYPOTHESIS"}) /\ tabled \subseteq OfType({"HYPOTHESIS"})
    /\ calls \subseteq [by : Ministers \cup {"Contrarian"}, on : published]
    /\ DOMAIN ledger \subseteq Ministers /\ unsent \subseteq DOMAIN ledger
    /\ \A a \in DOMAIN ledger : ledger[a] \in Probs

\* Who says what: ministers answer requests and the challenge made to them, the
\* Contrarian attacks what a minister holds.
Roles ==
    /\ \A m \in OfType({"EVIDENCE_REQUEST"}) : m \in {Request("hypotheses"), TheChallenge}
    /\ \A m \in OfType({"HYPOTHESIS"}) : m.from \in Ministers
    /\ \A m \in OfType({"CHALLENGE"}) : \E h \in OfType({"HYPOTHESIS"}) : h.from = m.to
    /\ \A c \in calls :
          IF c.by = "Contrarian" THEN c.on.type = "HYPOTHESIS"
          ELSE \/ c.on.type = "EVIDENCE_REQUEST"
               \/ c.on.type = "CHALLENGE" /\ c.on.to = c.by

Queued(m) == \E i \in 1..Len(queue) : queue[i] = m

\* The queue loses nothing and keeps its order: a hypothesis on record has reached
\* the Contrarian or is on its way, those on the table before the challenge is.
InOrder ==
    /\ \A h \in OfType({"HYPOTHESIS"}) : h \in seen \/ Queued(h)
    /\ \A i \in 1..Len(queue) : queue[i] = TheChallenge =>
          \A h \in tabled : h \in seen \/ \E k \in 1..(i - 1) : queue[k] = h

\* Nobody attacks before the challenge is called.
Uncalled ==
    pc \in {"analysis", "hypotheses", "challenge"} =>
        tabled = {} /\ TheChallenge \notin published

\* The challenge is called once, and one hypothesis is attacked.
CalledOnce ==
    /\ \A i \in 1..Len(queue), k \in 1..Len(queue) :
          queue[i] = TheChallenge /\ queue[k] = TheChallenge => i = k
    /\ \A c \in calls : c.by = "Contrarian" =>
          /\ TheChallenge \in published /\ ~Queued(TheChallenge)
          /\ OfType({"CHALLENGE"}) = {}
          /\ \A d \in calls : d.by = "Contrarian" => d = c
    /\ \A m \in OfType({"CHALLENGE"}) :
          /\ TheChallenge \in published /\ ~Queued(TheChallenge)
          /\ \A n \in OfType({"CHALLENGE"}) : n = m

AttackInv == Typed /\ Roles /\ InOrder /\ Uncalled /\ CalledOnce /\ AttackMeetsStrongest

-----------------------------------------------------------------------------
\* A message put at the end of a queue.
LEMMA Appended ==
    ASSUME NEW S, NEW q \in Seq(S), NEW m \in S
    PROVE  /\ Append(q, m) \in Seq(S)
           /\ Len(q) \in Nat /\ Len(Append(q, m)) = Len(q) + 1
           /\ \A i \in 1..Len(q) : Append(q, m)[i] = q[i]
           /\ Append(q, m)[Len(q) + 1] = m
  OBVIOUS

\* A queue that loses its head.
LEMMA Shifted ==
    ASSUME NEW S, NEW q \in Seq(S), q # <<>>
    PROVE  /\ Tail(q) \in Seq(S)
           /\ Len(q) \in Nat \ {0} /\ Len(Tail(q)) = Len(q) - 1
           /\ Head(q) = q[1]
           /\ \A i \in 1..(Len(q) - 1) : Tail(q)[i] = q[i + 1]
  OBVIOUS

\* Requests, results and answers are mail.
LEMMA MailTyped ==
    /\ \A about \in {"hypotheses", "challenge"} : Request(about) \in Mail
    /\ Message("VERIFICATION_REQUEST", "Orchestrator", "BROADCAST", 0, "all") \in Mail
    /\ Result \in Mail
    /\ \A type \in Types, a \in Agents, b \in Agents \cup {"BROADCAST"}, p \in Probs \cup {0}, about \in Abouts :
          Message(type, a, b, p, about) \in Mail
  BY DeliberationAssumption
  DEF DeliberationAssumption, Request, Message, Result, Mail, Types, Agents, Abouts

-----------------------------------------------------------------------------
(***************************************************************************)
(* The kinds of step.  A step publishes a message at the end of the queue, *)
(* delivers the head of the queue, or does neither.                        *)
(***************************************************************************)

\* A message that is neither a request nor, but from a minister, a hypothesis.
LEMMA PublishTyped ==
    ASSUME Typed, NEW m \in Mail, Publish(m)
    PROVE  /\ published' = published \cup {m} /\ published' \subseteq Mail
           /\ queue' \in Seq(Mail)
           /\ Len(queue) \in Nat
           /\ \A i \in 1..Len(queue) : i \in 1..Len(queue') /\ queue'[i] = queue[i]
           /\ \A i \in 1..Len(queue') : i \in 1..Len(queue) \/ (i = Len(queue) + 1 /\ queue'[i] = m)
           /\ \A i \in 1..Len(queue') : queue'[i] \in published'
           /\ m.type \notin Unhandled => Queued(m)'
           /\ \A k : Queued(k) => Queued(k)'
           /\ \A k : Queued(k)' /\ k # m => Queued(k)
           /\ \A types : OfType(types)' = OfType(types) \cup (IF m.type \in types THEN {m} ELSE {})
  <1>1. queue \in Seq(Mail) /\ queue' = IF m.type \in Unhandled THEN queue ELSE Append(queue, m)
    BY DEF Typed, Publish
  <1>2. /\ queue' \in Seq(Mail) /\ Len(queue) \in Nat
        /\ \A i \in 1..Len(queue) : i \in 1..Len(queue') /\ queue'[i] = queue[i]
        /\ \A i \in 1..Len(queue') : i \in 1..Len(queue) \/ (i = Len(queue) + 1 /\ queue'[i] = m)
        /\ m.type \notin Unhandled => \E i \in 1..Len(queue') : queue'[i] = m
    <2>1. CASE m.type \in Unhandled
      BY <1>1, <2>1
    <2>2. CASE m.type \notin Unhandled
      <3>1. /\ queue' \in Seq(Mail) /\ Len(queue) \in Nat /\ Len(queue') = Len(queue) + 1
            /\ \A i \in 1..Len(queue) : queue'[i] = queue[i]
            /\ queue'[Len(queue) + 1] = m
        BY <1>1, <2>2, Appended
      <3>2. Len(queue) + 1 \in 1..Len(queue')
        BY <3>1
      <3>3. \A i \in 1..Len(queue') : i \in 1..Len(queue) \/ i = Len(queue) + 1
        BY <3>1
      <3>4. \A i \in 1..Len(queue) : i \in 1..Len(queue')
        BY <3>1
      <3> QED  BY <3>1, <3>2, <3>3, <3>4
    <2> QED  BY <2>1, <2>2
  <1>3. published' = published \cup {m} /\ published' \subseteq Mail
    BY DEF Typed, Publish
  <1>7. \A i \in 1..Len(queue') : queue'[i] \in published'
    BY <1>2, <1>3 DEF Typed
  <1>8. /\ m.type \notin Unhandled => Queued(m)'
        /\ \A k : Queued(k) => Queued(k)'
        /\ \A k : Queued(k)' /\ k # m => Queued(k)
    BY <1>2 DEF Queued
  <1>9. \A types : OfType(types)' = OfType(types) \cup (IF m.type \in types THEN {m} ELSE {})
    BY <1>3 DEF OfType
  <1> QED
    BY <1>2, <1>3, <1>7, <1>8, <1>9

\* Delivering the head puts at most the result of the verification on record.
LEMMA DeliverTyped ==
    ASSUME Typed, Deliver
    PROVE  \E m \in published :
           /\ m = queue[1] /\ m = Head(queue) /\ 1 \in 1..Len(queue)
           /\ OnRequest(m) \/ OnHypothesis(m) \/ OnChallenge(m) \/ OnVerification(m)
           /\ published' = published \/ published' = published \cup {Result}
           /\ published' \subseteq Mail
           /\ queue' \in Seq(Mail)
           /\ \A i \in 1..Len(queue') : queue'[i] \in published'
           /\ \A i \in 1..Len(queue') : i + 1 \in 1..Len(queue) /\ queue'[i] = queue[i + 1]
           /\ \A i \in 1..Len(queue) : i = 1 \/ (i - 1 \in 1..Len(queue') /\ queue'[i - 1] = queue[i])
           /\ UNCHANGED <<pc, decision, evidence, listening, ledger, tabled, groupthink, unsent>>
  <1> DEFINE m == Head(queue)
  <1>1. /\ queue \in Seq(Mail) /\ queue # <<>>
        /\ OnRequest(m) \/ OnHypothesis(m) \/ OnChallenge(m) \/ OnVerification(m)
        /\ queue' = Tail(queue)
        /\ UNCHANGED <<pc, decision, evidence, listening, ledger, tabled, groupthink, unsent>>
    BY DEF Typed, Deliver
  <1>2. published' = published \/ published' = published \cup {Result}
    BY <1>1 DEF OnRequest, OnHypothesis, OnChallenge, OnVerification
  <1>3. published' \subseteq Mail
    BY <1>2, MailTyped DEF Typed
  <1>4. /\ queue' \in Seq(Mail)
        /\ Len(queue) \in Nat \ {0} /\ Len(queue') = Len(queue) - 1
        /\ m = queue[1]
        /\ \A i \in 1..(Len(queue) - 1) : queue'[i] = queue[i + 1]
    BY <1>1, Shifted
  <1>5. 1 \in 1..Len(queue)
    BY <1>4
  <1>6. \A i \in 1..Len(queue') : i + 1 \in 1..Len(queue) /\ queue'[i] = queue[i + 1]
    BY <1>4
  <1>7. \A i \in 1..Len(queue) : i = 1 \/ (i - 1 \in 1..Len(queue') /\ queue'[i - 1] = queue[i])
    <2> SUFFICES ASSUME NEW i \in 1..Len(queue), i # 1
                 PROVE  i - 1 \in 1..Len(queue') /\ queue'[i - 1] = queue[i]
      OBVIOUS
    <2>1. i - 1 \in 1..(Len(queue) - 1) /\ i - 1 \in 1..Len(queue') /\ (i - 1) + 1 = i
      BY <1>4
    <2> QED  BY <2>1, <1>4
  <1>8. \A i \in 1..Len(queue') : queue'[i] \in published'
    BY <1>6, <1>2 DEF Typed
  <1>9. m \in published
    BY <1>4, <1>5 DEF Typed
  <1> QED
    BY <1>1, <1>2, <1>3, <1>4, <1>5, <1>6, <1>7, <1>8, <1>9

-----------------------------------------------------------------------------
(***************************************************************************)
(* The attack meets the strongest hypothesis.                              *)
(***************************************************************************)
Early == {"analysis", "hypotheses", "challenge"}

LedgerTyped ==
    /\ DOMAIN ledger \subseteq Ministers /\ unsent \subseteq DOMAIN ledger
    /\ \A a \in DOMAIN ledger : ledger[a] \in Probs

\* A step that puts nothing on record and calls nobody.
LEMMA AttackQuiet ==
    ASSUME AttackInv, UNCHANGED <<published, queue, seen, tabled>>, LedgerTyped',
           calls' \subseteq calls, pc' \in Early => pc \in Early
    PROVE  AttackInv'
  <1> USE DEF AttackInv
  <1>1. Typed'
    BY DEF Typed, OfType, LedgerTyped
  <1>2. Roles'
    BY DEF Roles, OfType
  <1>3. InOrder'
    BY DEF InOrder, Queued, OfType
  <1>4. Uncalled'
    BY DEF Uncalled, Early
  <1>5. CalledOnce'
    BY DEF CalledOnce, Queued, OfType
  <1>6. AttackMeetsStrongest'
    BY DEF AttackMeetsStrongest
  <1> QED
    BY <1>1, <1>2, <1>3, <1>4, <1>5, <1>6

\* A step that publishes anything but the challenge's request.
LEMMA AttackPublish ==
    ASSUME AttackInv, NEW m \in Mail, Publish(m), m # TheChallenge,
           UNCHANGED <<seen, tabled>>, LedgerTyped', calls' \subseteq calls,
           pc' \in Early => pc \in Early,
           m.type = "EVIDENCE_REQUEST" => m = Request("hypotheses"),
           m.type = "HYPOTHESIS" => m.from \in Ministers,
           m.type = "CHALLENGE" =>
              /\ \E h \in OfType({"HYPOTHESIS"}) : h.from = m.to
              /\ \E c \in calls : c.by = "Contrarian" /\ c \notin calls'
    PROVE  AttackInv'
  <1> USE DEF AttackInv
  <1>0. /\ published' = published \cup {m} /\ published' \subseteq Mail
        /\ queue' \in Seq(Mail)
        /\ Len(queue) \in Nat
        /\ \A i \in 1..Len(queue) : i \in 1..Len(queue') /\ queue'[i] = queue[i]
        /\ \A i \in 1..Len(queue') : i \in 1..Len(queue) \/ (i = Len(queue) + 1 /\ queue'[i] = m)
        /\ \A i \in 1..Len(queue') : queue'[i] \in published'
        /\ m.type = "HYPOTHESIS" => Queued(m)'
        /\ \A k : Queued(k) => Queued(k)'
        /\ \A k : Queued(k)' /\ k # m => Queued(k)
        /\ \A types : OfType(types)' = OfType(types) \cup (IF m.type \in types THEN {m} ELSE {})
    BY PublishTyped DEF Unhandled
  <1>1. Typed'
    <2>1. seen' \subseteq OfType({"HYPOTHESIS"})' /\ tabled' \subseteq OfType({"HYPOTHESIS"})'
      BY <1>0 DEF Typed
    <2>2. calls' \subseteq [by : Ministers \cup {"Contrarian"}, on : published']
      BY <1>0 DEF Typed
    <2> QED  BY <1>0, <2>1, <2>2 DEF Typed, LedgerTyped
  <1>2. Roles'
    BY <1>0 DEF Roles
  <1>3. InOrder'
    <2>1. ASSUME NEW h \in OfType({"HYPOTHESIS"})' PROVE h \in seen' \/ Queued(h)'
      BY <2>1, <1>0 DEF InOrder
    <2>2. ASSUME NEW i \in 1..Len(queue'), queue'[i] = TheChallenge, NEW h \in tabled'
          PROVE  h \in seen' \/ \E k \in 1..(i - 1) : queue'[k] = h
      <3>1. i \in 1..Len(queue) /\ queue[i] = TheChallenge
        BY <2>2, <1>0
      <3>2. h \in seen \/ \E k \in 1..(i - 1) : queue[k] = h
        BY <3>1 DEF InOrder
      <3>3. \A k \in 1..(i - 1) : k \in 1..Len(queue)
        BY <3>1, <1>0
      <3> QED  BY <3>2, <3>3, <1>0
    <2> QED  BY <2>1, <2>2 DEF InOrder
  <1>4. Uncalled'
    BY <1>0 DEF Uncalled, Early
  <1>5. CalledOnce'
    <2>1. ~Queued(TheChallenge) => ~Queued(TheChallenge)'
      BY <1>0
    <2>2. ASSUME NEW i \in 1..Len(queue'), NEW k \in 1..Len(queue'),
                 queue'[i] = TheChallenge, queue'[k] = TheChallenge
          PROVE  i = k
      <3>1. i \in 1..Len(queue) /\ queue[i] = TheChallenge /\ k \in 1..Len(queue) /\ queue[k] = TheChallenge
        BY <2>2, <1>0
      <3> QED  BY <3>1 DEF CalledOnce
    <2>3. CASE m.type = "CHALLENGE"
      <3>1. PICK c \in calls : c.by = "Contrarian" /\ c \notin calls'
        BY <2>3
      <3>2. /\ TheChallenge \in published /\ ~Queued(TheChallenge)
            /\ OfType({"CHALLENGE"}) = {}
            /\ \A d \in calls' : d.by # "Contrarian"
        BY <3>1 DEF CalledOnce
      <3>3. OfType({"CHALLENGE"})' = {m}
        BY <3>2, <1>0, <2>3
      <3> QED  BY <3>2, <3>3, <2>1, <2>2, <1>0 DEF CalledOnce
    <2>4. CASE m.type # "CHALLENGE"
      <3>1. OfType({"CHALLENGE"})' = OfType({"CHALLENGE"})
        BY <2>4, <1>0
      <3> QED  BY <3>1, <2>1, <2>2, <1>0 DEF CalledOnce
    <2> QED  BY <2>3, <2>4
  <1>6. AttackMeetsStrongest'
    BY DEF AttackMeetsStrongest
  <1> QED
    BY <1>1, <1>2, <1>3, <1>4, <1>5, <1>6

\* The challenge is called, with every hypothesis on record ahead of its request.
LEMMA AttackCalled ==
    ASSUME AttackInv, CallChallenge
    PROVE  AttackInv'
  <1> USE DEF AttackInv
  <1>1. /\ pc = "challenge" /\ pc' = "challenged" /\ Publish(TheChallenge)
        /\ tabled' = OfType({"HYPOTHESIS"})
        /\ UNCHANGED <<ledger, seen, calls, unsent>>
    BY DEF CallChallenge, TheChallenge
  <1>2. TheChallenge \in Mail /\ TheChallenge.type = "EVIDENCE_REQUEST"
    BY MailTyped DEF TheChallenge, Request, Message
  <1>0. /\ published' = published \cup {TheChallenge} /\ published' \subseteq Mail
        /\ queue' \in Seq(Mail)
        /\ Len(queue) \in Nat
        /\ \A i \in 1..Len(queue) : i \in 1..Len(queue') /\ queue'[i] = queue[i]
        /\ \A i \in 1..Len(queue') :
              i \in 1..Len(queue) \/ (i = Len(queue) + 1 /\ queue'[i] = TheChallenge)
        /\ \A i \in 1..Len(queue') : queue'[i] \in published'
        /\ \A k : Queued(k) => Queued(k)'
        /\ \A types : OfType(types)' = OfType(types) \cup (IF "EVIDENCE_REQUEST" \in types THEN {TheChallenge} ELSE {})
    BY <1>1, <1>2, PublishTyped
  <1>3. \A type \in Types \ {"EVIDENCE_REQUEST"} : OfType({type})' = OfType({type})
    BY <1>0
  <1>4. OfType({"HYPOTHESIS"})' = OfType({"HYPOTHESIS"}) /\ OfType({"CHALLENGE"})' = OfType({"CHALLENGE"})
    BY <1>3 DEF Types
  <1>5. TheChallenge \notin published
    BY <1>1 DEF Uncalled
  <1>6. \A i \in 1..Len(queue) : queue[i] # TheChallenge
    BY <1>5 DEF Typed
  <1>7. (\A c \in calls : c.by # "Contrarian") /\ OfType({"CHALLENGE"}) = {}
    BY <1>5 DEF CalledOnce
  <1>8. Typed'
    <2>1. calls' \subseteq [by : Ministers \cup {"Contrarian"}, on : published']
      BY <1>0, <1>1 DEF Typed
    <2>2. /\ DOMAIN ledger' \subseteq Ministers /\ unsent' \subseteq DOMAIN ledger'
          /\ \A a \in DOMAIN ledger' : ledger'[a] \in Probs
      BY <1>1 DEF Typed
    <2> QED  BY <1>0, <1>1, <1>4, <2>1, <2>2 DEF Typed
  <1>9. Roles'
    BY <1>0, <1>1, <1>4 DEF Roles
  <1>10. InOrder'
    <2>1. ASSUME NEW i \in 1..Len(queue'), queue'[i] = TheChallenge, NEW h \in tabled'
          PROVE  h \in seen' \/ \E k \in 1..(i - 1) : queue'[k] = h
      <3>1. i = Len(queue) + 1
        BY <2>1, <1>0, <1>6
      <3>2. h \in seen \/ \E k \in 1..Len(queue) : queue[k] = h
        BY <1>1 DEF InOrder, Queued
      <3>3. i - 1 = Len(queue)
        BY <3>1, <1>0
      <3> QED  BY <3>2, <3>3, <1>0, <1>1
    <2>2. \A h \in OfType({"HYPOTHESIS"})' : h \in seen' \/ Queued(h)'
      BY <1>0, <1>1, <1>4 DEF InOrder
    <2> QED  BY <2>1, <2>2 DEF InOrder
  <1>11. Uncalled'
    BY <1>1 DEF Uncalled
  <1>12. CalledOnce'
    <2>1. \A i \in 1..Len(queue') : queue'[i] = TheChallenge => i = Len(queue) + 1
      BY <1>0, <1>6
    <2> QED  BY <2>1, <1>1, <1>4, <1>7 DEF CalledOnce
  <1>13. AttackMeetsStrongest'
    BY <1>1, <1>7 DEF AttackMeetsStrongest
  <1> QED
    BY <1>8, <1>9, <1>10, <1>11, <1>12, <1>13

\* The head of the queue reaches its handlers.  When it is the challenge, the
\* Contrarian has seen every hypothesis that was on the table.
LEMMA AttackDeliver ==
    ASSUME AttackInv, Deliver
    PROVE  AttackInv'
  <1> USE DEF AttackInv
  <1>0. PICK m \in published :
           /\ m = queue[1] /\ m = Head(queue) /\ 1 \in 1..Len(queue)
           /\ OnRequest(m) \/ OnHypothesis(m) \/ OnChallenge(m) \/ OnVerification(m)
           /\ published' = published \/ published' = published \cup {Result}
           /\ published' \subseteq Mail
           /\ queue' \in Seq(Mail)
           /\ \A i \in 1..Len(queue') : queue'[i] \in published'
           /\ \A i \in 1..Len(queue') : i + 1 \in 1..Len(queue) /\ queue'[i] = queue[i + 1]
           /\ \A i \in 1..Len(queue) : i = 1 \/ (i - 1 \in 1..Len(queue') /\ queue'[i - 1] = queue[i])
           /\ UNCHANGED <<pc, decision, evidence, listening, ledger, tabled, groupthink, unsent>>
    BY DeliverTyped
  <1>1. Result.type = "VERIFICATION_RESULT" /\ Result # TheChallenge
    BY DEF Result, Message, TheChallenge, Request
  <1>2. \A type \in Types \ {"VERIFICATION_RESULT"} : OfType({type})' = OfType({type})
    BY <1>0, <1>1 DEF OfType
  <1>3. /\ OfType({"HYPOTHESIS"})' = OfType({"HYPOTHESIS"})
        /\ OfType({"CHALLENGE"})' = OfType({"CHALLENGE"})
        /\ OfType({"EVIDENCE_REQUEST"})' = OfType({"EVIDENCE_REQUEST"})
    BY <1>2 DEF Types
  <1>4. Len(queue) \in Nat /\ Len(queue') \in Nat /\ m \in Mail
    BY <1>0 DEF Typed
  <1>5. seen' = IF m.type = "HYPOTHESIS" THEN seen \cup {m} ELSE seen
    BY <1>0 DEF OnRequest, OnHypothesis, OnChallenge, OnVerification
  <1>6. \A k : Queued(k) => k = m \/ Queued(k)'
    BY <1>0 DEF Queued
  <1>7. Queued(TheChallenge)' => Queued(TheChallenge)
    BY <1>0, <1>1 DEF Queued
  \* Who is called: the ministers, the challenged one, or the Contrarian.
  <1>8. \A c \in calls' :
           \/ c \in calls
           \/ /\ m.type = "EVIDENCE_REQUEST"
              /\ c.by \in Ministers /\ c.on = m /\ c = Call(c.by, m)
           \/ /\ m.type = "CHALLENGE"
              /\ c = Call(m.to, m)
           \/ /\ m.type = "EVIDENCE_REQUEST" /\ m.about = "challenge"
              /\ \E h \in Strongest : c = Call("Contrarian", h)
    BY <1>0 DEF OnRequest, OnHypothesis, OnChallenge, OnVerification, Answers, Attacks, Call
  <1>9. m.type = "EVIDENCE_REQUEST" /\ m.about = "challenge" => m = TheChallenge
    BY <1>0 DEF Roles, OfType, Request, Message
  <1>10. "Contrarian" \notin Ministers
    BY DeliberationAssumption DEF DeliberationAssumption
  <1>11. m.type = "CHALLENGE" => m.to \in Ministers
    BY <1>0 DEF Roles, OfType
  <1>12. Typed'
    <2>1. seen' \subseteq OfType({"HYPOTHESIS"})'
      BY <1>0, <1>3, <1>5 DEF Typed, OfType
    <2>2. tabled' \subseteq OfType({"HYPOTHESIS"})'
      BY <1>0, <1>3 DEF Typed
    <2>3. calls' \subseteq [by : Ministers \cup {"Contrarian"}, on : published']
      <3>1. published \subseteq published'
        BY <1>0
      <3>2. Strongest \subseteq published
        BY DEF Strongest, Typed, OfType
      <3> QED  BY <1>0, <1>8, <1>11, <3>1, <3>2 DEF Typed, Call
    <2> QED  BY <1>0, <2>1, <2>2, <2>3 DEF Typed
  <1>13. Roles'
    <2>1. \A h \in Strongest : h.type = "HYPOTHESIS"
      BY DEF Strongest, Typed, OfType
    <2>2. \A c \in calls' :
              IF c.by = "Contrarian" THEN c.on.type = "HYPOTHESIS"
              ELSE \/ c.on.type = "EVIDENCE_REQUEST"
                   \/ c.on.type = "CHALLENGE" /\ c.on.to = c.by
      BY <1>8, <1>10, <1>11, <2>1 DEF Roles, Call
    <2> QED  BY <1>3, <2>2 DEF Roles
  <1>14. InOrder'
    <2>1. ASSUME NEW h \in OfType({"HYPOTHESIS"})' PROVE h \in seen' \/ Queued(h)'
      <3>1. h \in seen \/ Queued(h)
        BY <2>1, <1>3 DEF InOrder
      <3>2. h.type = "HYPOTHESIS"
        BY <2>1, <1>3 DEF OfType
      <3> QED  BY <3>1, <3>2, <1>5, <1>6
    <2>2. ASSUME NEW i \in 1..Len(queue'), queue'[i] = TheChallenge, NEW h \in tabled'
          PROVE  h \in seen' \/ \E k \in 1..(i - 1) : queue'[k] = h
      <3>1. i + 1 \in 1..Len(queue) /\ queue[i + 1] = TheChallenge
        BY <2>2, <1>0, <1>1
      <3>2. h \in seen \/ \E k \in 1..i : queue[k] = h
        <4>1. h \in tabled
          BY <1>0
        <4>2. h \in seen \/ \E k \in 1..((i + 1) - 1) : queue[k] = h
          BY <3>1, <4>1 DEF InOrder
        <4>3. (i + 1) - 1 = i
          BY <1>4
        <4> QED  BY <4>2, <4>3
      <3>3. h.type = "HYPOTHESIS"
        BY <1>0 DEF Typed, OfType
      <3>4. CASE h \in seen
        BY <3>4, <1>5
      <3>5. ASSUME NEW k \in 1..i, queue[k] = h
            PROVE  h \in seen' \/ \E j \in 1..(i - 1) : queue'[j] = h
        <4>1. CASE k = 1
          BY <4>1, <3>5, <3>3, <1>0, <1>5
        <4>2. CASE k # 1
          <5>1. k \in 1..Len(queue) /\ k - 1 \in 1..(i - 1)
            BY <4>2, <3>1, <1>4
          <5> QED  BY <5>1, <4>2, <3>5, <1>0
        <4> QED  BY <4>1, <4>2
      <3> QED  BY <3>2, <3>4, <3>5
    <2> QED  BY <2>1, <2>2 DEF InOrder
  <1>15. Uncalled'
    <2>1. pc \in Early => tabled = {} /\ TheChallenge \notin published
      BY DEF Uncalled, Early
    <2> QED  BY <2>1, <1>0, <1>1 DEF Uncalled, Early
  <1>16. CASE m # TheChallenge
    <2>1. \A c \in calls' : c.by = "Contrarian" => c \in calls
      BY <1>16, <1>8, <1>9, <1>10, <1>11 DEF Call
    <2>2. CalledOnce'
      <3>1. \A i \in 1..Len(queue'), k \in 1..Len(queue') :
               queue'[i] = TheChallenge /\ queue'[k] = TheChallenge => i = k
        <4> TAKE i \in 1..Len(queue'), k \in 1..Len(queue')
        <4> HAVE queue'[i] = TheChallenge /\ queue'[k] = TheChallenge
        <4>1. i + 1 \in 1..Len(queue) /\ queue[i + 1] = TheChallenge
          BY <1>0, <1>1
        <4>2. k + 1 \in 1..Len(queue) /\ queue[k + 1] = TheChallenge
          BY <1>0, <1>1
        <4>3. i + 1 = k + 1
          BY <4>1, <4>2 DEF CalledOnce
        <4> QED  BY <4>3, <1>4
      <3>2. TheChallenge \in published => TheChallenge \in published'
        BY <1>0
      <3> QED  BY <3>1, <3>2, <2>1, <1>3, <1>7 DEF CalledOnce
    <2>3. AttackMeetsStrongest'
      BY <2>1, <1>0 DEF AttackMeetsStrongest
    <2> QED  BY <2>2, <2>3, <1>12, <1>13, <1>14, <1>15
  <1>17. CASE m = TheChallenge
    <2>1. m.type = "EVIDENCE_REQUEST" /\ Queued(TheChallenge) /\ TheChallenge \in published
      BY <1>17, <1>0 DEF TheChallenge, Request, Message, Queued
    <2>2. OfType({"CHALLENGE"}) = {} /\ \A c \in calls : c.by # "Contrarian"
      BY <2>1 DEF CalledOnce
    <2>3. ~Queued(TheChallenge)'
      <3> SUFFICES ASSUME NEW i \in 1..Len(queue'), queue'[i] = TheChallenge PROVE FALSE
        BY DEF Queued
      <3>1. i + 1 \in 1..Len(queue) /\ queue[i + 1] = TheChallenge
        BY <1>0, <1>1
      <3>2. i + 1 = 1
        BY <3>1, <1>0, <1>17 DEF CalledOnce
      <3> QED  BY <3>2, <1>4
    <2>4. tabled \subseteq seen
      <3>1. \A h \in tabled : h \in seen \/ \E k \in 1..(1 - 1) : queue[k] = h
        BY <1>0, <1>17 DEF InOrder
      <3> QED  BY <3>1
    <2>5. \A c \in calls' : c.by = "Contrarian" => \E h \in Strongest : c = Call("Contrarian", h)
      BY <2>1, <2>2, <1>8, <1>10
    <2>6. AttackMeetsStrongest'
      <3> SUFFICES ASSUME NEW c \in calls', c.by = "Contrarian", NEW g \in tabled
                   PROVE  g.p <= c.on.p
        BY <1>0 DEF AttackMeetsStrongest
      <3>1. PICK h \in Strongest : c = Call("Contrarian", h)
        BY <2>5
      <3> QED  BY <3>1, <2>4 DEF Strongest, Call
    <2>7. \A c \in calls', d \in calls' : c.by = "Contrarian" /\ d.by = "Contrarian" => c = d
      <3>1. PICK attack \in Attacks(m) : calls' = calls \cup Answers(m) \cup attack
        BY <1>0, <2>1 DEF OnRequest, OnHypothesis, OnChallenge, OnVerification
      <3>2. \A c \in calls' : c.by = "Contrarian" => c \in attack
        BY <3>1, <2>2, <1>10 DEF Answers, Call
      <3>3. \A c \in attack, d \in attack : c = d
        BY <3>1 DEF Attacks
      <3> QED  BY <3>2, <3>3
    <2>8. CalledOnce'
      <3>1. TheChallenge \in published'
        BY <2>1, <1>0
      <3> QED  BY <3>1, <2>2, <2>3, <2>7, <1>3 DEF CalledOnce, Queued
    <2> QED  BY <2>6, <2>8, <1>12, <1>13, <1>14, <1>15
  <1> QED
    BY <1>16, <1>17

\* What the end of a call does: an answer, an answer to the challenge, the challenge
\* itself, or nothing.
LEMMA CallEnds ==
    ASSUME Typed, Roles, NEW c \in calls, EndCall(c)
    PROVE  /\ calls' = calls \ {c}
           /\ UNCHANGED <<pc, decision, evidence, listening, seen, tabled>>
           /\ \/ UNCHANGED <<published, queue, ledger, unsent>>
              \/ /\ c.by \in Ministers /\ CannotSay(c.by)
                 /\ \E p \in Probs : Believes(c.by, p)
              \/ /\ c.by \in Ministers /\ c.on \in published /\ c.on.type = "EVIDENCE_REQUEST"
                 /\ \E p \in Probs :
                       /\ Believes(c.by, p)
                       /\ Says(c.by, Message("HYPOTHESIS", c.by, "BROADCAST", p, c.on.about))
              \/ /\ c.by \in Ministers /\ c.on \in published
                 /\ c.on.type = "CHALLENGE" /\ c.on.to = c.by
                 /\ \E p \in Probs, answer \in {"REBUTTAL", "REVISION"} :
                       /\ Believes(c.by, p)
                       /\ Says(c.by, Message(answer, c.by, "Contrarian", p, "challenge"))
              \/ /\ c.by = "Contrarian" /\ c.on \in published /\ c.on.type = "HYPOTHESIS"
                 /\ Publish(Message("CHALLENGE", "Contrarian", c.on.from, 0, "challenge"))
                 /\ UNCHANGED <<ledger, unsent>>
  <1>1. c.on \in published /\ c.by \in Ministers \cup {"Contrarian"}
    BY DEF Typed
  <1>2. /\ calls' = calls \ {c}
        /\ UNCHANGED <<pc, decision, evidence, listening, seen, tabled>>
        /\ \/ c.by # "Contrarian" /\ (AnswerRequest(c) \/ AnswerChallenge(c))
           \/ Challenge(c) \/ CallFails
    BY DEF EndCall, SecuritySpecialist, DiplomacySpecialist, StrategySpecialist,
           DomesticSpecialist, EconomicSpecialist, AllianceSpecialist, Specialist
  <1>3. c.on.type = "HYPOTHESIS" => c.by = "Contrarian"
    BY DEF Roles
  <1>4. c.by # "Contrarian" /\ c.on.type = "CHALLENGE" => c.on.to = c.by
    BY DEF Roles
  <1> QED
    BY <1>1, <1>2, <1>3, <1>4 DEF AnswerRequest, AnswerChallenge, Challenge, CallFails

\* A minister that believes something keeps the ledger's type.
LEMMA LedgerGrows ==
    ASSUME Typed, NEW a \in Ministers, NEW p \in Probs, Believes(a, p),
           unsent' \subseteq unsent \cup {a}
    PROVE  LedgerTyped'
  BY DEF Typed, Believes, LedgerTyped

LEMMA AttackEndCall ==
    ASSUME AttackInv, NEW c \in calls, EndCall(c)
    PROVE  AttackInv'
  <1>1. Typed /\ Roles
    BY DEF AttackInv
  <1>2. calls' = calls \ {c} /\ UNCHANGED <<pc, seen, tabled>>
    BY <1>1, CallEnds
  <1>3. "Contrarian" \notin Ministers /\ Ministers \subseteq Agents /\ "Contrarian" \in Agents
    BY DeliberationAssumption DEF DeliberationAssumption, Agents
  <1>4. CASE UNCHANGED <<published, queue, ledger, unsent>>
    <2>1. LedgerTyped'
      BY <1>1, <1>4 DEF Typed, LedgerTyped
    <2> QED  BY <1>2, <1>4, <2>1, AttackQuiet
  <1>8. CASE c.by \in Ministers /\ CannotSay(c.by) /\ \E p \in Probs : Believes(c.by, p)
    <2>1. LedgerTyped'
      BY <1>1, <1>8, LedgerGrows DEF CannotSay
    <2> QED  BY <1>2, <1>8, <2>1, AttackQuiet DEF CannotSay
  <1>5. CASE /\ c.by \in Ministers /\ c.on \in published /\ c.on.type = "EVIDENCE_REQUEST"
             /\ \E p \in Probs :
                   /\ Believes(c.by, p)
                   /\ Says(c.by, Message("HYPOTHESIS", c.by, "BROADCAST", p, c.on.about))
    <2>1. PICK p \in Probs :
             /\ Believes(c.by, p)
             /\ Says(c.by, Message("HYPOTHESIS", c.by, "BROADCAST", p, c.on.about))
      BY <1>5
    <2> DEFINE m == Message("HYPOTHESIS", c.by, "BROADCAST", p, c.on.about)
    <2>2. c.on.about \in Abouts
      BY <1>5, <1>1 DEF Typed, Mail
    <2>3. m \in Mail
      BY <2>2, <1>3, <1>5, MailTyped DEF Types
    <2>4. m.type = "HYPOTHESIS" /\ m.from = c.by /\ m # TheChallenge
      BY DEF Message, TheChallenge, Request
    <2>5. LedgerTyped'
      BY <2>1, <1>1, <1>5, LedgerGrows DEF Says
    <2> HIDE DEF m
    <2> QED  BY <2>1, <2>3, <2>4, <2>5, <1>2, <1>5, AttackPublish DEF m, Says
  <1>6. CASE /\ c.by \in Ministers /\ c.on \in published
             /\ c.on.type = "CHALLENGE" /\ c.on.to = c.by
             /\ \E p \in Probs, answer \in {"REBUTTAL", "REVISION"} :
                   /\ Believes(c.by, p)
                   /\ Says(c.by, Message(answer, c.by, "Contrarian", p, "challenge"))
    <2>1. PICK p \in Probs, answer \in {"REBUTTAL", "REVISION"} :
             /\ Believes(c.by, p)
             /\ Says(c.by, Message(answer, c.by, "Contrarian", p, "challenge"))
      BY <1>6
    <2> DEFINE m == Message(answer, c.by, "Contrarian", p, "challenge")
    <2>2. m \in Mail
      BY <1>3, <1>6, MailTyped DEF Types, Abouts
    <2>3. m.type = answer /\ m # TheChallenge
      BY DEF Message, TheChallenge, Request
    <2>4. LedgerTyped'
      BY <2>1, <1>1, <1>6, LedgerGrows DEF Says
    <2>5. Publish(m)
      BY <2>1 DEF Says
    <2> HIDE DEF m
    <2> QED  BY <2>2, <2>3, <2>4, <2>5, <1>2, AttackPublish
  <1>7. CASE /\ c.by = "Contrarian" /\ c.on \in published /\ c.on.type = "HYPOTHESIS"
             /\ Publish(Message("CHALLENGE", "Contrarian", c.on.from, 0, "challenge"))
             /\ UNCHANGED <<ledger, unsent>>
    <2> DEFINE m == Message("CHALLENGE", "Contrarian", c.on.from, 0, "challenge")
    <2>1. c.on \in OfType({"HYPOTHESIS"})
      BY <1>7 DEF OfType
    <2>2. c.on.from \in Agents
      BY <2>1, <1>1, <1>3 DEF Roles
    <2>3. m \in Mail
      BY <2>2, <1>3, MailTyped DEF Types, Abouts
    <2>4. m.type = "CHALLENGE" /\ m.to = c.on.from /\ m # TheChallenge
      BY DEF Message, TheChallenge, Request
    <2>5. LedgerTyped'
      BY <1>1, <1>7 DEF Typed, LedgerTyped
    <2>6. Publish(m)
      BY <1>7
    <2> HIDE DEF m
    <2> QED  BY <2>1, <2>3, <2>4, <2>5, <2>6, <1>2, <1>7, AttackPublish
  <1> QED
    BY <1>1, <1>4, <1>5, <1>6, <1>7, <1>8, CallEnds

\* What the orchestrator asks for, besides the challenge.
LEMMA AttackAsks ==
    ASSUME AttackInv, AskHypotheses \/ AskVerification
    PROVE  AttackInv'
  <1>1. LedgerTyped'
    BY DEF AttackInv, Typed, LedgerTyped, AskHypotheses, AskVerification
  <1>2. CASE AskHypotheses
    <2>1. Request("hypotheses") \in Mail /\ Request("hypotheses") # TheChallenge
      BY MailTyped DEF TheChallenge, Request, Message
    <2>2. Request("hypotheses").type = "EVIDENCE_REQUEST"
      BY DEF Request, Message
    <2> QED  BY <1>1, <1>2, <2>1, <2>2, AttackPublish DEF AskHypotheses, Early
  <1>3. CASE AskVerification
    <2> DEFINE m == Message("VERIFICATION_REQUEST", "Orchestrator", "BROADCAST", 0, "all")
    <2>1. m \in Mail /\ m.type = "VERIFICATION_REQUEST" /\ m # TheChallenge
      BY MailTyped DEF TheChallenge, Request, Message
    <2>2. Publish(m) /\ UNCHANGED <<seen, tabled, calls>> /\ pc' \notin Early
      BY <1>3 DEF AskVerification, Early
    <2> HIDE DEF m
    <2> QED  BY <1>1, <2>1, <2>2, AttackPublish
  <1> QED
    BY <1>2, <1>3

LEMMA AttackInit == Init => AttackInv
  <1> SUFFICES ASSUME Init PROVE AttackInv
    OBVIOUS
  <1> USE DEF Init
  <1>1. Typed
    BY DEF Typed, OfType
  <1>2. Roles /\ InOrder /\ Uncalled /\ CalledOnce /\ AttackMeetsStrongest
    BY DEF Roles, InOrder, Uncalled, CalledOnce, AttackMeetsStrongest, OfType, Queued
  <1> QED
    BY <1>1, <1>2 DEF AttackInv

LEMMA AttackStep == AttackInv /\ [Next]_vars => AttackInv'
  <1> SUFFICES ASSUME AttackInv, [Next]_vars PROVE AttackInv'
    OBVIOUS
  <1>1. CASE Gathers \/ Verified \/ EvaluateGate \/ Stop
    <2>1. /\ UNCHANGED <<published, queue, seen, tabled, ledger, unsent, calls>>
          /\ pc' \in Early => pc \in Early
      BY <1>1 DEF Gathers, Gather, Verified, EvaluateGate, Stop, Early
    <2>2. LedgerTyped'
      BY <2>1 DEF AttackInv, Typed, LedgerTyped
    <2> QED  BY <2>1, <2>2, AttackQuiet
  <1>2. CASE UNCHANGED vars
    <2>1. LedgerTyped'
      BY <1>2 DEF AttackInv, Typed, LedgerTyped, vars
    <2> QED  BY <1>2, <2>1, AttackQuiet DEF vars
  <1>3. CASE AskHypotheses \/ AskVerification
    BY <1>3, AttackAsks
  <1>4. CASE CallChallenge
    BY <1>4, AttackCalled
  <1>5. CASE Deliver
    BY <1>5, AttackDeliver
  <1>6. CASE \E c \in calls : EndCall(c)
    BY <1>6, AttackEndCall
  <1> QED
    BY <1>1, <1>2, <1>3, <1>4, <1>5, <1>6 DEF Next, Orchestrate

THEOREM AttackInvariance == Spec => []AttackInv
  BY AttackInit, AttackStep, PTL DEF Spec

\* However slowly the queue moves and whenever the waits time out, the Contrarian
\* attacks the strongest of all the hypotheses that were on the table.
THEOREM Attacked == Spec => []AttackMeetsStrongest
  <1>1. AttackInv => AttackMeetsStrongest
    BY DEF AttackInv
  <1> QED
    BY <1>1, AttackInvariance, PTL

-----------------------------------------------------------------------------
\* What the orchestrator keeps for itself.
Kept ==
    /\ pc \in {"analysis", "hypotheses", "challenge", "challenged", "rebuttal",
               "verify", "verifying", "gate", "stopping", "stopped"}
    /\ decision \in {"PENDING", "RELEASE", "WITHHOLD"}
    /\ evidence \in BOOLEAN /\ listening \in BOOLEAN /\ groupthink \in BOOLEAN

LEMMA KeptStep == Kept /\ [Next]_vars => Kept'
  <1> SUFFICES ASSUME Kept, [Next]_vars PROVE Kept'
    OBVIOUS
  <1> USE DEF Kept
  <1>1. CASE AskHypotheses \/ CallChallenge \/ AskVerification \/ Gathers \/ EvaluateGate \/ Stop
    BY <1>1 DEF AskHypotheses, CallChallenge, AskVerification, Gathers, Gather, EvaluateGate, Stop
  <1>2. CASE Verified
    BY <1>2 DEF Verified, Warned, GroupthinkWarning
  <1>3. CASE Deliver \/ (\E c \in calls : EndCall(c)) \/ UNCHANGED vars
    BY <1>3 DEF Deliver, EndCall, vars
  <1> QED
    BY <1>1, <1>2, <1>3 DEF Next, Orchestrate

\* The messages, the queue, the ledger and the calls keep their types, for any
\* specialists and whatever the models answer.
THEOREM TypeCorrect == Spec => []TypeOK
  <1>1. Init => Kept
    BY DEF Init, Kept
  <1>2. AttackInv /\ Kept => TypeOK
    <2> SUFFICES ASSUME AttackInv, Kept PROVE TypeOK
      OBVIOUS
    <2>1. \A m \in published : m.type \in Types /\ m.from \in Agents
      BY DEF AttackInv, Typed, Mail
    <2>2. queue \in Seq(published)
      <3>1. Len(queue) \in Nat /\ queue \in [1..Len(queue) -> Mail]
        BY DEF AttackInv, Typed
      <3>2. queue \in [1..Len(queue) -> published]
        BY <3>1 DEF AttackInv, Typed
      <3> QED  BY <3>1, <3>2, SeqDef
    <2>3. \A c \in calls : c.by \in Ministers \cup {"Contrarian"} /\ c.on \in published
      BY DEF AttackInv, Typed
    <2> QED  BY <2>1, <2>2, <2>3 DEF TypeOK, Kept, AttackInv, Typed
  <1> QED
    BY <1>1, <1>2, KeptStep, AttackInvariance, PTL DEF Spec

-----------------------------------------------------------------------------
(***************************************************************************)
(* A release rests on what is on record.                                   *)
(***************************************************************************)
Beliefs == {"HYPOTHESIS", "REBUTTAL", "REVISION"}

\* Of every agent in the ledger of the gate there is a hypothesis on record, and a
\* message with its latest probability, unless that message could not be built.
Recorded ==
    \A a \in DOMAIN ledger \ unsent :
        /\ \E h \in OfType({"HYPOTHESIS"}) : h.from = a
        /\ \E m \in OfType(Beliefs) : m.from = a /\ m.p = ledger[a]

\* Only who was challenged rebuts.
Rebutted ==
    \A r \in OfType({"REBUTTAL"}) : \E m \in OfType({"CHALLENGE"}) : m.to = r.from

\* The verification answers before the gate is evaluated.
Checked ==
    /\ pc = "verifying" =>
          \/ listening /\ \E i \in 1..Len(queue) : queue[i].type = "VERIFICATION_REQUEST"
          \/ OfType({"VERIFICATION_RESULT"}) # {}
    /\ pc = "gate" => OfType({"VERIFICATION_RESULT"}) # {}
    /\ \A m \in OfType({"VERIFICATION_RESULT"}) : m.about \in {"VERIFIED", "UNSUPPORTED"}

RecordInv == Recorded /\ Rebutted /\ Checked

LEMMA RecordQuiet ==
    ASSUME AttackInv, RecordInv, UNCHANGED <<published, queue, ledger, unsent>>,
           \/ UNCHANGED <<pc, listening>>
           \/ pc' \notin {"verifying", "gate"}
           \/ pc = "verifying" /\ queue = <<>> /\ pc' = "gate"
    PROVE  RecordInv'
  <1> USE DEF RecordInv
  <1>1. Recorded' /\ Rebutted'
    BY DEF Recorded, Rebutted, OfType
  <1>2. Checked'
    <2>1. OfType({"VERIFICATION_RESULT"})' = OfType({"VERIFICATION_RESULT"})
      BY DEF OfType
    <2>2. queue = <<>> => ~\E i \in 1..Len(queue) : TRUE
      OBVIOUS
    <2> QED  BY <2>1, <2>2 DEF Checked
  <1> QED
    BY <1>1, <1>2

LEMMA RecordPublish ==
    ASSUME AttackInv, RecordInv, NEW m \in Mail, Publish(m),
           m.type \notin {"REBUTTAL", "VERIFICATION_RESULT"}
              \/ (m.type = "REBUTTAL" /\ \E k \in OfType({"CHALLENGE"}) : k.to = m.from),
           \/ UNCHANGED <<ledger, unsent>>
           \/ /\ Believes(m.from, m.p) /\ unsent' = unsent \ {m.from} /\ m.type \in Beliefs
              /\ \E h \in OfType({"HYPOTHESIS"}) \cup {m} : h.type = "HYPOTHESIS" /\ h.from = m.from,
           \/ UNCHANGED <<pc, listening>>
           \/ pc' \notin {"verifying", "gate"}
           \/ pc' = "verifying" /\ listening' /\ m.type = "VERIFICATION_REQUEST"
    PROVE  RecordInv'
  <1> USE DEF RecordInv
  <1>0. /\ \A i \in 1..Len(queue) : i \in 1..Len(queue') /\ queue'[i] = queue[i]
        /\ m.type = "VERIFICATION_REQUEST" => Queued(m)'
        /\ \A types : OfType(types)' = OfType(types) \cup (IF m.type \in types THEN {m} ELSE {})
    BY PublishTyped DEF AttackInv, Unhandled
  <1>1. Recorded'
    <2>1. OfType({"HYPOTHESIS"}) \subseteq OfType({"HYPOTHESIS"})' /\ OfType(Beliefs) \subseteq OfType(Beliefs)'
      BY <1>0
    <2>2. CASE UNCHANGED <<ledger, unsent>>
      BY <2>1, <2>2 DEF Recorded
    <2>3. CASE /\ Believes(m.from, m.p) /\ unsent' = unsent \ {m.from} /\ m.type \in Beliefs
               /\ \E h \in OfType({"HYPOTHESIS"}) \cup {m} : h.type = "HYPOTHESIS" /\ h.from = m.from
      <3>1. m \in OfType(Beliefs)'
        BY <2>3, <1>0
      <3>2. PICK h \in OfType({"HYPOTHESIS"}) \cup {m} : h.type = "HYPOTHESIS" /\ h.from = m.from
        BY <2>3
      <3>3. h \in OfType({"HYPOTHESIS"})'
        BY <3>2, <1>0
      <3>4. /\ DOMAIN ledger' = {m.from} \cup DOMAIN ledger
            /\ ledger'[m.from] = m.p
            /\ \A a \in DOMAIN ledger : a # m.from => ledger'[a] = ledger[a]
        BY <2>3 DEF Believes
      <3>5. ASSUME NEW a \in DOMAIN ledger' \ unsent'
            PROVE  /\ \E k \in OfType({"HYPOTHESIS"})' : k.from = a
                   /\ \E k \in OfType(Beliefs)' : k.from = a /\ k.p = ledger'[a]
        <4>1. CASE a = m.from
          BY <4>1, <3>1, <3>2, <3>3, <3>4
        <4>2. CASE a # m.from
          BY <4>2, <3>4, <3>5, <2>1, <2>3 DEF Recorded
        <4> QED  BY <4>1, <4>2
      <3> QED  BY <3>5 DEF Recorded
    <2> QED  BY <2>2, <2>3
  <1>2. Rebutted'
    <2>1. OfType({"CHALLENGE"}) \subseteq OfType({"CHALLENGE"})'
      BY <1>0
    <2>2. \A r \in OfType({"REBUTTAL"})' : r \in OfType({"REBUTTAL"}) \/ (r = m /\ m.type = "REBUTTAL")
      BY <1>0
    <2> QED  BY <2>1, <2>2 DEF Rebutted
  <1>3. Checked'
    <2>1. OfType({"VERIFICATION_RESULT"})' = OfType({"VERIFICATION_RESULT"})
      BY <1>0
    <2>2. (\E i \in 1..Len(queue) : queue[i].type = "VERIFICATION_REQUEST") \/ m.type = "VERIFICATION_REQUEST"
            => \E i \in 1..Len(queue') : queue'[i].type = "VERIFICATION_REQUEST"
      BY <1>0 DEF Queued
    <2> QED  BY <2>1, <2>2 DEF Checked
  <1> QED
    BY <1>1, <1>2, <1>3

\* A belief whose message could not be built.
LEMMA RecordUnsaid ==
    ASSUME AttackInv, RecordInv, NEW a \in Ministers, NEW p \in Probs,
           Believes(a, p), CannotSay(a), UNCHANGED <<pc, listening>>
    PROVE  RecordInv'
  <1>1. /\ UNCHANGED <<published, queue>>
        /\ DOMAIN ledger' = {a} \cup DOMAIN ledger /\ unsent' = unsent \cup {a}
        /\ \A b \in DOMAIN ledger : b # a => ledger'[b] = ledger[b]
    BY DEF Believes, CannotSay
  <1>2. \A types : OfType(types)' = OfType(types)
    BY <1>1 DEF OfType
  <1>3. Recorded'
    BY <1>1, <1>2 DEF RecordInv, Recorded
  <1>4. Rebutted' /\ Checked'
    BY <1>1, <1>2 DEF RecordInv, Rebutted, Checked
  <1> QED
    BY <1>3, <1>4 DEF RecordInv

LEMMA RecordDeliver ==
    ASSUME AttackInv, RecordInv, Deliver
    PROVE  RecordInv'
  <1> USE DEF RecordInv
  <1>0. PICK m \in published :
           /\ m = queue[1] /\ m = Head(queue) /\ 1 \in 1..Len(queue)
           /\ OnRequest(m) \/ OnHypothesis(m) \/ OnChallenge(m) \/ OnVerification(m)
           /\ published' = published \/ published' = published \cup {Result}
           /\ published' \subseteq Mail
           /\ queue' \in Seq(Mail)
           /\ \A i \in 1..Len(queue') : queue'[i] \in published'
           /\ \A i \in 1..Len(queue') : i + 1 \in 1..Len(queue) /\ queue'[i] = queue[i + 1]
           /\ \A i \in 1..Len(queue) : i = 1 \/ (i - 1 \in 1..Len(queue') /\ queue'[i - 1] = queue[i])
           /\ UNCHANGED <<pc, decision, evidence, listening, ledger, tabled, groupthink, unsent>>
    BY DeliverTyped DEF AttackInv
  <1>1. Result.type = "VERIFICATION_RESULT" /\ Result.about \in {"VERIFIED", "UNSUPPORTED"}
    BY DEF Result, Message
  <1>2. /\ OfType({"HYPOTHESIS"})' = OfType({"HYPOTHESIS"})
        /\ OfType({"CHALLENGE"})' = OfType({"CHALLENGE"})
        /\ OfType({"REBUTTAL"})' = OfType({"REBUTTAL"})
        /\ OfType(Beliefs)' = OfType(Beliefs)
    BY <1>0, <1>1 DEF OfType, Beliefs
  <1>3. Recorded' /\ Rebutted'
    BY <1>0, <1>2 DEF Recorded, Rebutted
  <1>4. OfType({"VERIFICATION_RESULT"})' = OfType({"VERIFICATION_RESULT"})
        \/ OfType({"VERIFICATION_RESULT"})' = OfType({"VERIFICATION_RESULT"}) \cup {Result}
    BY <1>0, <1>1 DEF OfType
  <1>5. ASSUME m.type = "VERIFICATION_REQUEST", listening
        PROVE  OfType({"VERIFICATION_RESULT"})' # {}
    <2>1. published' = published \cup {Result}
      BY <1>0, <1>5 DEF OnRequest, OnHypothesis, OnChallenge, OnVerification
    <2> QED  BY <2>1, <1>1 DEF OfType
  <1>6. Checked'
    <2>1. ASSUME pc = "verifying"
          PROVE  \/ listening' /\ \E i \in 1..Len(queue') : queue'[i].type = "VERIFICATION_REQUEST"
                 \/ OfType({"VERIFICATION_RESULT"})' # {}
      <3>1. CASE OfType({"VERIFICATION_RESULT"}) # {}
        BY <3>1, <1>4
      <3>2. CASE listening /\ \E i \in 1..Len(queue) : queue[i].type = "VERIFICATION_REQUEST"
        BY <3>2, <1>0, <1>5
      <3> QED  BY <2>1, <3>1, <3>2 DEF Checked
    <2> QED  BY <2>1, <1>0, <1>1, <1>4 DEF Checked
  <1> QED
    BY <1>3, <1>6

LEMMA RecordEndCall ==
    ASSUME AttackInv, RecordInv, NEW c \in calls, EndCall(c)
    PROVE  RecordInv'
  <1>1. Typed /\ Roles
    BY DEF AttackInv
  <1>2. UNCHANGED <<pc, listening>>
    BY <1>1, CallEnds
  <1>3. Ministers \subseteq Agents /\ "Contrarian" \in Agents
    BY DEF Agents
  <1>4. CASE UNCHANGED <<published, queue, ledger, unsent>>
    BY <1>2, <1>4, RecordQuiet
  <1>8. CASE c.by \in Ministers /\ CannotSay(c.by) /\ \E p \in Probs : Believes(c.by, p)
    BY <1>2, <1>8, RecordUnsaid
  <1>5. CASE /\ c.by \in Ministers /\ c.on \in published /\ c.on.type = "EVIDENCE_REQUEST"
             /\ \E p \in Probs :
                   /\ Believes(c.by, p)
                   /\ Says(c.by, Message("HYPOTHESIS", c.by, "BROADCAST", p, c.on.about))
    <2>1. PICK p \in Probs :
             /\ Believes(c.by, p)
             /\ Says(c.by, Message("HYPOTHESIS", c.by, "BROADCAST", p, c.on.about))
      BY <1>5
    <2> DEFINE m == Message("HYPOTHESIS", c.by, "BROADCAST", p, c.on.about)
    <2>2. c.on.about \in Abouts
      BY <1>5, <1>1 DEF Typed, Mail
    <2>3. m \in Mail
      BY <2>2, <1>3, <1>5, MailTyped DEF Types
    <2>4. m.type = "HYPOTHESIS" /\ m.from = c.by /\ m.p = p
      BY DEF Message
    <2>5. /\ Publish(m) /\ Believes(m.from, m.p) /\ unsent' = unsent \ {m.from}
          /\ m.type \in Beliefs
      BY <2>1, <2>4 DEF Beliefs, Says
    <2>6. \E h \in OfType({"HYPOTHESIS"}) \cup {m} : h.type = "HYPOTHESIS" /\ h.from = m.from
      BY <2>4
    <2> HIDE DEF m
    <2> QED  BY <2>3, <2>4, <2>5, <2>6, <1>2, RecordPublish
  <1>6. CASE /\ c.by \in Ministers /\ c.on \in published
             /\ c.on.type = "CHALLENGE" /\ c.on.to = c.by
             /\ \E p \in Probs, answer \in {"REBUTTAL", "REVISION"} :
                   /\ Believes(c.by, p)
                   /\ Says(c.by, Message(answer, c.by, "Contrarian", p, "challenge"))
    <2>1. PICK p \in Probs, answer \in {"REBUTTAL", "REVISION"} :
             /\ Believes(c.by, p)
             /\ Says(c.by, Message(answer, c.by, "Contrarian", p, "challenge"))
      BY <1>6
    <2> DEFINE m == Message(answer, c.by, "Contrarian", p, "challenge")
    <2>2. m \in Mail
      BY <1>3, <1>6, MailTyped DEF Types, Abouts
    <2>3. m.type = answer /\ m.from = c.by /\ m.p = p
      BY DEF Message
    <2>4. /\ Publish(m) /\ Believes(m.from, m.p) /\ unsent' = unsent \ {m.from}
          /\ m.type \in Beliefs
      BY <2>1, <2>3 DEF Beliefs, Says
    <2>5. c.on \in OfType({"CHALLENGE"}) /\ c.on.to = m.from
      BY <1>6, <2>3 DEF OfType
    <2>6. \E h \in OfType({"HYPOTHESIS"}) \cup {m} : h.type = "HYPOTHESIS" /\ h.from = m.from
      BY <2>5, <1>1 DEF Roles, OfType
    <2> HIDE DEF m
    <2> QED  BY <2>2, <2>3, <2>4, <2>5, <2>6, <1>2, RecordPublish
  <1>7. CASE /\ c.by = "Contrarian" /\ c.on \in published /\ c.on.type = "HYPOTHESIS"
             /\ Publish(Message("CHALLENGE", "Contrarian", c.on.from, 0, "challenge"))
             /\ UNCHANGED <<ledger, unsent>>
    <2> DEFINE m == Message("CHALLENGE", "Contrarian", c.on.from, 0, "challenge")
    <2>1. c.on.from \in Agents
      BY <1>7, <1>1, <1>3 DEF Typed, Mail
    <2>2. m \in Mail
      BY <2>1, <1>3, MailTyped DEF Types, Abouts
    <2>3. m.type = "CHALLENGE"
      BY DEF Message
    <2>4. Publish(m)
      BY <1>7
    <2> HIDE DEF m
    <2> QED  BY <2>2, <2>3, <2>4, <1>2, <1>7, RecordPublish
  <1> QED
    BY <1>1, <1>4, <1>5, <1>6, <1>7, <1>8, CallEnds

LEMMA RecordAsks ==
    ASSUME AttackInv, RecordInv, AskHypotheses \/ CallChallenge \/ AskVerification
    PROVE  RecordInv'
  <1>1. CASE AskHypotheses \/ CallChallenge
    <2>1. PICK about \in {"hypotheses", "challenge"} : Publish(Request(about))
      BY <1>1 DEF AskHypotheses, CallChallenge
    <2>2. Request(about) \in Mail /\ Request(about).type = "EVIDENCE_REQUEST"
      BY MailTyped DEF Request, Message
    <2>3. UNCHANGED <<ledger, unsent>> /\ pc' \notin {"verifying", "gate"}
      BY <1>1 DEF AskHypotheses, CallChallenge
    <2> QED  BY <2>1, <2>2, <2>3, RecordPublish
  <1>2. CASE AskVerification
    <2> DEFINE m == Message("VERIFICATION_REQUEST", "Orchestrator", "BROADCAST", 0, "all")
    <2>1. m \in Mail /\ m.type = "VERIFICATION_REQUEST"
      BY MailTyped DEF Message
    <2>2. Publish(m) /\ UNCHANGED <<ledger, unsent>> /\ pc' = "verifying" /\ listening'
      BY <1>2 DEF AskVerification
    <2> HIDE DEF m
    <2> QED  BY <2>1, <2>2, RecordPublish
  <1> QED
    BY <1>1, <1>2

LEMMA RecordStep == AttackInv /\ RecordInv /\ [Next]_vars => RecordInv'
  <1> SUFFICES ASSUME AttackInv, RecordInv, [Next]_vars PROVE RecordInv'
    OBVIOUS
  <1>1. CASE Gathers \/ Verified \/ EvaluateGate \/ Stop
    <2>1. /\ UNCHANGED <<published, queue, ledger, unsent>>
          /\ \/ pc' \notin {"verifying", "gate"}
             \/ pc = "verifying" /\ queue = <<>> /\ pc' = "gate"
      BY <1>1 DEF Gathers, Gather, Verified, EvaluateGate, Stop
    <2> QED  BY <2>1, RecordQuiet
  <1>2. CASE UNCHANGED vars
    BY <1>2, RecordQuiet DEF vars
  <1>3. CASE AskHypotheses \/ CallChallenge \/ AskVerification
    BY <1>3, RecordAsks
  <1>4. CASE Deliver
    BY <1>4, RecordDeliver
  <1>5. CASE \E c \in calls : EndCall(c)
    BY <1>5, RecordEndCall
  <1> QED
    BY <1>1, <1>2, <1>3, <1>4, <1>5 DEF Next, Orchestrate

LEMMA RecordInit == Init => RecordInv
  BY DEF Init, RecordInv, Recorded, Rebutted, Checked, OfType

OnRecord ==
    decision = "PENDING" /\ decision' = "RELEASE" =>
        /\ \E m \in OfType({"VERIFICATION_RESULT"}) : m.about = "VERIFIED"
        /\ \A m \in OfType({"CHALLENGE"}) : \E r \in OfType({"REBUTTAL"}) : r.from = m.to
        /\ \A a \in Required \ unsent : \E m \in OfType({"HYPOTHESIS"}) : m.from = a
        /\ \E a \in DOMAIN ledger :
              /\ ledger[a] >= 50
              /\ a \notin unsent => \E m \in OfType(Beliefs) : m.from = a /\ m.p = ledger[a]

\* The one challenge of a debate has its answer where as many rebuttals as
\* challenges are on record.
LEMMA ChallengeAnswered ==
    ASSUME AttackInv, RecordInv, ~OpenChallenges
    PROVE  \A m \in OfType({"CHALLENGE"}) : \E r \in OfType({"REBUTTAL"}) : r.from = m.to
  <1> SUFFICES ASSUME NEW m \in OfType({"CHALLENGE"})
               PROVE  \E r \in OfType({"REBUTTAL"}) : r.from = m.to
    OBVIOUS
  <1>1. OfType({"CHALLENGE"}) = {m}
    BY DEF AttackInv, CalledOnce
  <1>2. Cardinality(OfType({"CHALLENGE"})) = 1
    BY <1>1, FS_Singleton
  <1>3. OfType({"REBUTTAL"}) # {}
    <2> SUFFICES ASSUME OfType({"REBUTTAL"}) = {} PROVE FALSE
      OBVIOUS
    <2>1. Cardinality(OfType({"REBUTTAL"})) = 0
      BY FS_EmptySet
    <2> QED  BY <2>1, <1>2 DEF OpenChallenges
  <1>4. PICK r \in OfType({"REBUTTAL"}) : TRUE
    BY <1>3
  <1> QED
    BY <1>1, <1>4 DEF RecordInv, Rebutted

LEMMA ReleaseStep == AttackInv /\ RecordInv /\ [Next]_vars => OnRecord
  <1> SUFFICES ASSUME AttackInv, RecordInv, [Next]_vars, decision = "PENDING", decision' = "RELEASE"
               PROVE  OnRecord
    BY DEF OnRecord
  <1>1. pc = "gate" /\ Releases
    BY DEF Next, vars, Orchestrate, AskHypotheses, Gathers, Gather, CallChallenge, AskVerification,
           Verified, EvaluateGate, Stop, Deliver, EndCall
  <1>2. \E m \in OfType({"VERIFICATION_RESULT"}) : m.about = "VERIFIED"
    BY <1>1 DEF RecordInv, Checked, Releases, Unsupported
  <1>3. \A a \in Required \ unsent : \E m \in OfType({"HYPOTHESIS"}) : m.from = a
    BY <1>1 DEF RecordInv, Recorded, Releases
  <1>4. \E a \in DOMAIN ledger :
           /\ ledger[a] >= 50
           /\ a \notin unsent => \E m \in OfType(Beliefs) : m.from = a /\ m.p = ledger[a]
    BY <1>1 DEF RecordInv, Recorded, Releases
  <1>5. \A m \in OfType({"CHALLENGE"}) : \E r \in OfType({"REBUTTAL"}) : r.from = m.to
    BY <1>1, ChallengeAnswered DEF Releases
  <1> QED
    BY <1>2, <1>3, <1>4, <1>5 DEF OnRecord

\* The gate releases a debate only with a verification that found evidence and an
\* answer to every challenge on record; and what it counts from the ledger is on
\* record too, except for an agent whose latest belief made no message.  That is
\* so whatever the models say, however late, and whichever waits time out.
THEOREM Released == Spec => ReleaseIsOnRecord
  <1>1. Spec => []RecordInv
    BY RecordInit, RecordStep, AttackInvariance, PTL DEF Spec
  <1>2. Spec => [][OnRecord]_vars
    BY <1>1, AttackInvariance, ReleaseStep, PTL DEF Spec
  <1> QED
    BY <1>2 DEF ReleaseIsOnRecord, OnRecord, Beliefs
=============================================================================
