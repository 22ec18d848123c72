--------------------------- MODULE Archives_proofs ---------------------------
(***************************************************************************)
(* Theorems about Archives, for any sessions and processes, any limits of  *)
(* the stores and any number of crashes and failed writes.                 *)
(***************************************************************************)
EXTENDS Archives, SequenceTheorems, TLAPS

\* Where a session is tells what the stores already have of it.
Along ==
    \A s \in Sessions :
        /\ where[s] = "context" /\ doing[s] # "load" => s \in Range(copy[s])
        /\ where[s] = "audit" => s \in Range(wrote["context"])
        /\ where[s] \in {"away", "vault", "index", "learning", "forecasts"} => s \in audited
        /\ where[s] = "index" => s \in filed

TrailInv == TypeOK /\ Along /\ TrailIsOrdered

-----------------------------------------------------------------------------
\* The last entries of a list of sessions are a list of sessions.
LEMMA NewestTyped ==
    ASSUME NEW entries \in Seq(Sessions), NEW n \in Nat \ {0}
    PROVE  Newest(entries, n) \in Seq(Sessions)
  BY DEF Newest

\* The entry added last is among the newest, however few are kept.
LEMMA NewestHasLast ==
    ASSUME NEW entries \in Seq(Sessions), NEW s \in Sessions, NEW n \in Nat \ {0}
    PROVE  s \in Range(Newest(Append(entries, s), n))
  <1> DEFINE all == Append(entries, s)
             kept == Newest(all, n)
  <1>1. all \in Seq(Sessions) /\ Len(all) = Len(entries) + 1 /\ all[Len(all)] = s
    OBVIOUS
  <1>2. CASE Len(all) > n
    <2>1. kept = SubSeq(all, Len(all) - n + 1, Len(all))
      BY <1>2 DEF Newest
    <2>2. Len(kept) = n /\ kept[n] = s /\ n \in DOMAIN kept
      BY <1>1, <1>2, <2>1
    <2> QED
      BY <2>2 DEF Range
  <1>3. CASE ~(Len(all) > n)
    <2>1. kept = all /\ Len(all) \in DOMAIN all
      BY <1>1, <1>3 DEF Newest
    <2> QED
      BY <1>1, <2>1 DEF Range
  <1> QED
    BY <1>2, <1>3

\* What a store keeps of a list of sessions is a list of sessions.
LEMMA KeptTyped ==
    ASSUME NEW f \in Rewritten, NEW entries \in Seq(Sessions)
    PROVE  Kept(f, entries) \in Seq(Sessions)
  <1>1. SubSeq(entries, 1, MaxGoals) \in Seq(Sessions) \/ ~(Len(entries) > MaxGoals)
    BY ArchivesAssumption
  <1> QED
    BY <1>1, NewestTyped, ArchivesAssumption DEF Kept, Rewritten

\* One entry more in the history of a file.
LEMMA AppendRange ==
    ASSUME NEW entries \in Seq(Sessions), NEW s \in Sessions
    PROVE  Range(Append(entries, s)) = Range(entries) \cup {s}
  <1>1. DOMAIN Append(entries, s) = 1..(Len(entries) + 1) /\ DOMAIN entries = 1..Len(entries)
    OBVIOUS
  <1>2. \A i \in 1..Len(entries) : Append(entries, s)[i] = entries[i]
    OBVIOUS
  <1>3. Append(entries, s)[Len(entries) + 1] = s
    OBVIOUS
  <1>4. 1..(Len(entries) + 1) = (1..Len(entries)) \cup {Len(entries) + 1}
    BY Len(entries) \in Nat
  <1> QED
    BY <1>1, <1>2, <1>3, <1>4, ZenonT(40) DEF Range

-----------------------------------------------------------------------------
Places == Stretches \cup {"new", "away", "ended"}

LEMMA InitTyped == Init => TypeOK
  BY ArchivesAssumption DEF Init, TypeOK, Stretches, Rewritten

\* A move is to a place, and begins there with nothing read.
LEMMA MoveTyped ==
    ASSUME TypeOK, NEW s \in Sessions, NEW place \in Places, Move(s, place)
    PROVE  /\ where' \in [Sessions -> Places]
           /\ doing' \in [Sessions -> {"load", "open", "flush"}]
  BY DEF TypeOK, Move, Places

LEMMA LoadedTyped ==
    ASSUME TypeOK, NEW f \in Rewritten
    PROVE  Loaded(f) \in Seq(Sessions)
  <1>1. file[f].items \in Seq(Sessions)
    BY DEF TypeOK
  <1> QED
    BY <1>1 DEF Loaded

\* What Load reads and adds to is kept as a list of sessions.
LEMMA LoadTyped ==
    ASSUME TypeOK, NEW s \in Sessions, Load(s)
    PROVE  /\ copy' \in [Sessions -> Seq(Sessions)]
           /\ where[s] = "context" => s \in Range(copy'[s])
  <1> DEFINE f == where[s]
  <1>1. f \in Rewritten
    BY DEF Load
  <1>2. PICK adds \in IF f = "learning" THEN BOOLEAN ELSE {TRUE} :
          copy' = [copy EXCEPT ![s] = Kept(f, IF adds THEN Append(Loaded(f), s) ELSE Loaded(f))]
    BY Zenon DEF Load
  <1> DEFINE read == IF adds THEN Append(Loaded(f), s) ELSE Loaded(f)
  <1>3. Loaded(f) \in Seq(Sessions)
    BY <1>1, LoadedTyped
  <1>4. read \in Seq(Sessions)
    BY <1>3
  <1>5. Kept(f, read) \in Seq(Sessions)
    BY <1>1, <1>4, KeptTyped
  <1>6. copy \in [Sessions -> Seq(Sessions)]
    BY DEF TypeOK
  <1>7. copy' = [copy EXCEPT ![s] = Kept(f, read)]
    BY <1>2
  <1> HIDE DEF read
  <1>8. copy' \in [Sessions -> Seq(Sessions)] /\ copy'[s] = Kept(f, read)
    BY <1>5, <1>6, <1>7
  <1>9. ASSUME where[s] = "context"
        PROVE  s \in Range(copy'[s])
    <2>1. read = Append(Loaded(f), s)
      BY <1>2, <1>9 DEF read
    <2>2. Kept(f, read) = Newest(Append(Loaded(f), s), Capacity)
      BY <1>9, <2>1, Zenon DEF Kept
    <2>3. s \in Range(Newest(Append(Loaded(f), s), Capacity))
      BY <1>3, NewestHasLast, ArchivesAssumption
    <2> QED
      BY <1>8, <2>2, <2>3
  <1> QED
    BY <1>8, <1>9

\* A flush adds its session, if at all, to the history of the one file it writes.
LEMMA FlushTyped ==
    ASSUME TypeOK, NEW s \in Sessions, Flush(s)
    PROVE  /\ wrote' \in [Rewritten -> Seq(Sessions)]
           /\ \A f \in Rewritten : Range(wrote'[f]) \in {Range(wrote[f]), Range(wrote[f]) \cup {s}}
           /\ \A f \in Rewritten \ {where[s]} : wrote'[f] = wrote[f]
           /\ s \in Range(copy[s]) => s \in Range(wrote'[where[s]])
  <1>1. where[s] \in Rewritten /\ wrote \in [Rewritten -> Seq(Sessions)]
    BY DEF Flush, TypeOK
  <1>2. wrote' = IF s \in Range(copy[s]) THEN [wrote EXCEPT ![where[s]] = Append(@, s)] ELSE wrote
    BY DEF Flush
  <1>3. Append(wrote[where[s]], s) \in Seq(Sessions)
        /\ Range(Append(wrote[where[s]], s)) = Range(wrote[where[s]]) \cup {s}
    BY <1>1, AppendRange
  <1>4. CASE s \in Range(copy[s])
    <2>1. wrote' = [wrote EXCEPT ![where[s]] = Append(wrote[where[s]], s)]
      BY <1>2, <1>4
    <2> QED
      BY <1>1, <1>3, <2>1
  <1>5. CASE s \notin Range(copy[s])
    BY <1>1, <1>2, <1>5
  <1> QED
    BY <1>4, <1>5

LEMMA TornTyped ==
    ASSUME NEW was \in [text : {"whole", "empty", "torn"}, items : Seq(Sessions)]
    PROVE  [was EXCEPT !.text = "torn"] \in [text : {"whole", "empty", "torn"}, items : Seq(Sessions)]
  OBVIOUS

LEMMA TypeStep == TypeOK /\ [Next]_vars => TypeOK'
  <1> SUFFICES ASSUME TypeOK, [Next]_vars
               PROVE  TypeOK'
    OBVIOUS
  <1> USE DEF Places, Stretches, Rewritten, trail
  <1>1. ASSUME NEW s \in Sessions, Arrive(s)
        PROVE  TypeOK'
    <2>1. \E place \in {"introspection", "context"} : Move(s, place)
      BY <1>1 DEF Arrive
    <2>2. runs' \in [Sessions -> Procs \cup {NoProc}]
      BY <1>1 DEF Arrive, TypeOK
    <2> QED
      BY <1>1, <2>1, <2>2, MoveTyped DEF Arrive, TypeOK
  <1>2. ASSUME NEW s \in Sessions, Return(s)
        PROVE  TypeOK'
    BY <1>2, MoveTyped DEF Return, TypeOK
  <1>3. ASSUME NEW s \in Sessions, Load(s)
        PROVE  TypeOK'
    <2>1. copy' \in [Sessions -> Seq(Sessions)]
      BY <1>3, LoadTyped
    <2>2. doing' \in [Sessions -> {"load", "open", "flush"}]
      BY <1>3 DEF Load, TypeOK
    <2>3. spoiled' \subseteq Rewritten
      BY <1>3 DEF Load, TypeOK
    <2> QED
      BY <1>3, <2>1, <2>2, <2>3 DEF Load, TypeOK
  <1>4. ASSUME NEW s \in Sessions, Truncate(s)
        PROVE  TypeOK'
    <2>1. <<>> \in Seq(Sessions)
      OBVIOUS
    <2>2. file' \in [Rewritten -> [text : {"whole", "empty", "torn"}, items : Seq(Sessions)]]
      BY <1>4, <2>1 DEF Truncate, TypeOK
    <2>3. doing' \in [Sessions -> {"load", "open", "flush"}]
      BY <1>4 DEF Truncate, TypeOK
    <2> QED
      BY <1>4, <2>2, <2>3 DEF Truncate, TypeOK
  <1>5. ASSUME NEW s \in Sessions, Flush(s)
        PROVE  TypeOK'
    <2>1. wrote' \in [Rewritten -> Seq(Sessions)]
      BY <1>5, FlushTyped
    <2>2. copy' \in [Sessions -> Seq(Sessions)]
      BY <1>5 DEF Flush, TypeOK
    <2>3. PICK text \in {"whole", "torn"} :
            file' = [file EXCEPT ![where[s]] = [text |-> text, items |-> copy[s]]]
      BY <1>5 DEF Flush
    <2>4. file' \in [Rewritten -> [text : {"whole", "empty", "torn"}, items : Seq(Sessions)]]
      BY <2>3 DEF TypeOK
    <2>5. AfterFlush[where[s]] \in Places /\ Move(s, AfterFlush[where[s]])
      BY <1>5 DEF Flush, AfterFlush
    <2> QED
      BY <1>5, <2>1, <2>2, <2>4, <2>5, MoveTyped DEF Flush, TypeOK
  <1>6. ASSUME NEW s \in Sessions, FlushFails(s)
        PROVE  TypeOK'
    <2>1. copy' \in [Sessions -> Seq(Sessions)] /\ failures' \in Nat /\ spoiled' \subseteq Rewritten
      BY <1>6 DEF FlushFails, TypeOK
    <2>2. file' \in [Rewritten -> [text : {"whole", "empty", "torn"}, items : Seq(Sessions)]]
      BY <1>6, ZenonT(40) DEF FlushFails, TypeOK
    <2> QED
      BY <1>6, <2>1, <2>2, MoveTyped DEF FlushFails, TypeOK
  <1>7. ASSUME NEW s \in Sessions, Record(s)
        PROVE  TypeOK'
    <2>1. PICK place \in {"away", "ended"} : Move(s, place)
      BY <1>7 DEF Record
    <2>2. where' \in [Sessions -> Places] /\ doing' \in [Sessions -> {"load", "open", "flush"}]
      BY <2>1, MoveTyped
    <2>3. audited' \subseteq Sessions /\ failures' \in Nat
      BY <1>7 DEF Record, TypeOK
    <2> QED
      BY <1>7, <2>2, <2>3 DEF Record, TypeOK
  <1>8. ASSUME NEW s \in Sessions, StoreDocument(s)
        PROVE  TypeOK'
    BY <1>8, MoveTyped, SMTT(30) DEF StoreDocument, TypeOK
  <1>9. ASSUME NEW s \in Sessions, IndexDocument(s)
        PROVE  TypeOK'
    BY <1>9, MoveTyped, SMTT(30) DEF IndexDocument, TypeOK
  <1>10. ASSUME NEW p \in Procs, Crash(p)
         PROVE  TypeOK'
    <2>1. where' \in [Sessions -> Places] /\ doing' \in [Sessions -> {"load", "open", "flush"}]
      BY <1>10 DEF Crash, TypeOK
    <2>2. copy' \in [Sessions -> Seq(Sessions)]
      BY <1>10 DEF Crash, TypeOK
    <2>3. PICK torn \in SUBSET Rewritten :
            file' = [f \in Rewritten |->
                       IF f \in torn THEN [file[f] EXCEPT !.text = "torn"] ELSE file[f]]
      BY <1>10 DEF Crash
    <2>4. file' \in [Rewritten -> [text : {"whole", "empty", "torn"}, items : Seq(Sessions)]]
      BY <2>3, TornTyped DEF TypeOK
    <2>5. spoiled' \subseteq Rewritten /\ crashes' \in Nat
      BY <1>10 DEF Crash, TypeOK
    <2> QED
      BY <1>10, <2>1, <2>2, <2>4, <2>5 DEF Crash, TypeOK
  <1>11. CASE UNCHANGED vars
    BY <1>11 DEF vars, TypeOK
  <1> QED
    BY <1>1, <1>2, <1>3, <1>4, <1>5, <1>6, <1>7, <1>8, <1>9, <1>10, <1>11 DEF Next, SessionStep

\* The stores, the sessions and their histories keep their types, with any number
\* of processes rewriting the files at once, crashing and failing.
THEOREM TypeCorrect == Spec => []TypeOK
  <1>1. Init => TypeOK
    BY InitTyped
  <1>2. TypeOK /\ [Next]_vars => TypeOK'
    BY TypeStep
  <1> QED
    BY <1>1, <1>2, PTL DEF Spec

-----------------------------------------------------------------------------
\* Steps that move one session on, and leave the others' places and copies.
LEMMA OthersStay ==
    ASSUME TypeOK, NEW s \in Sessions, NEW k \in Sessions \ {s}, SessionStep(s)
    PROVE  where'[k] = where[k] /\ doing'[k] = doing[k] /\ copy'[k] = copy[k]
  <1>1. CASE Load(s) \/ Truncate(s)
    BY <1>1 DEF TypeOK, Load, Truncate
  <1>2. CASE Flush(s) \/ FlushFails(s)
    <2>1. \E place : Move(s, place)
      BY <1>2 DEF Flush, FlushFails
    <2>2. copy' = [copy EXCEPT ![s] = <<>>]
      BY <1>2 DEF Flush, FlushFails
    <2> QED
      BY <2>1, <2>2 DEF Move, TypeOK
  <1>3. CASE Arrive(s) \/ Return(s) \/ Record(s) \/ StoreDocument(s) \/ IndexDocument(s)
    <2>1. UNCHANGED copy /\ \E place : Move(s, place)
      BY <1>3 DEF Arrive, Return, Record, StoreDocument, IndexDocument
    <2> QED
      BY <2>1 DEF Move, TypeOK
  <1> QED
    BY <1>1, <1>2, <1>3 DEF SessionStep

\* Audit log, vault, index and the histories of the files only grow.
LEMMA NothingUnwritten ==
    ASSUME TypeOK, NEW s \in Sessions, SessionStep(s)
    PROVE  /\ audited \subseteq audited' /\ filed \subseteq filed' /\ indexed \subseteq indexed'
           /\ \A f \in Rewritten : Range(wrote[f]) \subseteq Range(wrote'[f])
  <1>1. CASE Flush(s)
    <2>1. UNCHANGED <<audited, filed, indexed>>
      BY <1>1 DEF Flush, trail
    <2>2. \A f \in Rewritten : Range(wrote'[f]) \in {Range(wrote[f]), Range(wrote[f]) \cup {s}}
      BY <1>1, FlushTyped
    <2> QED
      BY <2>1, <2>2
  <1>2. CASE ~Flush(s)
    <2>1. UNCHANGED wrote
      BY <1>2 DEF SessionStep, Arrive, Return, Load, Truncate, FlushFails, Record,
                  StoreDocument, IndexDocument
    <2> QED
      BY <1>2, <2>1 DEF SessionStep, Arrive, Return, Load, Truncate, FlushFails, Record,
                        StoreDocument, IndexDocument, trail
  <1> QED
    BY <1>1, <1>2

\* The session that moves keeps its place in step with the stores.
LEMMA AlongMover ==
    ASSUME TrailInv, NEW s \in Sessions, SessionStep(s)
    PROVE  /\ where'[s] = "context" /\ doing'[s] # "load" => s \in Range(copy'[s])
           /\ where'[s] = "audit" => s \in Range(wrote'["context"])
           /\ where'[s] \in {"away", "vault", "index", "learning", "forecasts"} => s \in audited'
           /\ where'[s] = "index" => s \in filed'
  <1> USE DEF TrailInv, Along, TypeOK, Move
  <1>1. CASE Arrive(s)
    BY <1>1 DEF Arrive
  <1>2. CASE Return(s)
    BY <1>2 DEF Return, trail
  <1>3. CASE Load(s)
    <2>1. where[s] = "context" => s \in Range(copy'[s])
      BY <1>3, LoadTyped
    <2>2. where' = where /\ audited' = audited /\ filed' = filed
          /\ where[s] \in {"introspection", "context", "learning", "forecasts"}
      BY <1>3 DEF Load, Rewritten, trail
    <2> QED
      BY <2>1, <2>2
  <1>4. CASE Truncate(s)
    <2>1. where[s] = "context" => s \in Range(copy[s])
      BY <1>4 DEF Truncate
    <2>2. where' = where /\ copy' = copy /\ audited' = audited /\ filed' = filed
          /\ where[s] \in {"introspection", "context", "learning", "forecasts"}
      BY <1>4 DEF Truncate, Rewritten, trail
    <2> QED
      BY <2>1, <2>2
  <1>5. CASE Flush(s)
    <2>1. where'[s] = AfterFlush[where[s]] /\ doing'[s] = "load" /\ audited' = audited
          /\ where[s] \in {"introspection", "context", "learning", "forecasts"}
      BY <1>5 DEF Flush, Rewritten, trail
    <2>2. where[s] = "context" => s \in Range(wrote'["context"])
      BY <1>5, FlushTyped DEF Flush
    <2>3. /\ where'[s] \in {"context", "audit", "forecasts", "ended"}
          /\ where'[s] = "audit" => where[s] = "context"
          /\ where'[s] = "forecasts" => where[s] = "learning"
      BY <2>1 DEF AfterFlush
    <2> QED
      BY <2>1, <2>2, <2>3
  <1>6. CASE FlushFails(s)
    BY <1>6 DEF FlushFails
  <1>7. CASE Record(s)
    BY <1>7 DEF Record
  <1>8. CASE StoreDocument(s)
    BY <1>8 DEF StoreDocument
  <1>9. CASE IndexDocument(s)
    BY <1>9 DEF IndexDocument
  <1> QED
    BY <1>1, <1>2, <1>3, <1>4, <1>5, <1>6, <1>7, <1>8, <1>9 DEF SessionStep

\* A session writes to a store only when the one before it in the trail has it.
LEMMA TrailStep ==
    ASSUME TrailInv, NEW s \in Sessions, SessionStep(s)
    PROVE  TrailIsOrdered'
  <1> USE DEF TrailInv, TrailIsOrdered
  <1>1. CASE Flush(s)
    <2>1. audited' = audited /\ filed' = filed /\ indexed' = indexed
      BY <1>1 DEF Flush, trail
    <2>2. where[s] \in {"learning", "forecasts"} => s \in audited
      BY DEF Along
    <2>3. /\ Range(wrote'["learning"]) \subseteq audited
          /\ Range(wrote'["forecasts"]) \subseteq audited
      <3>1. ASSUME NEW f \in {"learning", "forecasts"}
            PROVE  Range(wrote'[f]) \subseteq audited
        <4>1. CASE where[s] = f
          BY <1>1, <2>2, <4>1, FlushTyped DEF Rewritten
        <4>2. CASE where[s] # f
          BY <1>1, <4>2, FlushTyped DEF Rewritten
        <4> QED
          BY <4>1, <4>2
      <3> QED
        BY <3>1
    <2>4. Range(wrote["context"]) \subseteq Range(wrote'["context"])
      BY <1>1, FlushTyped DEF Rewritten
    <2> QED
      BY <2>1, <2>3, <2>4
  <1>2. CASE Record(s)
    BY <1>2 DEF Record, Along
  <1>3. CASE StoreDocument(s)
    BY <1>3 DEF StoreDocument, Along
  <1>4. CASE IndexDocument(s)
    BY <1>4 DEF IndexDocument, Along
  <1>5. CASE Arrive(s) \/ Return(s) \/ Load(s) \/ Truncate(s) \/ FlushFails(s)
    BY <1>5 DEF Arrive, Return, Load, Truncate, FlushFails, trail
  <1> QED
    BY <1>1, <1>2, <1>3, <1>4, <1>5 DEF SessionStep

LEMMA TrailInvStep == TrailInv /\ [Next]_vars => TrailInv'
  <1> SUFFICES ASSUME TrailInv, [Next]_vars
               PROVE  TrailInv'
    OBVIOUS
  <1>1. TypeOK'
    BY TypeStep DEF TrailInv
  <1>2. ASSUME NEW s \in Sessions, SessionStep(s)
        PROVE  Along' /\ TrailIsOrdered'
    <2>1. TrailIsOrdered'
      BY <1>2, TrailStep
    <2>2. ASSUME NEW k \in Sessions \ {s}
          PROVE  /\ where'[k] = "context" /\ doing'[k] # "load" => k \in Range(copy'[k])
                 /\ where'[k] = "audit" => k \in Range(wrote'["context"])
                 /\ where'[k] \in {"away", "vault", "index", "learning", "forecasts"} => k \in audited'
                 /\ where'[k] = "index" => k \in filed'
      <3>1. where'[k] = where[k] /\ doing'[k] = doing[k] /\ copy'[k] = copy[k]
        BY <1>2, OthersStay DEF TrailInv
      <3>2. /\ audited \subseteq audited' /\ filed \subseteq filed'
            /\ Range(wrote["context"]) \subseteq Range(wrote'["context"])
        BY <1>2, NothingUnwritten DEF TrailInv, Rewritten
      <3> QED
        BY <3>1, <3>2 DEF TrailInv, Along
    <2> QED
      BY <1>2, <2>1, <2>2, AlongMover DEF Along
  <1>3. ASSUME NEW p \in Procs, Crash(p)
        PROVE  Along' /\ TrailIsOrdered'
    <2>1. UNCHANGED <<audited, filed, indexed, wrote>>
      BY <1>3 DEF Crash, trail
    <2>2. ASSUME NEW s \in Sessions
          PROVE  \/ where'[s] = "ended"
                 \/ where'[s] = where[s] /\ doing'[s] = doing[s] /\ copy'[s] = copy[s]
      BY <1>3 DEF Crash
    <2> QED
      BY <2>1, <2>2 DEF TrailInv, Along, TrailIsOrdered
  <1>4. CASE UNCHANGED vars
    <2>1. /\ where' = where /\ doing' = doing /\ copy' = copy /\ wrote' = wrote
          /\ audited' = audited /\ filed' = filed /\ indexed' = indexed
      BY <1>4 DEF vars, trail
    <2> QED
      BY <1>1, <2>1 DEF TrailInv, Along, TrailIsOrdered
  <1> QED
    BY <1>1, <1>2, <1>3, <1>4 DEF Next, TrailInv

\* What the index finds has its document; the vault, the goals and the archive hold
\* nothing that the audit log does not show, nor the audit log anything without a
\* saved context - after any crash, failed write or overlap of rewrites.
THEOREM Trail == Spec => []TrailIsOrdered
  <1>1. Init => TrailInv
    <2> SUFFICES ASSUME Init PROVE TrailInv
      OBVIOUS
    <2>1. \A f \in Rewritten : wrote[f] = <<>>
      BY DEF Init
    <2>2. Range(<<>>) = {}
      BY DEF Range
    <2> QED
      BY <2>1, <2>2, InitTyped DEF Init, TrailInv, Along, TrailIsOrdered, Rewritten
  <1>2. TrailInv /\ [Next]_vars => TrailInv'
    BY TrailInvStep
  <1>3. TrailInv => TrailIsOrdered
    BY DEF TrailInv
  <1> QED
    BY <1>1, <1>2, <1>3, PTL DEF Spec

-----------------------------------------------------------------------------
(***************************************************************************)
(* An entry is lost only to an overlap.                                    *)
(***************************************************************************)

\* One session of a process runs at a time, and none before it has a process.
Alone ==
    /\ \A s \in Sessions : runs[s] \notin Procs => where[s] = "new"
    /\ \A s \in Sessions, k \in Sessions :
          s # k /\ runs[s] = runs[k] /\ where[s] \in Stretches => where[k] \notin Stretches

\* No goal is a session's own before it has been through the learning.
Unlearned ==
    \A s \in Sessions :
        where[s] \notin {"forecasts", "ended"} => s \notin Range(wrote["learning"])

\* The entries saved in f when s, which has it loaded, is done with it.
After(f, s) == IF s \in Range(copy[s]) THEN Append(wrote[f], s) ELSE wrote[f]

\* A file that no overlap and no fault has spoiled: one session updates it at a
\* time, with a copy of all that was saved, and what it truncates is its own.
Whole(f) ==
    /\ \A s \in Sessions, k \in Sessions : Updating(s, f) /\ Updating(k, f) => s = k
    /\ \A s \in Sessions : Updating(s, f) => copy[s] = Kept(f, After(f, s))
    /\ \A s \in Sessions : where[s] = f /\ doing[s] = "flush" => file[f].text = "empty"
    /\ (\A s \in Sessions : where[s] = f => doing[s] # "flush")
          => file[f].text = "whole" /\ file[f].items = Kept(f, wrote[f])

LossInv ==
    /\ TypeOK
    /\ Alone
    /\ Unlearned
    /\ \A f \in Rewritten \ spoiled : Whole(f)

-----------------------------------------------------------------------------
\* A part of a list of sessions.
LEMMA PartOf ==
    ASSUME NEW list \in Seq(Sessions), NEW a \in 1..Len(list), NEW b \in a..Len(list)
    PROVE  /\ SubSeq(list, a, b) \in Seq(Sessions)
           /\ Len(SubSeq(list, a, b)) = b - a + 1
           /\ \A i \in 1..(b - a + 1) : SubSeq(list, a, b)[i] = list[a + i - 1]
  <1>1. \A i \in a..b : list[i] \in Sessions
    OBVIOUS
  <1>2. a \in Int /\ b \in Int /\ a <= b
    OBVIOUS
  <1> QED
    BY <1>1, <1>2, SubSeqProperties

\* A list of sessions and one more.
LEMMA OneMore ==
    ASSUME NEW list \in Seq(Sessions), NEW s \in Sessions
    PROVE  /\ Append(list, s) \in Seq(Sessions)
           /\ Len(Append(list, s)) = Len(list) + 1
           /\ \A i \in 1..Len(list) : Append(list, s)[i] = list[i]
           /\ Append(list, s)[Len(list) + 1] = s
  OBVIOUS

\* To forget the oldest twice is to forget them once.
LEMMA NewestAgain ==
    ASSUME NEW entries \in Seq(Sessions), NEW s \in Sessions, NEW n \in Nat \ {0}
    PROVE  Newest(Append(Newest(entries, n), s), n) = Newest(Append(entries, s), n)
  <1> DEFINE kept == Newest(entries, n)
             all == Append(entries, s)
             twice == Append(kept, s)
             L == Len(entries)
             left == Newest(twice, n)
             right == Newest(all, n)
  <1>1. kept \in Seq(Sessions)
    BY NewestTyped
  <1>2. /\ L \in Nat /\ all \in Seq(Sessions) /\ Len(all) = L + 1
        /\ \A i \in 1..L : all[i] = entries[i]
        /\ all[L + 1] = s
    BY OneMore
  <1>3. CASE ~(L > n)
    BY <1>3 DEF Newest
  <1>4. CASE L > n
    <2>1. L - n + 1 \in 1..L /\ L \in (L - n + 1)..L
      BY <1>2, <1>4
    <2>2. kept = SubSeq(entries, L - n + 1, L)
      BY <1>4 DEF Newest
    <2>3. Len(kept) = L - (L - n + 1) + 1
          /\ \A i \in 1..(L - (L - n + 1) + 1) : kept[i] = entries[(L - n + 1) + i - 1]
      BY <2>1, <2>2, PartOf
    <2>4. Len(kept) = n /\ \A i \in 1..n : kept[i] = entries[L - n + i]
      BY <1>2, <2>3
    <2> HIDE DEF kept
    <2>5. /\ twice \in Seq(Sessions) /\ Len(twice) = n + 1
          /\ \A i \in 1..n : twice[i] = kept[i]
          /\ twice[n + 1] = s
      BY <1>1, <2>4, OneMore
    <2> HIDE DEF twice, all
    <2>6. left = SubSeq(twice, 2, n + 1) /\ right = SubSeq(all, L - n + 2, L + 1)
      BY <1>2, <1>4, <2>5 DEF Newest
    <2>7. /\ 2 \in 1..Len(twice) /\ n + 1 \in 2..Len(twice)
          /\ L - n + 2 \in 1..Len(all) /\ L + 1 \in (L - n + 2)..Len(all)
      BY <1>2, <1>4, <2>5
    <2> HIDE DEF left, right
    <2>8. /\ left \in Seq(Sessions) /\ Len(left) = (n + 1) - 2 + 1
          /\ \A i \in 1..((n + 1) - 2 + 1) : left[i] = twice[2 + i - 1]
      BY <2>5, <2>6, <2>7, PartOf
    <2>9. /\ right \in Seq(Sessions) /\ Len(right) = (L + 1) - (L - n + 2) + 1
          /\ \A i \in 1..((L + 1) - (L - n + 2) + 1) : right[i] = all[(L - n + 2) + i - 1]
      BY <1>2, <2>6, <2>7, PartOf
    <2>10. Len(left) = n /\ \A i \in 1..n : left[i] = twice[i + 1]
      BY <2>8
    <2>11. Len(right) = n /\ \A i \in 1..n : right[i] = all[L - n + 1 + i]
      BY <1>2, <2>9
    <2>12. ASSUME NEW i \in 1..n
           PROVE  left[i] = right[i]
      <3>1. CASE i = n
        <4>1. left[i] = s
          BY <2>5, <2>10, <3>1
        <4>2. L - n + 1 + i = L + 1
          BY <1>2, <3>1
        <4> QED
          BY <1>2, <2>11, <4>1, <4>2
      <3>2. CASE i < n
        <4>1. i + 1 \in 1..n /\ L - n + 1 + i \in 1..L /\ L - n + (i + 1) = L - n + 1 + i
          BY <1>2, <1>4, <3>2
        <4>2. left[i] = entries[L - n + (i + 1)]
          BY <2>4, <2>5, <2>10, <4>1
        <4>3. right[i] = entries[L - n + 1 + i]
          BY <1>2, <2>11, <4>1
        <4> QED
          BY <4>1, <4>2, <4>3
      <3> QED
        BY <3>1, <3>2
    <2> QED
      BY <2>8, <2>9, <2>10, <2>11, <2>12, SeqEqual DEF left, right, twice, all, kept
  <1> QED
    BY <1>3, <1>4

\* Up to their limit the goals on file stay what they are.
LEMMA FullGoals ==
    ASSUME NEW goals \in Seq(Sessions), NEW s \in Sessions, Len(goals) = MaxGoals
    PROVE  Kept("learning", Append(goals, s)) = goals /\ Kept("learning", goals) = goals
  <1> DEFINE more == SubSeq(Append(goals, s), 1, MaxGoals)
  <1>1. MaxGoals \in Nat \ {0}
    BY ArchivesAssumption
  <1>2. Kept("learning", Append(goals, s)) = more /\ Kept("learning", goals) = goals
    BY <1>1, OneMore DEF Kept
  <1>3. more \in Seq(Sessions) /\ Len(more) = MaxGoals
        /\ \A i \in 1..MaxGoals : more[i] = Append(goals, s)[i]
    <2>1. 1 \in 1..Len(Append(goals, s)) /\ MaxGoals \in 1..Len(Append(goals, s))
      BY <1>1, OneMore
    <2> QED
      BY <1>1, <2>1, OneMore, PartOf
  <1> HIDE DEF more
  <1>4. \A i \in 1..Len(more) : more[i] = goals[i]
    BY <1>3, OneMore
  <1>5. more = goals
    BY <1>3, <1>4, SeqEqual
  <1> QED
    BY <1>2, <1>5

\* The goals on file, an entry more or not, up to their limit.
LEMMA GoalsAgain ==
    ASSUME NEW entries \in Seq(Sessions), NEW s \in Sessions,
           NEW goals, goals = Kept("learning", entries),
           NEW more, more = Kept("learning", Append(goals, s))
    PROVE  /\ Kept("learning", goals) = goals
           /\ Range(goals) \subseteq Range(entries)
           /\ \/ s \in Range(more) /\ more = Kept("learning", Append(entries, s))
              \/ more = goals
  <1>1. MaxGoals \in Nat \ {0} /\ Len(entries) \in Nat
    BY ArchivesAssumption
  <1>2. CASE Len(entries) > MaxGoals
    <2>1. goals = SubSeq(entries, 1, MaxGoals)
      BY <1>2 DEF Kept
    <2>2. 1 \in 1..Len(entries) /\ MaxGoals \in 1..Len(entries)
      BY <1>1, <1>2
    <2>3. goals \in Seq(Sessions) /\ Len(goals) = MaxGoals
          /\ \A i \in 1..MaxGoals : goals[i] = entries[i]
      BY <1>1, <2>1, <2>2, PartOf
    <2>4. Range(goals) \subseteq Range(entries)
      BY <1>1, <1>2, <2>3 DEF Range
    <2> QED
      BY <2>3, <2>4, FullGoals
  <1>3. CASE Len(entries) = MaxGoals
    <2>1. goals = entries
      BY <1>1, <1>3 DEF Kept
    <2> QED
      BY <1>3, <2>1, FullGoals
  <1>4. CASE Len(entries) < MaxGoals
    <2>1. goals = entries
      BY <1>1, <1>4 DEF Kept
    <2>2. more = Append(entries, s) /\ Kept("learning", Append(entries, s)) = Append(entries, s)
      BY <1>1, <1>4, <2>1, OneMore DEF Kept
    <2>3. s \in Range(Append(entries, s))
      BY AppendRange
    <2>4. Kept("learning", goals) = goals
      BY <2>1
    <2> QED
      BY <2>1, <2>2, <2>3, <2>4
  <1> QED
    BY <1>1, <1>2, <1>3, <1>4

-----------------------------------------------------------------------------
LEMMA AloneStep ==
    ASSUME LossInv, NEW s \in Sessions, SessionStep(s)
    PROVE  Alone'
  <1> USE DEF Alone
  <1>1. Alone /\ TypeOK
    BY DEF LossInv
  <1>2. \A k \in Sessions \ {s} : where'[k] = where[k]
    BY <1>1, OthersStay
  <1>3. CASE Arrive(s)
    <2>1. PICK p \in Procs : LoopIsFree(p) /\ runs' = [runs EXCEPT ![s] = p]
      BY <1>3 DEF Arrive
    <2>2. runs'[s] = p /\ \A k \in Sessions \ {s} : runs'[k] = runs[k]
      BY <1>1, <2>1 DEF TypeOK
    <2>3. \A k \in Sessions \ {s} : runs[k] = p => where[k] \notin Stretches
      BY <2>1 DEF LoopIsFree
    <2> QED
      BY <1>1, <1>2, <2>2, <2>3
  <1>4. CASE Return(s)
    <2>1. runs' = runs /\ where[s] = "away" /\ LoopIsFree(runs[s])
      BY <1>4 DEF Return
    <2>2. \A k \in Sessions \ {s} : runs[k] = runs[s] => where[k] \notin Stretches
      BY <2>1 DEF LoopIsFree
    <2> QED
      BY <1>1, <1>2, <2>1, <2>2
  <1>5. CASE Load(s) \/ Truncate(s) \/ Flush(s) \/ FlushFails(s)
             \/ Record(s) \/ StoreDocument(s) \/ IndexDocument(s)
    <2>1. runs' = runs /\ where[s] \in Stretches
      BY <1>5 DEF Load, Truncate, Flush, FlushFails, Record, StoreDocument, IndexDocument, Stretches
    <2> QED
      BY <1>1, <1>2, <2>1 DEF Stretches, Rewritten
  <1> QED
    BY <1>3, <1>4, <1>5 DEF SessionStep

LEMMA UnlearnedStep ==
    ASSUME LossInv, NEW s \in Sessions, SessionStep(s)
    PROVE  Unlearned'
  <1> USE DEF Unlearned
  <1>1. Unlearned /\ TypeOK
    BY DEF LossInv
  <1>2. \A k \in Sessions \ {s} : where'[k] = where[k]
    BY <1>1, OthersStay
  <1>3. CASE Flush(s)
    <2>1. Range(wrote'["learning"]) \in {Range(wrote["learning"]), Range(wrote["learning"]) \cup {s}}
      BY <1>1, <1>3, FlushTyped DEF Rewritten
    <2>2. where[s] # "learning" => wrote'["learning"] = wrote["learning"]
      BY <1>1, <1>3, FlushTyped DEF Rewritten
    <2>3. where'[s] = AfterFlush[where[s]] /\ where[s] \in {"introspection", "context", "learning", "forecasts"}
      BY <1>1, <1>3 DEF Flush, Move, TypeOK, Rewritten
    <2>4. where[s] = "learning" => where'[s] = "forecasts"
      BY <2>3 DEF AfterFlush
    <2>5. where[s] = "forecasts" => where'[s] = "ended"
      BY <2>3 DEF AfterFlush
    <2> QED
      BY <1>1, <1>2, <2>1, <2>2, <2>3, <2>4, <2>5
  <1>4. CASE ~Flush(s)
    <2>1. UNCHANGED wrote
      BY <1>4 DEF SessionStep, Arrive, Return, Load, Truncate, FlushFails, Record,
                  StoreDocument, IndexDocument
    <2>2. where[s] \in {"forecasts", "ended"} => where'[s] \in {"forecasts", "ended"}
      BY <1>1, <1>4 DEF TypeOK, SessionStep, Arrive, Return, Load, Truncate, FlushFails, Record,
                        StoreDocument, IndexDocument, Move, Rewritten
    <2> QED
      BY <1>1, <1>2, <2>1, <2>2
  <1> QED
    BY <1>3, <1>4

\* A session that is not at a file leaves the file whole.
LEMMA Elsewhere ==
    ASSUME LossInv, NEW s \in Sessions, SessionStep(s),
           NEW f \in Rewritten \ spoiled, where[s] # f
    PROVE  Whole(f)'
  <1>1. TypeOK /\ Whole(f)
    BY DEF LossInv
  <1>2. \A k \in Sessions \ {s} : where'[k] = where[k] /\ doing'[k] = doing[k] /\ copy'[k] = copy[k]
    BY <1>1, OthersStay
  <1>3. where'[s] = f => doing'[s] = "load"
    <2>1. CASE Load(s) \/ Truncate(s)
      BY <2>1 DEF Load, Truncate
    <2>2. CASE ~(Load(s) \/ Truncate(s))
      <3>1. \E place : Move(s, place)
        BY <2>2 DEF SessionStep, Arrive, Return, Flush, FlushFails, Record, StoreDocument, IndexDocument
      <3> QED
        BY <1>1, <3>1 DEF Move, TypeOK
    <2> QED
      BY <2>1, <2>2
  <1>4. file'[f] = file[f] /\ wrote'[f] = wrote[f]
    <2>1. CASE Flush(s)
      BY <1>1, <2>1, FlushTyped DEF Flush, TypeOK
    <2>2. CASE Truncate(s) \/ FlushFails(s)
      BY <1>1, <2>2 DEF Truncate, FlushFails, TypeOK
    <2>3. CASE ~Flush(s) /\ ~Truncate(s) /\ ~FlushFails(s)
      BY <2>3 DEF SessionStep, Arrive, Return, Load, Record, StoreDocument, IndexDocument
    <2> QED
      BY <2>1, <2>2, <2>3
  <1>5. ~Updating(s, f) /\ ~Updating(s, f)'
    BY <1>3 DEF Updating
  <1>6. \A k \in Sessions \ {s} : Updating(k, f)' = Updating(k, f) /\ After(f, k)' = After(f, k)
    BY <1>2, <1>4 DEF Updating, After
  <1>7. \A k \in Sessions : (where'[k] = f /\ doing'[k] = "flush") = (where[k] = f /\ doing[k] = "flush")
    BY <1>2, <1>3
  <1>8. \A k \in Sessions, l \in Sessions : Updating(k, f)' /\ Updating(l, f)' => k = l
    BY <1>1, <1>5, <1>6 DEF Whole
  <1>9. \A k \in Sessions : Updating(k, f)' => copy'[k] = Kept(f, After(f, k)')
    BY <1>1, <1>2, <1>5, <1>6 DEF Whole
  <1>10. \A k \in Sessions : where'[k] = f /\ doing'[k] = "flush" => file'[f].text = "empty"
    BY <1>1, <1>4, <1>7 DEF Whole
  <1>11. (\A k \in Sessions : where'[k] = f => doing'[k] # "flush")
           => file'[f].text = "whole" /\ file'[f].items = Kept(f, wrote'[f])
    BY <1>1, <1>4, <1>7 DEF Whole
  <1> QED
    BY <1>8, <1>9, <1>10, <1>11 DEF Whole

\* What a session that finds the file whole adds to it.
LEMMA LoadsAll ==
    ASSUME LossInv, NEW s \in Sessions, Load(s), NEW f \in Rewritten, where[s] = f,
           Loaded(f) = Kept(f, wrote[f])
    PROVE  copy'[s] = Kept(f, IF s \in Range(copy'[s]) THEN Append(wrote[f], s) ELSE wrote[f])
  <1> DEFINE old == wrote[f]
             all == Append(wrote[f], s)
  <1>1. TypeOK /\ Unlearned
    BY DEF LossInv
  <1>2. old \in Seq(Sessions) /\ Loaded(f) = Kept(f, old)
    BY <1>1 DEF TypeOK
  <1>3. PICK adds \in IF f = "learning" THEN BOOLEAN ELSE {TRUE} :
          copy' = [copy EXCEPT ![s] = Kept(f, IF adds THEN Append(Loaded(f), s) ELSE Loaded(f))]
    BY Zenon DEF Load
  <1>4. copy'[s] = Kept(f, IF adds THEN Append(Kept(f, old), s) ELSE Kept(f, old))
    BY <1>1, <1>2, <1>3 DEF TypeOK
  <1> HIDE DEF old, all
  <1>5. CASE f \in {"introspection", "context"}
    <2>1. PICK n \in Nat \ {0} : \A list : Kept(f, list) = Newest(list, n)
      <3>1. CASE f = "introspection"
        <4>1. \A list : Kept(f, list) = Newest(list, MaxHistory)
          BY <3>1, Zenon DEF Kept
        <4> QED
          BY <4>1, ArchivesAssumption
      <3>2. CASE f = "context"
        <4>1. \A list : Kept(f, list) = Newest(list, Capacity)
          BY <3>2, Zenon DEF Kept
        <4> QED
          BY <4>1, ArchivesAssumption
      <3> QED
        BY <1>5, <3>1, <3>2
    <2>2. copy'[s] = Newest(Append(Newest(old, n), s), n)
      BY <1>3, <1>4, <1>5, <2>1
    <2>3. Newest(old, n) \in Seq(Sessions)
      BY <1>2, NewestTyped
    <2>4. s \in Range(copy'[s])
      BY <2>2, <2>3, NewestHasLast
    <2>5. copy'[s] = Newest(Append(old, s), n)
      BY <1>2, <2>2, NewestAgain
    <2> QED
      BY <2>1, <2>4, <2>5 DEF old
  <1>6. CASE f = "forecasts"
    <2>1. \A list : Kept(f, list) = list
      BY <1>6, Zenon DEF Kept
    <2>2. copy'[s] = Append(old, s)
      BY <1>3, <1>4, <1>6, <2>1
    <2>3. s \in Range(Append(old, s))
      BY <1>2, AppendRange
    <2> QED
      BY <2>1, <2>2, <2>3 DEF old
  <1>7. CASE f = "learning"
    <2> DEFINE goals == Kept("learning", old)
               more == Kept("learning", Append(goals, s))
    <2>1. /\ Kept("learning", goals) = goals
          /\ Range(goals) \subseteq Range(old)
          /\ \/ s \in Range(more) /\ more = Kept("learning", Append(old, s))
             \/ more = goals
      BY <1>2, GoalsAgain
    <2>2. s \notin Range(old)
      BY <1>1, <1>7 DEF Unlearned, old
    <2>3. copy'[s] \in {goals, more}
      BY <1>4, <1>7, <2>1
    <2> HIDE DEF goals, more
    <2>4. CASE copy'[s] = goals
      <3>1. s \notin Range(copy'[s])
        BY <2>1, <2>2, <2>4
      <3> QED
        BY <1>7, <2>4, <3>1 DEF goals, old
    <2>5. CASE copy'[s] = more /\ more # goals
      BY <1>7, <2>1, <2>5 DEF old
    <2> QED
      BY <2>3, <2>4, <2>5
  <1> QED
    BY <1>5, <1>6, <1>7 DEF Rewritten

\* A session at a file leaves it whole, unless it says that it spoils it.
LEMMA AtFile ==
    ASSUME LossInv, NEW s \in Sessions, SessionStep(s),
           NEW f \in Rewritten \ spoiled', where[s] = f
    PROVE  Whole(f)'
  <1>1. TypeOK /\ Alone
    BY DEF LossInv
  <1>2. CASE Load(s)
    <2>1. spoiled \subseteq spoiled' /\ (f \notin spoiled' => \A k \in Sessions : ~(runs[k] # runs[s] /\ Updating(k, f)))
      BY <1>2 DEF Load
    <2>2. Whole(f)
      BY <2>1 DEF LossInv
    <2>3. /\ doing[s] = "load" /\ doing' = [doing EXCEPT ![s] = "open"]
          /\ where' = where /\ file' = file /\ wrote' = wrote
      BY <1>2 DEF Load
    <2>4. ASSUME NEW k \in Sessions
          PROVE  ~Updating(k, f)
      <3>1. CASE k = s
        BY <2>3, <3>1 DEF Updating
      <3>2. CASE k # s
        BY <1>1, <2>1, <3>2 DEF Alone, Updating, Stretches
      <3> QED
        BY <3>1, <3>2
    <2>5. \A k \in Sessions : where[k] = f => doing[k] # "flush"
      BY <2>4 DEF Updating
    <2>6. file[f].text = "whole" /\ file[f].items = Kept(f, wrote[f])
      BY <2>2, <2>5 DEF Whole
    <2>7. copy'[s] = Kept(f, After(f, s)')
      <3>1. Loaded(f) = Kept(f, wrote[f])
        BY <2>6 DEF Loaded
      <3>2. copy'[s] = Kept(f, IF s \in Range(copy'[s]) THEN Append(wrote[f], s) ELSE wrote[f])
        BY <1>2, <3>1, LoadsAll
      <3> QED
        BY <2>3, <3>2 DEF After
    <2>8. \A k \in Sessions : Updating(k, f)' => k = s
      BY <1>1, <2>3, <2>4 DEF Updating, TypeOK
    <2>9. \A k \in Sessions : where'[k] = f => doing'[k] # "flush"
      BY <1>1, <2>3, <2>5 DEF TypeOK
    <2> QED
      BY <2>3, <2>6, <2>7, <2>8, <2>9 DEF Whole
  <1>3. CASE Truncate(s)
    <2>1. /\ spoiled' = spoiled /\ where' = where /\ copy' = copy /\ wrote' = wrote
          /\ doing[s] = "open" /\ doing' = [doing EXCEPT ![s] = "flush"]
          /\ file' = [file EXCEPT ![f] = [text |-> "empty", items |-> <<>>]]
      BY <1>3 DEF Truncate
    <2>2. Whole(f) /\ Updating(s, f)
      BY <2>1 DEF LossInv, Updating
    <2>3. \A k \in Sessions : Updating(k, f) => k = s
      BY <2>2 DEF Whole
    <2>4. \A k \in Sessions : Updating(k, f)' => k = s
      BY <1>1, <2>1, <2>3 DEF Updating, TypeOK
    <2>5. copy[s] = Kept(f, After(f, s))
      BY <2>2 DEF Whole
    <2>6. copy'[s] = Kept(f, After(f, s)')
      BY <2>1, <2>5 DEF After
    <2>7. file'[f].text = "empty" /\ where'[s] = f /\ doing'[s] = "flush"
      BY <1>1, <2>1 DEF TypeOK
    <2> QED
      BY <2>4, <2>6, <2>7 DEF Whole
  <1>4. CASE Flush(s)
    <2>1. spoiled' = spoiled /\ doing[s] = "flush" /\ Move(s, AfterFlush[f])
      BY <1>4 DEF Flush
    <2>2. Whole(f) /\ Updating(s, f)
      BY <2>1 DEF LossInv, Updating
    <2>3. file[f].text = "empty"
      BY <2>1, <2>2 DEF Whole
    <2>4. file' = [file EXCEPT ![f] = [text |-> "whole", items |-> copy[s]]]
      BY <1>4, <2>3 DEF Flush
    <2>5. wrote'[f] = After(f, s)
      BY <1>1, <1>4 DEF Flush, After, TypeOK
    <2>6. copy[s] = Kept(f, After(f, s))
      BY <2>2 DEF Whole
    <2>7. file'[f].text = "whole" /\ file'[f].items = Kept(f, wrote'[f])
      BY <1>1, <2>4, <2>5, <2>6 DEF TypeOK
    <2>8. \A k \in Sessions : Updating(k, f) => k = s
      BY <2>2 DEF Whole
    <2>9. doing'[s] = "load" /\ \A k \in Sessions \ {s} : where'[k] = where[k] /\ doing'[k] = doing[k]
      BY <1>1, <2>1 DEF Move, TypeOK
    <2>10. \A k \in Sessions : ~Updating(k, f)'
      BY <2>8, <2>9 DEF Updating
    <2>11. \A k \in Sessions : where'[k] = f => doing'[k] # "flush"
      BY <2>10 DEF Updating
    <2> QED
      BY <2>7, <2>10, <2>11 DEF Whole
  <1>5. CASE FlushFails(s)
    BY <1>5 DEF FlushFails
  <1> QED
    BY <1>2, <1>3, <1>4, <1>5 DEF SessionStep, Arrive, Return, Record, StoreDocument, IndexDocument, Rewritten

\* A killed process spoils what it had truncated, and nothing else.
LEMMA CrashStep ==
    ASSUME LossInv, NEW p \in Procs, Crash(p)
    PROVE  /\ Alone'
           /\ Unlearned'
           /\ \A f \in Rewritten \ spoiled' : Whole(f)'
  <1>1. TypeOK /\ Alone /\ Unlearned
    BY DEF LossInv
  <1> DEFINE live == {s \in Sessions : runs[s] = p /\ where[s] # "ended"}
             open == {f \in Rewritten : \E s \in Sessions :
                        runs[s] = p /\ where[s] = f /\ doing[s] = "flush"}
  <1>2. /\ where' = [s \in Sessions |-> IF s \in live THEN "ended" ELSE where[s]]
        /\ doing' = [s \in Sessions |-> IF s \in live THEN "load" ELSE doing[s]]
        /\ copy' = [s \in Sessions |-> IF s \in live THEN <<>> ELSE copy[s]]
        /\ spoiled' = spoiled \cup open
        /\ runs' = runs /\ wrote' = wrote
    BY <1>1 DEF Crash
  <1>3. PICK torn \in SUBSET open :
          file' = [f \in Rewritten |-> IF f \in torn THEN [file[f] EXCEPT !.text = "torn"] ELSE file[f]]
    BY DEF Crash
  <1>4. \A s \in Sessions : IF s \in live THEN where'[s] = "ended" /\ runs[s] = p /\ doing'[s] = "load"
                            ELSE where'[s] = where[s] /\ doing'[s] = doing[s] /\ copy'[s] = copy[s]
    BY <1>2
  <1>5. Alone'
    BY <1>1, <1>2, <1>4 DEF Alone, Stretches, Rewritten
  <1>6. Unlearned'
    BY <1>1, <1>2, <1>4 DEF Unlearned
  <1>7. ASSUME NEW f \in Rewritten \ spoiled'
        PROVE  Whole(f)'
    <2>1. f \notin open /\ f \notin spoiled
      BY <1>2
    <2>2. file'[f] = file[f]
      BY <1>3, <2>1
    <2>3. Whole(f)
      BY <2>1 DEF LossInv
    <2>4. \A k \in Sessions : Updating(k, f)' => Updating(k, f) /\ copy'[k] = copy[k]
      BY <1>4 DEF Updating, Rewritten
    <2>5. \A k \in Sessions : Updating(k, f)' => copy'[k] = Kept(f, After(f, k)')
      BY <1>2, <2>3, <2>4 DEF Whole, After
    <2>6. \A k \in Sessions : (where'[k] = f /\ doing'[k] = "flush") = (where[k] = f /\ doing[k] = "flush")
      BY <1>4, <2>1 DEF Rewritten
    <2>7. \A k \in Sessions, l \in Sessions : Updating(k, f)' /\ Updating(l, f)' => k = l
      BY <2>3, <2>4 DEF Whole
    <2>8. \A k \in Sessions : where'[k] = f /\ doing'[k] = "flush" => file'[f].text = "empty"
      BY <2>2, <2>3, <2>6 DEF Whole
    <2>9. (\A k \in Sessions : where'[k] = f => doing'[k] # "flush")
            => file'[f].text = "whole" /\ file'[f].items = Kept(f, wrote'[f])
      BY <1>2, <2>2, <2>3, <2>6 DEF Whole
    <2> QED
      BY <2>5, <2>7, <2>8, <2>9 DEF Whole
  <1> QED
    BY <1>5, <1>6, <1>7

LEMMA LossStep == LossInv /\ [Next]_vars => LossInv'
  <1> SUFFICES ASSUME LossInv, [Next]_vars
               PROVE  LossInv'
    OBVIOUS
  <1>1. TypeOK'
    BY TypeStep DEF LossInv
  <1>2. ASSUME NEW s \in Sessions, SessionStep(s)
        PROVE  LossInv'
    <2>1. spoiled \subseteq spoiled'
      BY <1>2 DEF SessionStep, Arrive, Return, Load, Truncate, Flush, FlushFails, Record,
                  StoreDocument, IndexDocument
    <2>2. \A f \in Rewritten \ spoiled' : Whole(f)'
      BY <1>2, <2>1, Elsewhere, AtFile
    <2> QED
      BY <1>1, <1>2, <2>2, AloneStep, UnlearnedStep DEF LossInv
  <1>3. ASSUME NEW p \in Procs, Crash(p)
        PROVE  LossInv'
    BY <1>1, <1>3, CrashStep DEF LossInv
  <1>4. CASE UNCHANGED vars
    <2>1. /\ where' = where /\ doing' = doing /\ runs' = runs /\ copy' = copy
          /\ file' = file /\ wrote' = wrote /\ spoiled' = spoiled
      BY <1>4 DEF vars
    <2>2. Alone' /\ Unlearned'
      BY <2>1 DEF LossInv, Alone, Unlearned
    <2>3. \A f \in Rewritten \ spoiled' : Whole(f)'
      BY <2>1 DEF LossInv, Whole, Updating, After
    <2> QED
      BY <1>1, <2>2, <2>3 DEF LossInv
  <1> QED
    BY <1>2, <1>3, <1>4 DEF Next

\* An entry is lost from a store only to two processes that update its file at
\* once or to a rewrite that was left half-done: with any number of sessions
\* interleaved in a process, and with any limits of the stores, nothing else costs
\* an entry.
THEOREM Losses == Spec => []LostOnlyByOverlap
  <1>1. Init => LossInv
    <2> SUFFICES ASSUME Init
                 PROVE  LossInv
      OBVIOUS
    <2>1. Alone /\ Unlearned
      BY DEF Init, Alone, Unlearned, Stretches, Rewritten, Range
    <2>2. ASSUME NEW f \in Rewritten
          PROVE  Whole(f)
      <3>1. Kept(f, <<>>) = <<>>
        <4>1. ~(Len(<<>>) > MaxHistory) /\ ~(Len(<<>>) > Capacity) /\ ~(Len(<<>>) > MaxGoals)
          BY ArchivesAssumption
        <4> QED
          BY <4>1 DEF Kept, Newest, Rewritten
      <3>2. file[f].text = "whole" /\ file[f].items = <<>> /\ wrote[f] = <<>>
        BY DEF Init
      <3>3. \A s \in Sessions : where[s] # f
        BY DEF Init, Rewritten
      <3> QED
        BY <3>1, <3>2, <3>3 DEF Whole, Updating
    <2> QED
      BY <2>1, <2>2, InitTyped DEF LossInv
  <1>2. LossInv => LostOnlyByOverlap
    BY DEF LossInv, Whole, LostOnlyByOverlap, Loaded
  <1> QED
    BY <1>1, <1>2, LossStep, PTL DEF Spec
=============================================================================
