------------------------------ MODULE Archives ------------------------------
(***************************************************************************)
(* What an assessment leaves behind: the introspection's history, the      *)
(* working memory, the audit log, the memory vault, the learning memory    *)
(* and the forecast archive, as execute() writes them, in the processes    *)
(* (API server and workers) that share one source tree and so one copy of  *)
(* each file.                                                              *)
(*                                                                         *)
(* Four of the stores are JSON files read, extended and rewritten in place *)
(* without a lock.  Inside a process the event loop is what keeps two      *)
(* sessions apart: execute() awaits nothing from analyze_bias to           *)
(* record_assessment, nor from the vault to the archive.                   *)
(***************************************************************************)
EXTENDS Naturals, SequencesExt

CONSTANTS
    Procs,             \* the processes
    NoProc,            \* where a session runs before it starts
    Sessions,          \* the assessments
    MaxHistory,        \* entries of the introspection's history (100)
    Capacity,          \* WorkingMemory.capacity (5)
    MaxGoals,          \* LearningEngine.max_active_goals (25)
    MaxCrashes,        \* bound: processes killed
    MaxWriteFailures   \* bound: writes that raise

ASSUME ArchivesAssumption ==
    /\ NoProc \notin Procs
    /\ MaxHistory \in Nat \ {0} /\ Capacity \in Nat \ {0} /\ MaxGoals \in Nat \ {0}
    /\ MaxCrashes \in Nat /\ MaxWriteFailures \in Nat

Rewritten == {"introspection", "context", "learning", "forecasts"}
Stretches == Rewritten \cup {"audit", "vault", "index"}

VARIABLES
    where,     \* the statement of execute() the session is at
    doing,     \* inside a rewrite: "load", "open" or "flush"
    runs,      \* the process that runs the session
    copy,      \* what the session loaded, its own entry added
    file,      \* the JSON files: their text and whether it parses
    audited,   \* sessions on the audit log
    filed,     \* sessions whose markdown file is in the vault
    indexed,   \* sessions in the vault's SQLite index
    wrote,     \* history: the entries saved, in order
    spoiled,   \* history: files two processes updated at once, or one left half-written
    crashes, failures

vars == <<where, doing, runs, copy, file, audited, filed, indexed, wrote, spoiled,
          crashes, failures>>

trail == <<audited, filed, indexed>>

\* Every variable keeps its type.
TypeOK ==
    /\ where \in [Sessions -> Stretches \cup {"new", "away", "ended"}]
    /\ doing \in [Sessions -> {"load", "open", "flush"}]
    /\ runs \in [Sessions -> Procs \cup {NoProc}]
    /\ copy \in [Sessions -> Seq(Sessions)]
    /\ file \in [Rewritten -> [text : {"whole", "empty", "torn"}, items : Seq(Sessions)]]
    /\ audited \subseteq Sessions /\ filed \subseteq Sessions /\ indexed \subseteq Sessions
    /\ wrote \in [Rewritten -> Seq(Sessions)]
    /\ spoiled \subseteq Rewritten
    /\ crashes \in Nat /\ failures \in Nat

\* The files are there: the constructors of the working memory, the learning engine and
\* the archive write an empty one only where there is none, which is so before the first
\* session of a source tree, and nothing removes one.
Init ==
    /\ where = [s \in Sessions |-> "new"]
    /\ doing = [s \in Sessions |-> "load"]
    /\ runs = [s \in Sessions |-> NoProc]
    /\ copy = [s \in Sessions |-> <<>>]
    /\ file = [f \in Rewritten |-> [text |-> "whole", items |-> <<>>]]
    /\ audited = {} /\ filed = {} /\ indexed = {}
    /\ wrote = [f \in Rewritten |-> <<>>]
    /\ spoiled = {}
    /\ crashes = 0 /\ failures = 0

-----------------------------------------------------------------------------
\* What a reader gets: any error of open() or json.load() is the default.
Loaded(f) == IF file[f].text = "whole" THEN file[f].items ELSE <<>>

Newest(entries, n) ==
    IF Len(entries) > n THEN SubSeq(entries, Len(entries) - n + 1, Len(entries)) ELSE entries

\* What analyze(), save_context, learn_from_session and record_forecast keep.  Goals
\* have equal priorities and the sort is stable: beyond MaxGoals the new one goes.
Kept(f, entries) ==
    CASE f = "introspection" -> Newest(entries, MaxHistory)
      [] f = "context"       -> Newest(entries, Capacity)
      [] f = "learning"      -> IF Len(entries) > MaxGoals THEN SubSeq(entries, 1, MaxGoals)
                                                           ELSE entries
      [] f = "forecasts"     -> entries

\* Mutant: an await between two statements of a stretch.
LoopIsShared(p) == TRUE

\* A stretch without await holds the event loop of its process.
LoopIsFree(p) == \A s \in Sessions : runs[s] = p => where[s] \notin Stretches

Updating(s, f) == where[s] = f /\ doing[s] # "load"

Move(s, place) ==
    /\ where' = [where EXCEPT ![s] = place]
    /\ doing' = [doing EXCEPT ![s] = "load"]

\* The session has been synthesized and reaches analyze_bias, which looks at its
\* hypotheses and has nothing to record where there are none.
Arrive(s) ==
    /\ where[s] = "new"
    /\ \E p \in Procs : LoopIsFree(p) /\ runs' = [runs EXCEPT ![s] = p]
    /\ \E hypotheses \in BOOLEAN : Move(s, IF hypotheses THEN "introspection" ELSE "context")
    /\ UNCHANGED <<copy, file, trail, wrote, spoiled, crashes, failures>>

\* Back from the awaits of the forecasts and the briefing.
Return(s) ==
    /\ where[s] = "away"
    /\ LoopIsFree(runs[s])
    /\ Move(s, "vault")
    /\ UNCHANGED <<runs, copy, file, trail, wrote, spoiled, crashes, failures>>

\* A session that is not for human review adds no goal.
Load(s) ==
    LET f == where[s]
    IN  /\ f \in Rewritten
        /\ doing[s] = "load"
        /\ doing' = [doing EXCEPT ![s] = "open"]
        /\ \E adds \in IF f = "learning" THEN BOOLEAN ELSE {TRUE} :
             copy' = [copy EXCEPT ![s] =
                        Kept(f, IF adds THEN Append(Loaded(f), s) ELSE Loaded(f))]
        /\ spoiled' = IF \E k \in Sessions : runs[k] # runs[s] /\ Updating(k, f)
                      THEN spoiled \cup {f} ELSE spoiled
        /\ UNCHANGED <<where, runs, file, trail, wrote, crashes, failures>>

\* open(path, 'w') truncates; the new text is still in the buffer.
Truncate(s) ==
    LET f == where[s]
    IN  /\ f \in Rewritten
        /\ doing[s] = "open"
        /\ doing' = [doing EXCEPT ![s] = "flush"]
        /\ file' = [file EXCEPT ![f] = [text |-> "empty", items |-> <<>>]]
        /\ UNCHANGED <<where, runs, copy, trail, wrote, spoiled, crashes, failures>>

AfterFlush ==
    [introspection |-> "context", context |-> "audit", learning |-> "forecasts", forecasts |-> "ended"]

\* Text that another writer flushed after our open is overwritten from its
\* start: when it is the longer one its tail stays and nothing parses.
Flush(s) ==
    LET f == where[s]
    IN  /\ f \in Rewritten
        /\ doing[s] = "flush"
        /\ \E text \in IF file[f].text = "empty" THEN {"whole"} ELSE {"whole", "torn"} :
             file' = [file EXCEPT ![f] = [text |-> text, items |-> copy[s]]]
        /\ wrote' = IF s \in Range(copy[s]) THEN [wrote EXCEPT ![f] = Append(@, s)] ELSE wrote
        /\ copy' = [copy EXCEPT ![s] = <<>>]
        /\ Move(s, AfterFlush[f])
        /\ UNCHANGED <<runs, trail, spoiled, crashes, failures>>

\* A rewrite that raises leaves what it had flushed.  The first two are in no try
\* of their own: execute() answers ERROR.  Learning and archive share one.
FlushFails(s) ==
    LET f == where[s]
    IN  /\ f \in Rewritten
        /\ doing[s] = "flush"
        /\ failures < MaxWriteFailures
        /\ failures' = failures + 1
        /\ file' = [file EXCEPT ![f].text = "torn"]
        /\ spoiled' = spoiled \cup {f}
        /\ copy' = [copy EXCEPT ![s] = <<>>]
        /\ Move(s, "ended")
        /\ UNCHANGED <<runs, trail, wrote, crashes>>

\* record_assessment appends one line; the awaits follow.
Record(s) ==
    /\ where[s] = "audit"
    /\ \/ audited' = audited \cup {s} /\ Move(s, "away") /\ UNCHANGED failures
       \/ /\ failures < MaxWriteFailures
          /\ failures' = failures + 1
          /\ Move(s, "ended")
          /\ UNCHANGED audited
    /\ UNCHANGED <<runs, copy, file, filed, indexed, wrote, spoiled, crashes>>

\* Mutant: a try around each of the vault's writes instead of one around both.
StoreDocumentAnyway(s) ==
    /\ where[s] = "vault"
    /\ Move(s, "index")
    /\ \/ filed' = filed \cup {s} /\ UNCHANGED failures
       \/ /\ failures < MaxWriteFailures
          /\ failures' = failures + 1
          /\ UNCHANGED filed
    /\ UNCHANGED <<runs, copy, file, audited, indexed, wrote, spoiled, crashes>>

\* store_intelligence writes the document, then its row.  One try covers both,
\* and what it catches does not stop the learning.
StoreDocument(s) ==
    /\ where[s] = "vault"
    /\ \/ filed' = filed \cup {s} /\ Move(s, "index") /\ UNCHANGED failures
       \/ /\ failures < MaxWriteFailures
          /\ failures' = failures + 1
          /\ Move(s, "learning")
          /\ UNCHANGED filed
    /\ UNCHANGED <<runs, copy, file, audited, indexed, wrote, spoiled, crashes>>

IndexDocument(s) ==
    /\ where[s] = "index"
    /\ Move(s, "learning")
    /\ \/ indexed' = indexed \cup {s} /\ UNCHANGED failures
       \/ /\ failures < MaxWriteFailures
          /\ failures' = failures + 1
          /\ UNCHANGED indexed
    /\ UNCHANGED <<runs, copy, file, audited, filed, wrote, spoiled, crashes>>

\* The sessions of a killed process end where they are; a file it had open is
\* left truncated, or with the part of the text that was flushed.
Crash(p) ==
    LET open == {f \in Rewritten : \E s \in Sessions :
                   runs[s] = p /\ where[s] = f /\ doing[s] = "flush"}
        live == {s \in Sessions : runs[s] = p /\ where[s] # "ended"}
    IN  /\ crashes < MaxCrashes
        /\ live # {}
        /\ crashes' = crashes + 1
        /\ where' = [s \in Sessions |-> IF s \in live THEN "ended" ELSE where[s]]
        /\ doing' = [s \in Sessions |-> IF s \in live THEN "load" ELSE doing[s]]
        /\ copy' = [s \in Sessions |-> IF s \in live THEN <<>> ELSE copy[s]]
        /\ \E torn \in SUBSET open :
             file' = [f \in Rewritten |->
                        IF f \in torn THEN [file[f] EXCEPT !.text = "torn"] ELSE file[f]]
        /\ spoiled' = spoiled \cup open
        /\ UNCHANGED <<runs, trail, wrote, failures>>

SessionStep(s) ==
    \/ Arrive(s) \/ Return(s)
    \/ Load(s) \/ Truncate(s) \/ Flush(s) \/ FlushFails(s)
    \/ Record(s) \/ StoreDocument(s) \/ IndexDocument(s)

Next ==
    \/ \E s \in Sessions : SessionStep(s)
    \/ \E p \in Procs : Crash(p)

Spec == Init /\ [][Next]_vars

-----------------------------------------------------------------------------
\* An entry is lost only to an overlap: a file that no two processes updated at
\* once and no rewrite left half-done holds, whenever it is not being rewritten,
\* every entry that was saved in it, its window or limit aside.  Two sessions of
\* one process never cost an entry, however their awaits interleave, and an
\* append-only store needs no such proviso.
LostOnlyByOverlap ==
    \A f \in Rewritten :
      f \notin spoiled /\ (\A s \in Sessions : where[s] = f => doing[s] # "flush")
        => Loaded(f) = Kept(f, wrote[f])

\* The stores tell one story after any crash and any failed write: what the
\* index finds has its document, and nothing is in the vault, among the goals or
\* in the archive that the audit log does not show, nor on the audit log without
\* its context having been saved.
TrailIsOrdered ==
    /\ indexed \subseteq filed
    /\ filed \cup Range(wrote["learning"]) \cup Range(wrote["forecasts"]) \subseteq audited
    /\ audited \subseteq Range(wrote["context"])

=============================================================================
