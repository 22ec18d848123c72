----------------------------- MODULE JobLedger -----------------------------
(***************************************************************************)
(* What the analyst job store promises its callers, without files, caches  *)
(* or locks: one ledger of jobs, and for each claimed job at most one      *)
(* holder, the only party that may report on it.  AnalystJobs is shown to  *)
(* implement this specification.                                           *)
(***************************************************************************)
CONSTANTS
    Jobs,    \* job identifiers (uuid4().hex in the code)
    Procs    \* processes that can hold a claim: the API and the workers

VARIABLES
    ledger,  \* ledger[j]: the status of job j, or "ABSENT"
    held,    \* pairs <<p, j>>: process p holds the claim on job j
    spent    \* identifiers that were ever handed out

lvars == <<ledger, held, spent>>

Statuses == {"QUEUED", "RUNNING", "COMPLETED", "FAILED"}
Active   == {"QUEUED", "RUNNING"}
Terminal == {"COMPLETED", "FAILED"}

LedgerInit ==
    /\ ledger = [j \in Jobs |-> "ABSENT"]
    /\ held = {}
    /\ spent = {}

\* A job is entered under an identifier never used before.
Submit(j) ==
    /\ j \notin spent
    /\ spent' = spent \cup {j}
    /\ ledger' = [ledger EXCEPT ![j] = "QUEUED"]
    /\ UNCHANGED held

\* A submission that could not be stored uses up its identifier and nothing else.
Refuse(j) ==
    /\ j \notin spent
    /\ spent' = spent \cup {j}
    /\ UNCHANGED <<ledger, held>>

\* A queued job that nobody holds goes to exactly one claimer.
Claim(p, j) ==
    /\ ledger[j] = "QUEUED"
    /\ \A q \in Procs : <<q, j>> \notin held
    /\ ledger' = [ledger EXCEPT ![j] = "RUNNING"]
    /\ held' = held \cup {<<p, j>>}
    /\ UNCHANGED spent

\* The holder starts the job, or ends it for good or for bad and lets go of
\* the claim.  A job that was interrupted meanwhile may be reported on too.
Report(p, j) ==
    /\ <<p, j>> \in held
    /\ ledger[j] \in {"RUNNING", "FAILED"}
    /\ \/ /\ ledger' = [ledger EXCEPT ![j] = "RUNNING"]
          /\ UNCHANGED held
       \/ /\ ledger' \in {[ledger EXCEPT ![j] = s] : s \in Terminal}
          /\ held' = held \ {<<p, j>>}
    /\ UNCHANGED spent

\* Claims lapse: a holder died, or found its job pruned, or could not save.
Lapse ==
    /\ held' \in SUBSET held
    /\ UNCHANGED <<ledger, spent>>

\* A restart of the API fails everything in flight.
Interrupt ==
    /\ ledger' = [j \in Jobs |-> IF ledger[j] \in Active THEN "FAILED" ELSE ledger[j]]
    /\ UNCHANGED <<held, spent>>

\* Retention removes finished jobs, and only those.
Expire ==
    /\ \E dropped \in SUBSET {j \in Jobs : ledger[j] \in Terminal} :
          ledger' = [j \in Jobs |-> IF j \in dropped THEN "ABSENT" ELSE ledger[j]]
    /\ UNCHANGED <<held, spent>>

LedgerNext ==
    \/ \E j \in Jobs : Submit(j) \/ Refuse(j)
    \/ \E p \in Procs, j \in Jobs : Claim(p, j) \/ Report(p, j)
    \/ Lapse
    \/ Interrupt
    \/ Expire

LedgerSpec == LedgerInit /\ [][LedgerNext]_lvars
=============================================================================
