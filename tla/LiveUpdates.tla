---------------------------- MODULE LiveUpdates -----------------------------
(***************************************************************************)
(* The assessment jobs together with the WebSocket clients that follow     *)
(* them: ConnectionManager, /ws/assessments, and the messages of           *)
(* _run_assessment_job.                                                    *)
(*                                                                         *)
(* A runner tells of its job three times: that it runs, before execute();  *)
(* that it completed, after the result is stored; or that it failed.  Each *)
(* telling is a broadcast over a snapshot of the connections, and then one *)
(* over a snapshot of the topic's subscribers, with an await at every      *)
(* send.  Meanwhile connections come, subscribe, close and go.             *)
(***************************************************************************)
EXTENDS AssessmentJobs

CONSTANT Conns    \* connections; a client that reconnects is a new one

VARIABLES
    alive,   \* connections whose peer is there
    active,  \* active_connections
    topics,  \* _subscriptions, for each job topic
    tell,    \* what the runner of each job is telling
    due,     \* the connections that were there when a telling began, and still are
    heard    \* the outcomes each connection was told of each job

live     == <<alive, active, topics, tell, due, heard>>
liveVars == <<vars, live>>

Told == {"RUNNING", "COMPLETED", "FAILED"}

Silent        == [stage |-> "none", left |-> {}, failed |-> {}, status |-> "RUNNING"]
Telling(told) == [stage |-> "all", left |-> active, failed |-> {}, status |-> told]

LiveTypeOK ==
    /\ alive \subseteq Conns /\ active \subseteq Conns
    /\ topics \in [Jobs -> SUBSET Conns]
    /\ tell \in [Jobs -> [stage : {"none", "all", "topic"}, left : SUBSET Conns,
                          failed : SUBSET Conns, status : Told]]
    /\ due \in [Jobs -> SUBSET Conns]
    /\ heard \in [Conns -> [Jobs -> SUBSET Terminal]]

LiveInit ==
    /\ Init
    /\ alive = {}
    /\ active = {}
    /\ topics = [j \in Jobs |-> {}]
    /\ tell = [j \in Jobs |-> Silent]
    /\ due = [j \in Jobs |-> {}]
    /\ heard = [c \in Conns |-> [j \in Jobs |-> {}]]

-----------------------------------------------------------------------------
(***************************************************************************)
(* ConnectionManager and the endpoint.                                     *)
(***************************************************************************)
Fresh(c) == c \notin alive \cup active /\ \A j \in Jobs : c \notin topics[j] \cup tell[j].left

Connect(c) ==
    /\ api = "up"
    /\ Fresh(c)
    /\ alive' = alive \cup {c}
    /\ active' = active \cup {c}
    /\ UNCHANGED <<vars, topics, tell, due, heard>>

Subscribe(c, j) ==
    /\ c \in alive \cap active
    /\ topics' = [topics EXCEPT ![j] = @ \cup {c}]
    /\ UNCHANGED <<vars, alive, active, tell, due, heard>>

\* The peer closes, or uvicorn gives up on one that does not answer its pings.
Close(c) ==
    /\ c \in alive
    /\ alive' = alive \ {c}
    /\ due' = [j \in Jobs |-> due[j] \ {c}]
    /\ heard' = [heard EXCEPT ![c] = [j \in Jobs |-> {}]]
    /\ UNCHANGED <<vars, active, topics, tell>>

Dropped(cs) ==
    /\ active' = active \ cs
    /\ topics' = [j \in Jobs |-> topics[j] \ cs]

\* receive_json raises in the endpoint.
Disconnect(c) ==
    /\ c \in active \ alive
    /\ Dropped({c})
    /\ UNCHANGED <<vars, alive, tell, due, heard>>

Hears(c, j) == heard' = [heard EXCEPT ![c][j] = @ \cup ({tell[j].status} \cap Terminal)]

\* Mutant: a send that raises ends the broadcast.
SendUncaught(j, c) ==
    /\ api \in {"up", "stopping"}
    /\ tell[j].stage = "all"
    /\ c \in tell[j].left
    /\ IF c \in alive
       THEN tell' = [tell EXCEPT ![j].left = @ \ {c}] /\ Hears(c, j)
       ELSE tell' = [tell EXCEPT ![j].left = {}, ![j].failed = {c}] /\ UNCHANGED heard
    /\ UNCHANGED <<vars, alive, active, topics, due>>

\* broadcast: every connection of the snapshot, whether it has gone or not.
Send(j, c) ==
    /\ api \in {"up", "stopping"}
    /\ tell[j].stage = "all"
    /\ c \in tell[j].left
    /\ IF c \in alive
       THEN tell' = [tell EXCEPT ![j].left = @ \ {c}] /\ Hears(c, j)
       ELSE tell' = [tell EXCEPT ![j].left = @ \ {c}, ![j].failed = @ \cup {c}] /\ UNCHANGED heard
    /\ UNCHANGED <<vars, alive, active, topics, due>>

\* The end of the broadcast drops those it failed on; then the topic's turn.
TurnToTopic(j) ==
    /\ api \in {"up", "stopping"}
    /\ tell[j].stage = "all"
    /\ tell[j].left = {}
    /\ Dropped(tell[j].failed)
    /\ tell' = [tell EXCEPT ![j].stage = "topic", ![j].left = topics'[j], ![j].failed = {}]
    /\ UNCHANGED <<vars, alive, due, heard>>

\* publish_topic: one that has gone is passed over, or dropped when it fails.
SendTopic(j, c) ==
    /\ api \in {"up", "stopping"}
    /\ tell[j].stage = "topic"
    /\ c \in tell[j].left
    /\ tell' = [tell EXCEPT ![j].left = @ \ {c}]
    /\ IF c \in active \cap alive THEN Hears(c, j) ELSE UNCHANGED heard
    /\ Dropped({c} \ alive)
    /\ UNCHANGED <<vars, alive, due>>

EndTelling(j) ==
    /\ tell[j].stage = "topic"
    /\ tell[j].left = {}
    /\ tell' = [tell EXCEPT ![j] = Silent]
    /\ UNCHANGED <<vars, alive, active, topics, due, heard>>

Tells(j) == (\E c \in Conns : Send(j, c) \/ SendTopic(j, c)) \/ TurnToTopic(j) \/ EndTelling(j)

-----------------------------------------------------------------------------
(***************************************************************************)
(* The steps of the job store and its runners, with what they tell.        *)
(***************************************************************************)

\* Mutant: whatever the pipeline returned is announced as completed.
EventRegardless(j) ==
    CASE runner'[j] = "executing"  -> "RUNNING"
      [] runner'[j] = "announcing" -> "COMPLETED"
      [] runner'[j] = "reporting"  -> "FAILED"

\* job.completed carries the status that was stored.
Announces(j) ==
    CASE runner'[j] = "executing"  -> "RUNNING"
      [] runner'[j] = "announcing" -> mem'[j]
      [] runner'[j] = "reporting"  -> "FAILED"

Enters(j) == runner'[j] # runner[j] /\ runner'[j] \in {"executing", "announcing", "reporting"}

\* While it is telling, a runner does nothing else, unless it is cancelled.
Awaits(j) == api' = "up" /\ runner'[j] # runner[j] => tell[j] = Silent

\* The end of the process takes the connections with it.
WithClients(A) ==
    /\ A
    /\ \A j \in Jobs : Awaits(j)
    /\ tell' = [j \in Jobs |-> IF Enters(j) THEN Telling(Announces(j))
                               ELSE IF runner'[j] = "none" THEN Silent ELSE tell[j]]
    /\ due' = [j \in Jobs |-> IF Enters(j) THEN active \cap alive
                              ELSE IF runner'[j] = "none" THEN {} ELSE due[j]]
    /\ IF api' = "down"
       THEN /\ alive' = {} /\ active' = {} /\ topics' = [j \in Jobs |-> {}]
            /\ heard' = [c \in Conns |-> [j \in Jobs |-> {}]]
       ELSE UNCHANGED <<alive, active, topics, heard>>

JobStep == WithClients(Next)

ClientStep ==
    \E c \in Conns :
        Connect(c) \/ Close(c) \/ Disconnect(c) \/ \E j \in Jobs : Subscribe(c, j)

LiveNext == JobStep \/ ClientStep \/ \E j \in Jobs : Tells(j)

LiveSpec == LiveInit /\ [][LiveNext]_liveVars

-----------------------------------------------------------------------------
(***************************************************************************)
(* Properties.                                                             *)
(***************************************************************************)

\* rest_api.py:148, "broadcast to all sockets": when a runner is done, whoever
\* was connected as it began to tell the outcome and still is has been told it,
\* whoever else came, closed or failed in between.
EverybodyHears ==
    [][\A j \in Jobs :
          runner[j] \in {"announcing", "reporting"} /\ runner'[j] = "none" /\ api' = "up" =>
              \A c \in due[j] : heard[c][j] # {}]_liveVars

\* What a client was told is what the file says: a completed job is not one
\* that still runs or failed (a shutdown may fail it while it is being
\* announced), and no client is told that a job failed and that it completed.
HeardIsStored ==
    \A c \in Conns, j \in Jobs :
        /\ "COMPLETED" \in heard[c][j] =>
              disk[j] \in {"COMPLETED", "ABSENT"} \/ (disk[j] = "FAILED" /\ crashes > 0)
        /\ "FAILED" \in heard[c][j] =>
              disk[j] \in {"FAILED", "ABSENT"} /\ "COMPLETED" \notin heard[c][j]
=============================================================================
