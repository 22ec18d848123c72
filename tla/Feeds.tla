-------------------------------- MODULE Feeds --------------------------------
(***************************************************************************)
(* What the feeds bring in: the search cascade, the sensors and the        *)
(* integrator that gathers them against a deadline.                        *)
(*                                                                         *)
(* A service is asked over the network.  It gives something or not, and it *)
(* takes no time or all the time it is granted - a bound: nothing between. *)
(* One that needs a key and has none gives nothing at once.  What a feed   *)
(* brings is known by its source, and whether any service reported it.     *)
(***************************************************************************)
EXTENDS Naturals, FiniteSetsExt, SequencesExt

\* Seconds, for all the requests one call of the service makes.
Granted == [tavily |-> 10, serper |-> 10, duckduckgo |-> 40, gdelt_doc |-> 6,
            gdelt |-> 30, acled |-> 30, ofac |-> 60]
Services == DOMAIN Granted
Networks == [giving : SUBSET Services, slow : SUBSET Services]

Asked(net, s) == [found |-> s \in net.giving, took |-> IF s \in net.slow THEN Granted[s] ELSE 0]

-----------------------------------------------------------------------------
(* ResilientWebSurfer *)

Tavily(net)   == Asked(net, "tavily")
Serper(net)   == Asked(net, "serper")
GdeltDoc(net) == Asked(net, "gdelt_doc")

\* Two attempts.  The lines that turn results into observations follow the
\* `continue` of a timeout: no result ever becomes one.
DuckDuckGo(net) == [Asked(net, "duckduckgo") EXCEPT !.found = FALSE]

Providers(net) == <<Tavily(net), Serper(net), DuckDuckGo(net), GdeltDoc(net)>>

Waited(tries) == FoldLeft(LAMBDA sum, t : sum + t.took, 0, tries)

\* Two observations of the surfer's own making.
MadeUp(took) == [reported |-> FALSE, took |-> took]

\* search(): the providers in turn until one has found something.
Search(net) ==
    LET tries == Providers(net)
        hits == {i \in DOMAIN tries : tries[i].found}
    IN IF hits = {} THEN MadeUp(Waited(tries))
       ELSE [reported |-> TRUE, took |-> Waited(SubSeq(tries, 1, Min(hits)))]

-----------------------------------------------------------------------------
(* The sensors and feeds *)

Brought(source, reported, took) ==
    [observations |-> {[source |-> source, reported |-> reported]}, took |-> took]

Nothing(took) == [observations |-> {}, took |-> took]

\* NewsSensor.fetch: whatever the surfer answers is news.  The surfer always
\* answers, so the fallback to Google's feed is never needed.
News(net) ==
    LET surfed == Search(net) IN Brought("RESILIENT_NEWS_SURFER", surfed.reported, surfed.took)

Fetched(source, answer) ==
    IF answer.found THEN Brought(source, TRUE, answer.took) ELSE Nothing(answer.took)

Gdelt(net) == Fetched("GDELT_V2", Asked(net, "gdelt"))
Acled(net) == Fetched("ACLED", Asked(net, "acled"))
Ofac(net)  == Fetched("OFAC", Asked(net, "ofac"))

-----------------------------------------------------------------------------
(* FeedIntegrator *)

Deadline == 30

\* What StateProvider asks for: none of these words is "economy", "trade",
\* "sanctions" or "finance".
GoalDomains == {"military", "economic", "political", "diplomatic", "cyber"}

\* ACLED and OFAC are read with a blocking call: while they last nothing else runs.
Blocking(net, domains) ==
    (IF domains \cap {"military", "conflict", "security", "geopolitics"} # {}
     THEN {Acled(net)} ELSE {})
    \cup (IF domains \cap {"economy", "trade", "sanctions", "finance"} # {}
          THEN {Ofac(net)} ELSE {})

\* fetch_all: past the deadline the results of all are dropped.
FetchAll(net, domains) ==
    LET blocking == Blocking(net, domains)
        sensors == {Gdelt(net), News(net)}
        took == MapThenSumSet(LAMBDA f : f.took, blocking) + Max({f.took : f \in sensors})
    IN IF took >= Deadline THEN {} ELSE UNION {f.observations : f \in blocking \cup sensors}

\* The sources a collection can bring, over all networks.
Collections == {FetchAll(net, GoalDomains) : net \in Networks}
=============================================================================
