----------------------------- MODULE MCArchives -----------------------------
(* Archives for TLC: sessions and processes are interchangeable.  Nothing    *)
(* depends any more on where an ended session ran, on the text of a spoiled  *)
(* file or what was read from it - except among the goals, where which one   *)
(* is dropped depends on the text - nor on a file that every session has     *)
(* left behind, once a state with its last text has been looked at.          *)
EXTENDS Archives, TLC

Symmetry == Permutations(Sessions) \cup Permutations(Procs)

Near == [introspection |-> {"new", "introspection", "context"},
         context       |-> {"new", "introspection", "context", "audit"}]

LeftBehind == {f \in DOMAIN Near : \A s \in Sessions : where[s] \notin Near[f]}

Forgotten == (spoiled \ {"learning"}) \cup LeftBehind

View ==
    <<where, doing, trail, spoiled, crashes, failures,
      [s \in Sessions |-> IF where[s] = "ended" THEN NoProc ELSE runs[s]],
      [s \in Sessions |-> IF where[s] \in Forgotten THEN <<>> ELSE copy[s]],
      [f \in Rewritten \ Forgotten |-> <<file[f], wrote[f]>>],
      [f \in Forgotten \ {"introspection"} |-> Range(wrote[f])]>>
=============================================================================
