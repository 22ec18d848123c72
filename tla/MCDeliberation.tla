---------------------------- MODULE MCDeliberation ----------------------------
(***************************************************************************)
(* One debate, with a signal that concerns both specialists of the run and *)
(* one that concerns a single one.                                         *)
(***************************************************************************)
EXTENDS Deliberation

MCEvidence ==
    "e1" :> [source |-> "ACLED", domain |-> "military"]
    @@ "e2" :> [source |-> "IMF", domain |-> "economic"]
=============================================================================
