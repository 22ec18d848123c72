-------------------------- MODULE MCInvestigation ---------------------------
EXTENDS Investigation

MCNeeds == {"news", "military", "legal"}

\* "News" and "Military" are categories of the registry, "legal" is not.
MCAnswers ==
    [s \in Sensors |-> IF s \in Basic THEN {"news", "military"} ELSE {"military"}]
=============================================================================
