\* Two specialists, both required, and a probability on each side of the floor.
SPECIFICATION FairSpec
CONSTANTS
    Ministers = {"Security", "Strategy"}
    Required = {"Security", "Strategy"}
    Probs = {40, 80}
    Evidence <- MCEvidence
    Stances = {"WAR", "PEACE"}
INVARIANTS
    AttackMeetsStrongest
PROPERTIES
    ReleaseIsOnRecord DebateEnds
\* A debate that has stopped takes no further step.
CHECK_DEADLOCK FALSE
