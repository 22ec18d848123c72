---------------------------- MODULE MCValidation ----------------------------
EXTENDS Validation

CONSTANTS red_team, crag, strategic_narrative, f1, f2, security, diplomacy

MCCrises == <<[truth |-> "HIGH", intensity |-> 92], [truth |-> "ELEVATED", intensity |-> 65],
              [truth |-> "HIGH", intensity |-> 78]>>

\* A released assessment, a cautious one, and what a failed one looks like.
MCAnswers == {
    [threat |-> "HIGH", escalation |-> 80, score |-> 75, gate |-> "APPROVE"],
    [threat |-> "ELEVATED", escalation |-> 55, score |-> 68, gate |-> "APPROVE"],
    [threat |-> "LOW", escalation |-> 0, score |-> 50, gate |-> "UNKNOWN"]}

MCModules == <<red_team, crag, strategic_narrative>>

Step(layer, at) == [layer |-> layer, at |-> at]
MCTraces == {
    <<Step("Layer 0", 0)>>,
    <<Step("Layer 0", 4)>>,
    <<Step("Layer 0", 1), Step("Layer 3", 5), Step("Layer 4", 7), Step("Layer 5", 30)>>,
    <<Step("Layer 0", 0), Step("Layer 3", 9), Step("Unknown", 12), Step("Unknown", 12),
      Step("Layer 4", 20), Step("Layer 5", 21)>>}

MCCases == <<[actual |-> 85, outcome |-> "FULL_WAR"], [actual |-> 35, outcome |-> "CRISIS"]>>

\* Nobody moves, and one model fails; beliefs fall; they rise; they part.
MCRevisions == {
    [Security |-> <<60>>, Diplomacy |-> <<>>, Economic |-> <<50, 50>>, Strategy |-> <<70>>],
    [Security |-> <<80, 60, 20>>, Diplomacy |-> <<75, 45>>, Economic |-> <<70, 40, 30>>,
     Strategy |-> <<90, 60>>],
    [Security |-> <<40, 60, 90>>, Diplomacy |-> <<45, 55>>, Economic |-> <<20, 30, 35>>,
     Strategy |-> <<60>>],
    [Security |-> <<72, 63>>, Diplomacy |-> <<45, 85>>, Economic |-> <<>>,
     Strategy |-> <<30, 75, 70>>]}

\* exp(-(d / 0.15)^2 / 2) for a distance of d percent, in hundred-thousandths.
Gaussian ==
    <<100000, 99778, 99115, 98020, 96507, 94596, 92312, 89683, 86743, 83527, 80074, 76423, 72615,
      68691, 64691, 60653, 56615, 52612, 48675, 44833, 41111, 37531, 34111, 30865, 27804, 24935,
      22263, 19790, 17513, 15430, 13534, 11818, 10274, 8892, 7662, 6573, 5613, 4773, 4040, 3405,
      2857, 2386, 1984, 1643, 1354, 1111, 908, 738, 598, 482, 387, 309, 246, 195, 153, 120, 94, 73,
      57, 44, 34, 26, 20, 15, 11, 8, 6, 5, 3, 3, 2, 1, 1, 1, 1, 0, 0, 0, 0, 0, 0, 0, 0, 0, 0, 0, 0,
      0, 0, 0, 0>>

\* Between two whole percents, in proportion; off by less than a thousandth.
MCKernel ==
    [d \in 0..9000 |->
        LET i == d \div 100 + 1
            drop == Gaussian[i] - Gaussian[IF i < 91 THEN i + 1 ELSE i]
        IN Gaussian[i] - (drop * (d % 100)) \div 100]

Calm     == [PEACE |-> 80, TENSIONS |-> 20, ESCALATION |-> 0, CRISIS |-> 0, WAR |-> 0]
Mixed    == [PEACE |-> 25, TENSIONS |-> 20, ESCALATION |-> 45, CRISIS |-> 10, WAR |-> 0]
Certain  == [PEACE |-> 0, TENSIONS |-> 0, ESCALATION |-> 0, CRISIS |-> 0, WAR |-> 100]
MCDays == {[day |-> 0, belief |-> b, truth |-> t, called |-> c] :
               b \in {Calm, Mixed, Certain}, t \in {"PEACE", "ESCALATION", "WAR"},
               c \in {"PEACE", "ESCALATION", "WAR"}}
MCLevels == {"LOW", "ELEVATED", "HIGH"}

MCBeliefs == {security :> 75, (security :> 40) @@ (diplomacy :> 15)}
=============================================================================
