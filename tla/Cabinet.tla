------------------------------- MODULE Cabinet -------------------------------
(***************************************************************************)
(* The ministers of the council.  A minister predicts one signal for each  *)
(* of the first four telling words of the question it tests, and none of   *)
(* these predictions ever appears in the description of a signal: they are *)
(* all named as gaps.  A gap is known by the category whose words the      *)
(* corrective investigation finds in its name, "other" if it finds none.   *)
(***************************************************************************)
EXTENDS Integers

Categories == {"military", "diplomatic", "economic", "cyber", "political", "alliance"}
Gaps == Categories \cup {"other"}

Minister(predicted, gaps) == [predicted |-> predicted, gaps |-> gaps]

\* "Is this a genuine military threat?"
SecurityMinister == Minister(2, {"military", "other"})
\* "Is this escalation or de-escalation?"
StrategyMinister == Minister(2, {"other"})
\* "Is this diplomatic posturing or genuine negotiation?"
DiplomacyMinister == Minister(3, {"diplomatic", "other"})
\* "Is domestic instability shaping the external behavior?"
DomesticMinister == Minister(4, {"other"})
\* "Are economic factors driving this behavior?"
EconomicMinister == Minister(4, {"economic", "other"})
\* "Are alliance dynamics changing the escalation path?"
AllianceMinister == Minister(4, {"alliance", "other"})
\* "What is the strongest non-escalatory or deceptive explanation?"
ContrarianMinister == Minister(4, {"other"})

Ministers ==
    [Security   |-> SecurityMinister,  Strategy   |-> StrategyMinister,
     Diplomacy  |-> DiplomacyMinister, Domestic   |-> DomesticMinister,
     Economic   |-> EconomicMinister,  Alliance   |-> AllianceMinister,
     Contrarian |-> ContrarianMinister]

\* The gap in each hypothesis of the heuristic baseline, "missing_..._corroboration".
BaselineGap ==
    [Security |-> "military", Strategy |-> "other", Diplomacy |-> "diplomatic",
     Economic |-> "economic", Contrarian |-> "other"]
=============================================================================
