------------------------------- MODULE Outlook -------------------------------
(***************************************************************************)
(* What the steps after the verdict compute from the state context: the    *)
(* decay of confidence, the trajectory, the black swan detector and the    *)
(* pressures, options and posture of the briefing.                         *)
(*                                                                         *)
(* Everything is in thousandths; a product is cut to them, where the code  *)
(* keeps a float.  A momentum is at most 400: a belief's support lies in   *)
(* 0..1 and compute_trends asks for four of them.                          *)
(***************************************************************************)
EXTENDS Disposition

\* A signal's trend: its momentum, its persistence, the sigmas of its spike.
Indicator(momentum, persistence, severity) ==
    [momentum |-> momentum, persistence |-> persistence, severity |-> severity]
Spiking(trends) == SelectSeq(trends, LAMBDA t : t.severity > 0)

Least(a, b) == IF a < b THEN a ELSE b
Times(a, b) == (a * b) \div 1000
Abs(x) == IF x < 0 THEN 0 - x ELSE x

----------------------------------------------------------------------------
(* apply_uncertainty_decay, as the last round of research leaves it *)

\* No signal has the domain "diplomatic": that blindspot is never closed.
Blindspots(observations, signals) ==
    LET seen == {signals[i].domain : i \in DOMAIN signals}
    IN  {b \in {"none", "few", "diplomatic", "economic"} :
           \/ b = "none" /\ observations = 0
           \/ b = "few" /\ observations \in 1..2
           \/ b \in {"diplomatic", "economic"} /\ observations > 0 /\ b \notin seen}

Decay(blindspots) ==
    LET volume == IF "none" \in blindspots THEN 300 ELSE IF "few" \in blindspots THEN 600 ELSE 1000
        domains == Cardinality(blindspots \cap {"diplomatic", "economic"})
        decay == CASE domains = 2 -> (volume * 81) \div 100
                   [] domains = 1 -> (volume * 90) \div 100
                   [] OTHER       -> volume
    IN  Max({100, 10 * ((decay + 5) \div 10)})

----------------------------------------------------------------------------
(* compute_trajectory *)

\* Mean momentum, more of it the longer it lasts.
Velocity(trends) ==
    Times(Mean(trends, LAMBDA t : t.momentum), Mean(trends, LAMBDA t : t.persistence) + 500)

Labels == {"ESCALATING", "DE_ESCALATING", "STABLE"}
NoTrajectory == [p14 |-> 0, p30 |-> 0, p60 |-> 0, velocity |-> 0, label |-> "STABLE"]

\* The default when there is no escalation: no belief was formed.
Trajectory(believed, escalation, trends) ==
    LET velocity == Velocity(trends)
        boost == Least(150, 50 * Len(Spiking(trends)))
        ahead(move) == Clamp(0, 1000, escalation + move + boost)
    IN  IF ~believed THEN NoTrajectory
        ELSE [p14 |-> ahead(velocity), p30 |-> ahead(2 * velocity),
              p60 |-> ahead((7 * velocity) \div 2),
              velocity |-> velocity,
              label |-> IF velocity > 50 THEN "ESCALATING"
                        ELSE IF velocity < -50 THEN "DE_ESCALATING" ELSE "STABLE"]

\* forecast_reliability: a fast trajectory discounts the verification.
Reliability(v, trajectory) == Times(v, 1000 - Least(Abs(trajectory.velocity), 900))

----------------------------------------------------------------------------
(* detect_black_swan *)

RareActions == {"SIG_WMD_RISK", "SIG_ALLIANCE_INVOCATION", "SIG_MASS_MOBILIZATION", "SIG_REGIME_COLLAPSE"}
Channels == {"SPIKE_SEVERITY", "STRUCTURAL_DISCONTINUITY", "RARE_HIGH_IMPACT_SIGNAL"}

BlackSwan(signals, trends) ==
    {c \in Channels :
       \/ c = "SPIKE_SEVERITY" /\ \E i \in DOMAIN trends : trends[i].severity >= 3500
       \/ c = "STRUCTURAL_DISCONTINUITY" /\ Abs(Mean(trends, LAMBDA t : t.momentum)) > 600
       \/ /\ c = "RARE_HIGH_IMPACT_SIGNAL"
          /\ \E i \in DOMAIN signals : signals[i].action \in RareActions /\ signals[i].confidence > 850}

----------------------------------------------------------------------------
(* compute_strategic_pressure *)

\* The actions that have one of the tokens in them, of those the extractor names.
Urgent == {"SIG_MIL_MOBILIZATION", "SIG_CYBER_ATTACK", "SIG_WMD_RISK", "SIG_MASS_MOBILIZATION"}
Diplomatic == {"SIG_PEACE_TALKS", "SIG_DEESCALATION"}

Bias(level) ==
    CASE level = "LOW" -> 150 [] level = "ELEVATED" -> 450 [] level = "HIGH" -> 720
      [] level = "CRITICAL" -> 920 [] OTHER -> 350

Share(signals, actions, whole) ==
    Least(1000, (1000 * Len(SelectSeq(signals, LAMBDA s : s.action \in actions))) \div whole)

\* The channels of the pressure that a later step reads.
Pressure(signals, blindspots, sre, level) ==
    LET heard == IF signals = <<>> THEN sre
                 ELSE Mean(signals, LAMBDA s : Times(s.confidence, Max({250, s.intensity})))
        urgency == (45 * Bias(level) + 35 * Share(signals, Urgent, 4) + 20 * sre) \div 100
        tension == (55 * sre + 30 * heard + 15 * Bias(level)) \div 100
        window == Times(Share(signals, Diplomatic, 3), 1000 - Least(tension, 850))
    IN  [urgency |-> urgency,
         tension |-> tension,
         diplomatic_window |-> window,
         opportunity |-> Clamp(0, 1000, (65 * window + 35 * (1000 - tension) - 25 * urgency) \div 100),
         uncertainty |-> Clamp(0, 1000, 1000 - Decay(blindspots)
                                          + Least(350, 80 * Cardinality(blindspots)))]

Pulses == {"volatile", "rising", "diplomatic-window", "stable-watch"}
Pulse(pressure) ==
    IF pressure.urgency >= 750 \/ pressure.tension >= 800 THEN "volatile"
    ELSE IF pressure.tension >= 600 THEN "rising"
    ELSE IF pressure.opportunity >= 550 /\ pressure.diplomatic_window >= 450 THEN "diplomatic-window"
    ELSE "stable-watch"

----------------------------------------------------------------------------
(* The briefing *)

\* _risk_options keeps four: the backchannel, added last, is cut off whenever
\* it is added, for then the crisis cell comes first.
Options == {"crisis cell", "collection", "channel", "readiness", "backchannel"}
RiskOptions(level, pressure) ==
    LET grave == level \in {"HIGH", "CRITICAL"}
        options == (IF grave \/ pressure.urgency > 700 THEN <<"crisis cell">> ELSE <<>>)
                     \o <<"collection", "channel", "readiness">>
                     \o (IF pressure.diplomatic_window < 200 /\ grave THEN <<"backchannel">> ELSE <<>>)
    IN  ToSet(SubSeq(options, 1, Least(4, Len(options))))

Postures == {"WITHHOLD", "WARN", "RECOMMEND", "INFORM"}
Posture(status, level, urgent) ==
    IF status \in {"REFUSED", "HUMAN_REVIEW"} THEN "WITHHOLD"
    ELSE IF level \in {"HIGH", "CRITICAL"} \/ urgent THEN "WARN"
    ELSE IF level = "ELEVATED" THEN "RECOMMEND"
    ELSE "INFORM"

\* What the briefing says it does not know; a learning unit goes with the second.
Caveats(blindspots, pressure, refused) ==
    blindspots \cup {c \in {"corroborate", "limited"} :
                       \/ c = "corroborate" /\ pressure.uncertainty >= 450
                       \/ c = "limited" /\ refused}
AllCaveats == {"none", "few", "diplomatic", "economic", "corroborate", "limited"}
=============================================================================
