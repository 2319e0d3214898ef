---------------------------- MODULE MCIntelligence ----------------------------
(* Model values for the run of Intelligence.                                *)
EXTENDS Intelligence, TLC

CONSTANTS c1, c2, g1

MCFeedback == {c1, c2}
MCReport == {g1}
MCMetrics ==
    {[hit_rate |-> "missing", storage |-> "fine", latency |-> "fine"],
     [hit_rate |-> "bad", storage |-> "fine", latency |-> "fine"],
     [hit_rate |-> "fine", storage |-> "bad", latency |-> "bad"]}
FeedbackSymmetry == Permutations(MCFeedback)
=============================================================================
