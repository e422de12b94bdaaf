--------------------------- MODULE MCScenarioJob ---------------------------
(* Model checking of ScenarioJob on small jobs. *)
EXTENDS ScenarioJob

CONSTANTS t1, t2

TwoTrials == {t1, t2}

\* The trials of an environment command ...
OwnNames == [t \in Trials |-> t]

\* ... and the resets of two benchmark trials.
OneName == [t \in Trials |-> "scenario-reset"]
=============================================================================
