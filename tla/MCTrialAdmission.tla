-------------------------- MODULE MCTrialAdmission --------------------------
(* Instance of TrialAdmission for TLC: two mutating trials and two readers *)
(* on one scenario.                                                        *)
EXTENDS TrialAdmission

CONSTANTS w1, w2, r1, r2, s1

MCTrials == {w1, w2, r1, r2}
MCScenarioOf == [t \in MCTrials |-> s1]
MCMode == [t \in MCTrials |-> IF t \in {r1, r2} THEN "read_only" ELSE "mutating"]
=============================================================================
