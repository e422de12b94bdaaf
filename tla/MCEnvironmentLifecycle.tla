----------------------- MODULE MCEnvironmentLifecycle -----------------------
(* Instances of EnvironmentLifecycle: a scenario of two accounts.          *)
EXTENDS EnvironmentLifecycle

CONSTANTS a1, a2

MCAccounts == {a1, a2}
=============================================================================
