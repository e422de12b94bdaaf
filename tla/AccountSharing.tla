--------------------------- MODULE AccountSharing ---------------------------
(***************************************************************************)
(* What the benchmark run promises about an AWS account.  Every scenario   *)
(* owns one account; the trials of a scenario use it together as long as   *)
(* all of them only read it, and a trial that mutates it (or does not      *)
(* declare that it only reads) has it alone from its first use until its   *)
(* reset is over.  How the promise is kept is not said here: TrialAdmission*)
(* keeps it with a gate per scenario and refines this module.              *)
(***************************************************************************)
CONSTANTS
  Trials,       \* the trials of one benchmark job
  Scenarios,    \* the scenarios, that is the accounts, they run on
  ScenarioOf,   \* the scenario of a trial
  Mode          \* "read_only" or "mutating", as the task declares it

VARIABLE users  \* the trials that have the account of a scenario

Init == users = [s \in Scenarios |-> {}]

(* A reading trial joins while no mutating trial has the account.          *)
JoinReader(t) ==
  /\ Mode[t] = "read_only"
  /\ \A u \in users[ScenarioOf[t]] : Mode[u] = "read_only"
  /\ t \notin users[ScenarioOf[t]]
  /\ users' = [users EXCEPT ![ScenarioOf[t]] = @ \cup {t}]

(* A mutating trial takes an account nobody has.                           *)
TakeAlone(t) ==
  /\ Mode[t] = "mutating"
  /\ users[ScenarioOf[t]] = {}
  /\ users' = [users EXCEPT ![ScenarioOf[t]] = {t}]

Leave(t) ==
  /\ t \in users[ScenarioOf[t]]
  /\ users' = [users EXCEPT ![ScenarioOf[t]] = @ \ {t}]

Next == \E t \in Trials : JoinReader(t) \/ TakeAlone(t) \/ Leave(t)

Spec == Init /\ [][Next]_users

=============================================================================
