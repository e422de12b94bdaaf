--------------------------- MODULE StackTeardown ---------------------------
(***************************************************************************)
(* What the cleanup of a region is told about its CloudFormation stacks,   *)
(* however they are deleted.  Stacks only disappear, the infrastructure    *)
(* after the environment that needs its role.  A stack is reported as      *)
(* deleted, or as not there, only once it is gone; that report and a       *)
(* deferral are final, while a failure may be revised, and a stack that    *)
(* was reported as failed or deferred may still disappear.  A teardown     *)
(* that is not cancelled reports on every stack of the environment, and on *)
(* every one of the infrastructure or, if one of the environment is left,  *)
(* on none: then the infrastructure is there, and stays.                   *)
(***************************************************************************)
CONSTANTS
  Env,          \* the environment's stacks
  Infra,        \* the infrastructure's
  ChecksAnswer  \* whether a stack exists can always be found out

VARIABLES
  there,   \* the stacks that exist
  report,  \* what was last reported of each
  over     \* "running", "done" or "cancelled"

vars == <<there, report, over>>

Gone == {"success", "not_found"}
Failed == {"failed", "blocked", "deferred"}
Final == Gone \cup {"deferred"}

Init ==
  /\ there = Env \cup Infra
  /\ report = [s \in Env \cup Infra |-> "none"]
  /\ over = "running"

EnvGone == Env \cap there = {}

(* A deletion that outlives its poll may come to its end at any time.      *)
Disappear(s) ==
  /\ s \in there
  /\ s \in Infra /\ ChecksAnswer => EnvGone
  /\ over = "done" => report[s] # "none"
  /\ there' = there \ {s}
  /\ UNCHANGED <<report, over>>

Judge(s, verdict) ==
  /\ over = "running"
  /\ report[s] \notin Final
  /\ verdict \in Gone => s \notin there
  /\ s \in Infra => /\ \A e \in Env : report[e] # "none"
                    /\ ChecksAnswer => EnvGone
  /\ report' = [report EXCEPT ![s] = verdict]
  /\ UNCHANGED <<there, over>>

Finish ==
  /\ over = "running"
  /\ \A e \in Env : report[e] # "none"
  /\ \/ \A i \in Infra : report[i] # "none"
     \/ /\ \A i \in Infra : report[i] = "none" /\ i \in there
        /\ \E e \in Env \cap there : report[e] \in Failed
  /\ over' = "done"
  /\ UNCHANGED <<there, report>>

Cancel == over = "running" /\ over' = "cancelled" /\ UNCHANGED <<there, report>>

Next ==
  \/ \E s \in Env \cup Infra : Disappear(s) \/ \E verdict \in Gone \cup Failed : Judge(s, verdict)
  \/ Finish \/ Cancel

Spec == Init /\ [][Next]_vars
=============================================================================
