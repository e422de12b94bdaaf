------------------------- MODULE AccountRestoration -------------------------
(***************************************************************************)
(* What the commands count on when they reset an account, whatever the     *)
(* reset does in its regions.  It works towards the baseline and away from *)
(* it only by deleting: stacks that are not there stay away, a deployment  *)
(* at its baseline is left alone, and nothing new appears.  Its result     *)
(* says whether the account is at its baseline, has to be deployed again,  *)
(* or is in a state nobody vouches for.                                    *)
(***************************************************************************)
CONSTANT ScansAnswer  \* every type of resource can be scanned

VARIABLES
  stacks,   \* the baseline's stacks: "full" at their baseline, "none" there, or "part"
  extra,    \* there is something the baseline has not
  outcome   \* the result of the reset

vars == <<stacks, extra, outcome>>

Init ==
  /\ stacks \in {"none", "part", "full"}
  /\ extra \in BOOLEAN
  /\ outcome = "none"

(* A stack is reverted or deleted, a new resource deleted.                 *)
Restore ==
  /\ outcome = "none"
  /\ stacks' \in {"none", "part", "full"}
  /\ stacks # "part" => stacks' = stacks
  /\ extra' \in BOOLEAN
  /\ extra' => extra
  /\ UNCHANGED outcome

Reports(result) == outcome = "none" /\ outcome' = result /\ UNCHANGED <<stacks, extra>>

Succeed == stacks = "full" /\ (ScansAnswer => ~extra) /\ Reports("success")

(* The deployment is not what it was; the caller completes it.             *)
AskForRedeploy == stacks # "full" /\ Reports("redeploy")

GiveUp == Reports("failed") \/ Reports("cancelled")

Next == Restore \/ Succeed \/ AskForRedeploy \/ GiveUp

Spec == Init /\ [][Next]_vars
=============================================================================
