--------------------------- MODULE StackDeletion ---------------------------
(***************************************************************************)
(* StackDeleter.delete_all_stacks: tearing down the CloudFormation stacks  *)
(* of one region.                                                          *)
(*                                                                         *)
(* The environment's stacks are deleted by concurrent tasks, at most Limit *)
(* at a time; those that CloudFormation refused because another stack      *)
(* imports from them are tried once more; the infrastructure stacks, with  *)
(* the role that deleting the others needs, go last.  A stack that cannot  *)
(* be deleted goes through a ladder: reap the network interfaces in its    *)
(* VPC, reap leaked IPAM pools, delete with force.                         *)
(*                                                                         *)
(* CloudFormation and AWS are the environment: a stack being deleted       *)
(* disappears when nothing holds it and fails otherwise.  What a forced    *)
(* deletion abandons is swept best-effort and changes no stack.            *)
(***************************************************************************)
EXTENDS FiniteSets, Naturals

CONSTANTS
  Env,       \* the environment's stacks
  Infra,     \* the infrastructure stacks (INFRA_PREFIXES)
  Imports,   \* pairs <<importer, exporter>> of environment stacks
  Vpcs,      \* the stacks that own a VPC
  Pools,     \* the stacks that own an IPAM pool
  MayHold,   \* what may hold the resources of a stack
  Limit,     \* STACK_DELETE_CONCURRENCY
  Faults     \* what may go wrong: "exists", "call", "slow", "force", "raise"

Stacks == Env \cup Infra

(* "eni": an interface the reaper can clear; "pinned": one only its owning *)
(* service can release; "pool": a leaked child pool; "stuck": a resource   *)
(* of another kind that CloudFormation cannot delete.                      *)
Holds == {"eni", "pinned", "pool", "stuck"}

ASSUME DeletionAssumption ==
  /\ Env \cap Infra = {}
  /\ Imports \subseteq Env \X Env
  /\ Vpcs \subseteq Stacks
  /\ Pools \subseteq Stacks
  /\ MayHold \in [Stacks -> SUBSET Holds]
  /\ \A s \in Stacks : /\ MayHold[s] \cap {"eni", "pinned"} # {} => s \in Vpcs
                       /\ "pool" \in MayHold[s] => s \in Pools
  /\ Limit \in Nat \ {0}
  /\ Faults \subseteq {"exists", "call", "slow", "force", "raise"}

VARIABLES
  cfn,       \* the stack in CloudFormation
  held,      \* what holds its resources
  pc,        \* where its task is
  result,    \* its StackDeletionResult
  batch,     \* the stacks the current round deletes
  phase,     \* where delete_all_stacks is
  shutdown   \* the process is being stopped

vars == <<cfn, held, pc, result, batch, phase, shutdown>>

Running == {"delete", "poll", "network", "networkpoll", "ipam", "ipampoll",
            "force", "forcepoll"}
Absent == {"success", "not_found"}            \* results that say the stack is gone
Failed == {"failed", "blocked", "deferred"}   \* StackDeletionStatus.FAILED

Init ==
  /\ cfn = [s \in Stacks |-> "live"]
  /\ held \in {h \in [Stacks -> SUBSET Holds] : \A s \in Stacks : h[s] \subseteq MayHold[s]}
  /\ pc = [s \in Stacks |-> "idle"]
  /\ result = [s \in Stacks |-> "none"]
  /\ batch = Env
  /\ phase = "env"
  /\ shutdown = FALSE

Importers(s) == {i \in Stacks : <<i, s>> \in Imports /\ cfn[i] # "none"}

(* DeleteStack.  A stack whose exports are in use stays as it is, and the  *)
(* call succeeds all the same.                                             *)
AfterDeleteStack(s) ==
  IF cfn[s] \in {"live", "failed"} /\ Importers(s) = {} THEN "deleting" ELSE cfn[s]

Deleted(s, state) == cfn' = [cfn EXCEPT ![s] = state]
To(s, where) == pc' = [pc EXCEPT ![s] = where]
Results(s, value) == result' = [result EXCEPT ![s] = value]

-----------------------------------------------------------------------------
(* One stack: delete_stack *)

Start(s) ==
  /\ s \in batch
  /\ pc[s] = "idle"
  /\ Cardinality({t \in Stacks : pc[t] \in Running}) < Limit
  /\ \/ cfn[s] = "none" /\ Results(s, "not_found") /\ To(s, "done")
     \/ cfn[s] # "none" /\ To(s, "delete") /\ UNCHANGED result
     \/ "raise" \in Faults /\ Results(s, "failed") /\ To(s, "done")
  /\ UNCHANGED <<cfn, held, batch, phase, shutdown>>

TryDelete(s) ==
  /\ pc[s] = "delete"
  /\ \/ Deleted(s, AfterDeleteStack(s)) /\ To(s, "poll") /\ UNCHANGED result
     \/ "call" \in Faults /\ Results(s, "failed") /\ To(s, "network") /\ UNCHANGED cfn
  /\ UNCHANGED <<held, batch, phase, shutdown>>

(* _poll_deletion, at the moment it returns.  A deletion still in progress *)
(* at the absolute deadline counts as failed.                              *)
Polls(s, outcome) ==
  \/ outcome = "gone" /\ cfn[s] = "none"
  \/ outcome = "refused" /\ cfn[s] = "live"
  \/ outcome = "failed" /\ cfn[s] = "failed"
  \/ outcome = "failed" /\ cfn[s] \in {"deleting", "forcing"} /\ "slow" \in Faults
  \/ outcome = "failed" /\ "call" \in Faults

PolledTrusting(s) ==  \* mutant of Polled: a refused deletion counts as made
  /\ pc[s] = "poll"
  /\ \/ Polls(s, "gone") /\ Results(s, "success") /\ To(s, "done")
     \/ Polls(s, "refused") /\ Results(s, "success") /\ To(s, "done")
     \/ Polls(s, "failed") /\ Results(s, "failed") /\ To(s, "network")
  /\ UNCHANGED <<cfn, held, batch, phase, shutdown>>

Polled(s) ==
  /\ pc[s] = "poll"
  /\ \/ Polls(s, "gone") /\ Results(s, "success") /\ To(s, "done")
     \/ Polls(s, "refused") /\ Results(s, "blocked") /\ To(s, "network")
     \/ Polls(s, "failed") /\ Results(s, "failed") /\ To(s, "network")
  /\ UNCHANGED <<cfn, held, batch, phase, shutdown>>

(* _redrive_delete_stack: anything but a completed deletion leaves the     *)
(* result as it was.                                                       *)
Redrive(s, poll, next) ==
  \/ Deleted(s, AfterDeleteStack(s)) /\ To(s, poll)
  \/ "call" \in Faults /\ To(s, next) /\ UNCHANGED cfn

Redriven(s, poll, next) ==
  /\ pc[s] = poll
  /\ \/ Polls(s, "gone") /\ Results(s, "success") /\ To(s, "done")
     \/ /\ Polls(s, "refused") \/ Polls(s, "failed")
        /\ To(s, next)
        /\ UNCHANGED result
  /\ UNCHANGED <<cfn, held, batch, phase, shutdown>>

(* _describe_recent_delete_failures: a deletion that never began failed on *)
(* no resource, one that goes on may not have come to the resource yet.    *)
Blockers(s) ==
  IF cfn[s] = "failed" THEN {held[s] \cap {"stuck", "pool"}}
  ELSE IF cfn[s] = "deleting" THEN SUBSET (held[s] \cap {"stuck", "pool"})
  ELSE {{}}

ReapNetworking(s) ==
  /\ pc[s] = "network"
  /\ \/ /\ s \notin Vpcs
        /\ To(s, "ipam")
        /\ UNCHANGED <<cfn, held, result>>
     \/ /\ s \in Vpcs                          \* nothing to clear, something remains
        /\ held[s] \cap {"eni", "pinned"} = {"pinned"}
        /\ \E blockers \in Blockers(s) :
             \/ blockers = {} /\ Results(s, "deferred") /\ To(s, "done")
             \/ blockers # {} /\ To(s, "ipam") /\ UNCHANGED result
        /\ UNCHANGED <<cfn, held>>
     \/ /\ s \in Vpcs
        /\ held[s] \cap {"eni", "pinned"} # {"pinned"}
        /\ held' = [held EXCEPT ![s] = held[s] \ {"eni"}]
        /\ Redrive(s, "networkpoll", "ipam")
        /\ UNCHANGED result
  /\ UNCHANGED <<batch, phase, shutdown>>

NetworkRedriven(s) == Redriven(s, "networkpoll", "ipam")

ReapIpam(s) ==
  /\ pc[s] = "ipam"
  /\ \/ /\ "pool" \notin held[s]
        /\ To(s, "force")
        /\ UNCHANGED <<cfn, held>>
     \/ /\ "pool" \in held[s]
        /\ held' = [held EXCEPT ![s] = held[s] \ {"pool"}]
        /\ Redrive(s, "ipampoll", "force")
  /\ UNCHANGED <<result, batch, phase, shutdown>>

IpamRedriven(s) == Redriven(s, "ipampoll", "force")

ForceDelete(s) ==
  /\ pc[s] = "force"
  /\ \/ cfn[s] = "failed" /\ Deleted(s, "forcing") /\ To(s, "forcepoll")
     \/ cfn[s] # "failed" /\ To(s, "done") /\ UNCHANGED cfn
     \/ "call" \in Faults /\ To(s, "done") /\ UNCHANGED cfn
  /\ UNCHANGED <<held, result, batch, phase, shutdown>>

ForcePolled(s) == Redriven(s, "forcepoll", "done")

(* A call that nothing on the way catches ends the task with an exception, *)
(* which _delete_stacks_concurrently turns into a failure.                 *)
Raise(s) ==
  /\ pc[s] \in Running
  /\ "raise" \in Faults
  /\ Results(s, "failed")
  /\ To(s, "done")
  /\ UNCHANGED <<cfn, held, batch, phase, shutdown>>

Cancelled(s) ==
  /\ shutdown
  /\ pc[s] \in Running \/ (pc[s] = "idle" /\ s \in batch)
  /\ To(s, "cancelled")
  /\ UNCHANGED <<cfn, held, result, batch, phase, shutdown>>

-----------------------------------------------------------------------------
(* The region: delete_all_stacks *)

RoundEnded == \A s \in batch : pc[s] \in {"done", "cancelled"}
RoundCancelledNever == FALSE  \* mutant of RoundCancelled: a cancellation is a result like others

RoundCancelled == \E s \in batch : pc[s] = "cancelled"

(* reraise_if_cancelled *)
RoundUnwinds ==
  /\ phase \in {"env", "retry", "infra"}
  /\ RoundEnded
  /\ RoundCancelled
  /\ phase' = "cancelled"
  /\ UNCHANGED <<cfn, held, pc, result, batch, shutdown>>

RefusedNever == {}  \* mutant of Refused: no stack is tried again

RefusedOrDeferred ==  \* mutant of Refused: deferred stacks are tried again as well
  {s \in Env : result[s] \in {"blocked", "deferred"}}

Refused == {s \in Env : result[s] = "blocked"}

EnvDone ==
  /\ phase = "env"
  /\ RoundEnded
  /\ ~RoundCancelled
  /\ phase' = IF Refused = {} THEN "infracheck" ELSE "wait"
  /\ UNCHANGED <<cfn, held, pc, result, batch, shutdown>>

(* Up to five minutes are given to the stacks that failed to disappear, so *)
(* the wait may end with some of them still there.                         *)
WaitUntilGone ==  \* mutant of WaitEnds: no limit on the wait
  /\ phase = "wait"
  /\ \A s \in Env \ Refused : result[s] \in Failed => cfn[s] = "none"
  /\ phase' = "retry"
  /\ batch' = Refused
  /\ pc' = [s \in Stacks |-> IF s \in Refused THEN "idle" ELSE pc[s]]
  /\ UNCHANGED <<cfn, held, result, shutdown>>

WaitEnds ==
  /\ phase = "wait"
  /\ phase' = "retry"
  /\ batch' = Refused
  /\ pc' = [s \in Stacks |-> IF s \in Refused THEN "idle" ELSE pc[s]]
  /\ UNCHANGED <<cfn, held, result, shutdown>>

RetryDone ==
  /\ phase = "retry"
  /\ RoundEnded
  /\ ~RoundCancelled
  /\ phase' = "infracheck"
  /\ UNCHANGED <<cfn, held, pc, result, batch, shutdown>>

(* _maybe_delete_infra.  A check that raises counts as a stack that is     *)
(* gone.                                                                   *)
Unread == IF "exists" \in Faults THEN SUBSET Env ELSE {{}}

SurvivorsButDeferred(unread) ==  \* mutant of Survivors: a deferred stack holds nothing up
  {s \in Env \ unread : result[s] \in {"failed", "blocked"} /\ cfn[s] # "none"}

Survivors(unread) == {s \in Env \ unread : result[s] \in Failed /\ cfn[s] # "none"}

InfraCheck ==
  /\ phase = "infracheck"
  /\ \E unread \in Unread :
       \/ /\ Survivors(unread) # {}
          /\ phase' = "done"
          /\ UNCHANGED batch
       \/ /\ Survivors(unread) = {}
          /\ phase' = "infra"
          /\ batch' = Infra
  /\ UNCHANGED <<cfn, held, pc, result, shutdown>>

InfraDone ==
  /\ phase = "infra"
  /\ RoundEnded
  /\ ~RoundCancelled
  /\ phase' = "done"
  /\ UNCHANGED <<cfn, held, pc, result, batch, shutdown>>

(* A cancellation that arrives between two rounds.                         *)
WaitCancelled ==
  /\ shutdown
  /\ phase \in {"wait", "infracheck"}
  /\ phase' = "cancelled"
  /\ UNCHANGED <<cfn, held, pc, result, batch, shutdown>>

-----------------------------------------------------------------------------
(* CloudFormation, AWS and the user *)

Progress(s) ==
  /\ \/ cfn[s] = "deleting" /\ held[s] = {} /\ Deleted(s, "none")
     \/ cfn[s] = "deleting" /\ held[s] # {} /\ Deleted(s, "failed")
     \/ cfn[s] = "forcing" /\ Deleted(s, "none")
     \/ cfn[s] = "forcing" /\ "force" \in Faults /\ Deleted(s, "failed")
  /\ UNCHANGED <<held, pc, result, batch, phase, shutdown>>

Release(s) ==
  /\ "pinned" \in held[s]
  /\ held' = [held EXCEPT ![s] = held[s] \ {"pinned"}]
  /\ UNCHANGED <<cfn, pc, result, batch, phase, shutdown>>

Interrupt ==
  /\ ~shutdown
  /\ phase \notin {"done", "cancelled"}
  /\ shutdown' = TRUE
  /\ UNCHANGED <<cfn, held, pc, result, batch, phase>>

Task(s) ==
  \/ Start(s) \/ TryDelete(s) \/ Polled(s)
  \/ ReapNetworking(s) \/ NetworkRedriven(s)
  \/ ReapIpam(s) \/ IpamRedriven(s)
  \/ ForceDelete(s) \/ ForcePolled(s)

Region ==
  \/ RoundUnwinds \/ EnvDone \/ WaitEnds \/ RetryDone
  \/ InfraCheck \/ InfraDone

Next ==
  \/ \E s \in Stacks : \/ Task(s) \/ Raise(s) \/ Cancelled(s)
                       \/ Progress(s) \/ Release(s)
  \/ Region \/ WaitCancelled \/ Interrupt

(* The tasks run on: a poll ends at its deadline at the latest.  That      *)
(* CloudFormation moves is not assumed.                                    *)
Spec ==
  /\ Init /\ [][Next]_vars
  /\ \A s \in Stacks : WF_vars(Task(s))
  /\ WF_vars(Region)

-----------------------------------------------------------------------------
(* Properties *)

TypeOK ==
  /\ cfn \in [Stacks -> {"live", "deleting", "forcing", "failed", "none"}]
  /\ held \in [Stacks -> SUBSET Holds]
  /\ pc \in [Stacks -> Running \cup {"idle", "done", "cancelled"}]
  /\ result \in [Stacks -> Absent \cup Failed \cup {"none"}]
  /\ batch \subseteq Stacks
  /\ phase \in {"env", "wait", "retry", "infracheck", "infra", "done", "cancelled"}
  /\ shutdown \in BOOLEAN

(* A stack that the summary counts as deleted, or as not there, is gone    *)
(* (_build_result and the three places that flip a result to SUCCESS).     *)
ReportedGoneIsGone == \A s \in Stacks : result[s] \in Absent => cfn[s] = "none"

(* The deletion of an infrastructure stack begins when every environment   *)
(* stack is gone, those given up on or deferred included: they need its    *)
(* role to be deleted (_maybe_delete_infra).  It holds as long as the      *)
(* existence checks answer.                                                *)
BootstrapOutlivesEnv ==
  [][\A i \in Infra : cfn[i] = "live" /\ cfn'[i] # "live"
                        => \A e \in Env : cfn[e] = "none"]_vars

(* A stack ends up refused for its exports only if one of its importers    *)
(* was not deleted either: those whose importers went in the first round   *)
(* succeed or fail on their own account (the retry in delete_all_stacks).  *)
RefusedBehindImporter ==
  phase \in {"infracheck", "infra", "done"} =>
    \A s \in Env : result[s] = "blocked" =>
      \E i \in Env : <<i, s>> \in Imports /\ result[i] \notin Absent

(* A deferred stack is left to a later run: nothing in this one deletes,    *)
(* forces or judges it again (_still_stuck and the choice of the stacks to *)
(* retry).                                                                 *)
DeferredIsLeftAlone ==
  [][\A s \in Stacks : result[s] = "deferred" =>
       /\ result'[s] = "deferred"
       /\ cfn'[s] \in {"deleting", "forcing"} => cfn'[s] = cfn[s]]_vars

(* A cancelled task unwinds the deletion: no later round begins            *)
(* (reraise_if_cancelled in _delete_stacks_concurrently).                  *)
ShutdownEndsRounds ==
  \A s \in Stacks : pc[s] = "cancelled" =>
    phase = "cancelled" \/ (s \in batch /\ phase \in {"env", "retry", "infra"})

(* A deletion is a teardown, whatever fails and however long it takes:     *)
(* this is what the cleanup of the region relies on (the DeletionSummary   *)
(* that delete_all_stacks returns).                                        *)
Teardown ==
  INSTANCE StackTeardown
  WITH ChecksAnswer <- "exists" \notin Faults,
       there <- {s \in Stacks : cfn[s] # "none"},
       report <- result,
       over <- IF phase \in {"done", "cancelled"} THEN phase ELSE "running"
TeardownSpec == Teardown!Spec

(* The deletion ends, also when CloudFormation never finishes one.         *)
DeletionEnds == <>(phase \in {"done", "cancelled"})
=============================================================================
