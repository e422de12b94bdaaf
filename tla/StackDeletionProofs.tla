------------------------ MODULE StackDeletionProofs ------------------------
(***************************************************************************)
(* Proofs about StackDeletion for any stacks, imports, holds and faults.   *)
(***************************************************************************)
EXTENDS StackDeletion, TLAPS

USE DEF Stacks

(* The steps that leave the phase alone. *)
TaskStep(s) == Task(s) \/ Raise(s) \/ Cancelled(s)
OutsideStep == Interrupt \/ \E s \in Stacks : Progress(s) \/ Release(s)

(* One step of CloudFormation, case by case. *)
LEMMA ProgressCases ==
  ASSUME NEW s \in Stacks, Progress(s)
  PROVE  /\ cfn[s] \in {"deleting", "forcing"}
         /\ cfn' = [cfn EXCEPT ![s] = "none"] \/ cfn' = [cfn EXCEPT ![s] = "failed"]
         /\ UNCHANGED <<held, pc, result, batch, phase, shutdown>>
BY DEF Progress, Deleted

LEMMA StepCases ==
  ASSUME [Next]_vars
  PROVE  \/ \E s \in Stacks : TaskStep(s)
         \/ OutsideStep
         \/ RoundUnwinds \/ EnvDone \/ WaitEnds \/ RetryDone
         \/ InfraCheck \/ InfraDone \/ WaitCancelled
         \/ UNCHANGED vars
BY DEF Next, TaskStep, OutsideStep, Region

-----------------------------------------------------------------------------

LEMMA TypingOfTasks ==
  ASSUME TypeOK, NEW s \in Stacks, TaskStep(s)
  PROVE  TypeOK'
<1> USE DEF TypeOK, To, Results, Deleted, Absent, Failed, Running, Holds
<1>1. CASE Start(s)
  BY <1>1 DEF Start
<1>2. CASE TryDelete(s)
  BY <1>2 DEF TryDelete, AfterDeleteStack
<1>3. CASE Polled(s)
  BY <1>3 DEF Polled
<1>4. CASE ReapNetworking(s)
  BY <1>4 DEF ReapNetworking, Redrive, AfterDeleteStack
<1>5. CASE NetworkRedriven(s)
  BY <1>5 DEF NetworkRedriven, Redriven
<1>6. CASE ReapIpam(s)
  BY <1>6 DEF ReapIpam, Redrive, AfterDeleteStack
<1>7. CASE IpamRedriven(s)
  BY <1>7 DEF IpamRedriven, Redriven
<1>8. CASE ForceDelete(s)
  BY <1>8 DEF ForceDelete
<1>9. CASE ForcePolled(s)
  BY <1>9 DEF ForcePolled, Redriven
<1>10. CASE Raise(s)
  BY <1>10 DEF Raise
<1>11. CASE Cancelled(s)
  BY <1>11 DEF Cancelled
<1> QED BY <1>1, <1>2, <1>3, <1>4, <1>5, <1>6, <1>7, <1>8, <1>9, <1>10, <1>11
        DEF TaskStep, Task

LEMMA TypingInductive ==
  ASSUME TypeOK, [Next]_vars
  PROVE  TypeOK'
<1>1. CASE \E s \in Stacks : TaskStep(s)
  BY <1>1, TypingOfTasks
<1>2. CASE OutsideStep
  <2>1. CASE Interrupt
    BY <2>1 DEF Interrupt, TypeOK
  <2>2. ASSUME NEW s \in Stacks, Progress(s)
        PROVE  TypeOK'
    BY <2>2, ProgressCases DEF TypeOK
  <2>3. ASSUME NEW s \in Stacks, Release(s)
        PROVE  TypeOK'
    BY <2>3 DEF Release, TypeOK
  <2> QED BY <1>2, <2>1, <2>2, <2>3 DEF OutsideStep
<1>3. CASE RoundUnwinds \/ EnvDone \/ RetryDone \/ InfraDone \/ WaitCancelled
  BY <1>3 DEF RoundUnwinds, EnvDone, RetryDone, InfraDone, WaitCancelled, TypeOK
<1>4. CASE WaitEnds
  BY <1>4 DEF WaitEnds, TypeOK, Refused
<1>5. CASE InfraCheck
  BY <1>5 DEF InfraCheck, TypeOK
<1>6. CASE UNCHANGED vars
  BY <1>6 DEF vars, TypeOK
<1> QED BY <1>1, <1>2, <1>3, <1>4, <1>5, <1>6, StepCases

(* Every state of a deletion is well typed, whatever the stacks import and *)
(* whichever calls fail: no status CloudFormation or the poll can return   *)
(* ends up as a result (delete_all_stacks).                                *)
THEOREM DeletionTypesCorrect == Spec => []TypeOK
<1>1. Init => TypeOK
  BY DEF Init, TypeOK, Running, Absent, Failed
<1> QED BY <1>1, TypingInductive, PTL DEF Spec

-----------------------------------------------------------------------------
(* What one step of a stack's task can do; the invariants below need no    *)
(* more than this of the eleven actions.                                   *)

EarlySteps == {"idle", "delete", "poll"}

CfnEffect(s) ==
  \/ cfn' = cfn
  \/ /\ cfn' = [cfn EXCEPT ![s] = "deleting"]
     /\ cfn[s] \in {"live", "failed"}
     /\ pc[s] \in Running
  \/ /\ cfn' = [cfn EXCEPT ![s] = "forcing"]
     /\ cfn[s] = "failed"

ResultEffect(s) ==
  \/ result' = result /\ (pc'[s] \in {"delete", "poll", "cancelled"} \/ pc[s] \notin EarlySteps)
  \/ \E value \in Absent : result' = [result EXCEPT ![s] = value] /\ cfn[s] = "none" /\ cfn' = cfn
  \/ \E value \in {"failed", "deferred"} : result' = [result EXCEPT ![s] = value]
  \/ result' = [result EXCEPT ![s] = "blocked"] /\ pc[s] = "poll" /\ cfn[s] = "live"

TaskEffect(s) ==
  /\ CfnEffect(s)
  /\ ResultEffect(s)
  /\ \E where \in (Running \cup {"done", "cancelled"}) : pc' = [pc EXCEPT ![s] = where]
  /\ pc[s] \in Running \/ (pc[s] = "idle" /\ s \in batch)
  /\ pc'[s] = "cancelled" => result' = result /\ cfn' = cfn
  /\ pc'[s] = "delete" => pc[s] = "idle"
  /\ pc'[s] = "poll" => pc[s] = "delete" /\ cfn'[s] = AfterDeleteStack(s)
  /\ UNCHANGED <<batch, phase>>

LEMMA TaskEffects ==
  ASSUME TypeOK, NEW s \in Stacks, TaskStep(s)
  PROVE  TaskEffect(s)
<1> USE DEF TaskEffect, CfnEffect, ResultEffect, TypeOK, To, Results, Deleted, Absent,
            Running, EarlySteps
<1>1. CASE Start(s)
  BY <1>1 DEF Start
<1>2. CASE TryDelete(s)
  BY <1>2 DEF TryDelete, AfterDeleteStack
<1>3. CASE Polled(s)
  BY <1>3 DEF Polled, Polls
<1>4. CASE ReapNetworking(s)
  BY <1>4 DEF ReapNetworking, Redrive, AfterDeleteStack
<1>5. CASE NetworkRedriven(s)
  BY <1>5 DEF NetworkRedriven, Redriven, Polls
<1>6. CASE ReapIpam(s)
  BY <1>6 DEF ReapIpam, Redrive, AfterDeleteStack
<1>7. CASE IpamRedriven(s)
  BY <1>7 DEF IpamRedriven, Redriven, Polls
<1>8. CASE ForceDelete(s)
  BY <1>8 DEF ForceDelete
<1>9. CASE ForcePolled(s)
  BY <1>9 DEF ForcePolled, Redriven, Polls
<1>10. CASE Raise(s)
  BY <1>10 DEF Raise
<1>11. CASE Cancelled(s)
  BY <1>11 DEF Cancelled
<1> QED BY <1>1, <1>2, <1>3, <1>4, <1>5, <1>6, <1>7, <1>8, <1>9, <1>10, <1>11
        DEF TaskStep, Task

-----------------------------------------------------------------------------
(* The inductive invariant. *)

EnvGone == \A e \in Env : cfn[e] = "none"

(* A task has a result as soon as its first deletion was polled. *)
EarlyOnly == \A s \in Stacks : result[s] = "none" => pc[s] \in EarlySteps \cup {"cancelled"}

(* Every environment stack has a result once the first round is over. *)
RoundsHaveResults ==
  /\ phase = "env" => batch = Env
  /\ phase \in {"wait", "retry", "infracheck", "infra", "done"} =>
       \A e \in Env : result[e] # "none"

(* The infrastructure is touched only after the environment is gone. *)
InfraLast ==
  /\ batch \cap Infra # {} => EnvGone
  /\ \A i \in Infra : pc[i] # "idle" => EnvGone

(* Only the stacks of the round have a task, and none between two rounds. *)
TasksInBatch ==
  /\ \A s \in Stacks : pc[s] \in Running => s \in batch
  /\ phase \in {"wait", "infracheck", "done"} => \A s \in Stacks : pc[s] \notin Running
  /\ phase \in {"wait", "infracheck", "done"} => \A s \in batch : pc[s] = "done"
  /\ phase = "retry" => batch \subseteq Env
  /\ phase = "infra" => batch = Infra

IInv ==
  /\ TypeOK
  /\ ReportedGoneIsGone
  /\ EarlyOnly
  /\ RoundsHaveResults
  /\ TasksInBatch

LEMMA IInvInit == Init => IInv /\ ShutdownEndsRounds /\ InfraLast
BY DeletionAssumption
   DEF Init, IInv, TypeOK, ReportedGoneIsGone, EarlyOnly, EarlySteps, RoundsHaveResults,
       InfraLast, TasksInBatch, ShutdownEndsRounds, Running, Absent, Failed

(* A step of a task. *)
LEMMA IInvTask ==
  ASSUME IInv, NEW s \in Stacks, TaskStep(s)
  PROVE  IInv'
<1> USE DEF TaskEffect, IInv
<1>1. TaskEffect(s)
  BY TaskEffects
<1>2. TypeOK'
  BY TypingOfTasks
<1>3. ReportedGoneIsGone'
  BY <1>1 DEF ReportedGoneIsGone, CfnEffect, ResultEffect, TypeOK, Absent
<1>4. EarlyOnly'
  BY <1>1 DEF EarlyOnly, ResultEffect, TypeOK, Absent, EarlySteps, Running
<1>5. RoundsHaveResults'
  BY <1>1 DEF RoundsHaveResults, ResultEffect, TypeOK, Absent
<1>6. TasksInBatch'
  BY <1>1, DeletionAssumption DEF TasksInBatch, TypeOK, Running
<1> QED BY <1>2, <1>3, <1>4, <1>5, <1>6

(* CloudFormation, AWS and the user change no task and no result. *)
LEMMA IInvOutside ==
  ASSUME IInv, OutsideStep
  PROVE  IInv'
<1> USE DEF IInv
<1>1. TypeOK'
  BY TypingInductive DEF OutsideStep, Next
<1>2. CASE Interrupt
  BY <1>1, <1>2 DEF Interrupt, ReportedGoneIsGone, EarlyOnly, RoundsHaveResults, TasksInBatch
<1>3. ASSUME NEW s \in Stacks, Progress(s)
      PROVE  IInv'
  BY <1>1, <1>3, ProgressCases
     DEF ReportedGoneIsGone, EarlyOnly, RoundsHaveResults, TasksInBatch, TypeOK
<1>4. ASSUME NEW s \in Stacks, Release(s)
      PROVE  IInv'
  BY <1>1, <1>4 DEF Release, ReportedGoneIsGone, EarlyOnly, RoundsHaveResults, TasksInBatch
<1> QED BY <1>2, <1>3, <1>4 DEF OutsideStep

LEMMA IInvRegion ==
  ASSUME IInv, RoundUnwinds \/ EnvDone \/ WaitEnds \/ RetryDone \/ InfraCheck \/ InfraDone
                 \/ WaitCancelled
  PROVE  IInv'
<1> USE DEF IInv
<1>1. TypeOK'
  BY TypingInductive DEF Next, Region
<1>2. CASE RoundUnwinds \/ WaitCancelled
  BY <1>1, <1>2 DEF RoundUnwinds, WaitCancelled, ReportedGoneIsGone, EarlyOnly,
                    RoundsHaveResults, TasksInBatch
<1>3. ASSUME RoundEnded, ~RoundCancelled
      PROVE  /\ \A s \in batch : pc[s] = "done"
             /\ \A s \in Stacks : pc[s] \notin Running
             /\ phase = "env" => \A e \in Env : result[e] # "none"
  <2>1. \A s \in batch : pc[s] = "done"
    BY <1>3 DEF RoundEnded, RoundCancelled
  <2>2. \A s \in Stacks : pc[s] \notin Running
    BY <2>1 DEF TasksInBatch, Running
  <2>3. phase = "env" => \A e \in Env : result[e] # "none"
    BY <2>1 DEF RoundsHaveResults, EarlyOnly, EarlySteps
  <2> QED BY <2>1, <2>2, <2>3
<1>4. CASE EnvDone
  BY <1>1, <1>3, <1>4 DEF EnvDone, ReportedGoneIsGone, EarlyOnly, RoundsHaveResults, TasksInBatch
<1>5. CASE RetryDone
  BY <1>1, <1>3, <1>5 DEF RetryDone, ReportedGoneIsGone, EarlyOnly, RoundsHaveResults, TasksInBatch
<1>6. CASE InfraDone
  BY <1>1, <1>3, <1>6 DEF InfraDone, ReportedGoneIsGone, EarlyOnly, RoundsHaveResults, TasksInBatch
<1>7. CASE WaitEnds
  BY <1>1, <1>7 DEF WaitEnds, Refused, ReportedGoneIsGone, EarlyOnly, EarlySteps,
                    RoundsHaveResults, TasksInBatch, Running
<1>8. CASE InfraCheck
  BY <1>1, <1>8 DEF InfraCheck, ReportedGoneIsGone, EarlyOnly, RoundsHaveResults, TasksInBatch
<1> QED BY <1>2, <1>4, <1>5, <1>6, <1>7, <1>8

LEMMA IInvInductive == IInv /\ [Next]_vars => IInv'
<1> SUFFICES ASSUME IInv, [Next]_vars
             PROVE  IInv'
  OBVIOUS
<1>1. CASE UNCHANGED vars
  BY <1>1 DEF vars, IInv, TypeOK, ReportedGoneIsGone, EarlyOnly, RoundsHaveResults, TasksInBatch
<1> QED BY <1>1, IInvTask, IInvOutside, IInvRegion, StepCases

LEMMA IInvHolds == Spec => []IInv
<1> QED BY IInvInit, IInvInductive, PTL DEF Spec

(* A stack that a result calls deleted or absent is gone from              *)
(* CloudFormation, whichever calls fail and whenever a poll gives up       *)
(* (delete_stack and the steps of its recovery).                           *)
THEOREM ReportedGoneIsGoneAlways == Spec => []ReportedGoneIsGone
<1>1. IInv => ReportedGoneIsGone
  BY DEF IInv
<1> QED BY <1>1, IInvHolds, PTL

-----------------------------------------------------------------------------
(* Shutdown *)

LEMMA ShutdownStep == IInv /\ ShutdownEndsRounds /\ [Next]_vars => ShutdownEndsRounds'
<1> SUFFICES ASSUME IInv, ShutdownEndsRounds, [Next]_vars
             PROVE  ShutdownEndsRounds'
  OBVIOUS
<1> USE DEF ShutdownEndsRounds
<1>1. ASSUME NEW s \in Stacks, TaskStep(s)
      PROVE  ShutdownEndsRounds'
  <2>1. TaskEffect(s)
    BY <1>1, TaskEffects DEF IInv
  <2>2. pc[s] \in Running \/ s \in batch
    BY <2>1 DEF TaskEffect
  <2>3. s \in batch /\ phase \in {"env", "retry", "infra", "cancelled"}
    BY <2>1, <2>2 DEF TaskEffect, IInv, TasksInBatch, TypeOK
  <2> QED BY <2>1, <2>3 DEF TaskEffect, IInv, TypeOK
<1>2. CASE OutsideStep
  BY <1>2, ProgressCases DEF OutsideStep, Interrupt, Release
<1>3. CASE RoundUnwinds \/ WaitCancelled
  BY <1>3 DEF RoundUnwinds, WaitCancelled
<1>4. CASE EnvDone \/ RetryDone \/ InfraDone
  BY <1>4 DEF EnvDone, RetryDone, InfraDone, RoundCancelled
<1>5. CASE WaitEnds
  BY <1>5 DEF WaitEnds, IInv, TypeOK
<1>6. CASE InfraCheck
  BY <1>6 DEF InfraCheck, IInv, TypeOK
<1>7. CASE UNCHANGED vars
  BY <1>7 DEF vars
<1> QED BY <1>1, <1>2, <1>3, <1>4, <1>5, <1>6, <1>7, StepCases

(* Once a task was cancelled, no later round of deletions begins: neither  *)
(* the retry nor the infrastructure (reraise_if_cancelled).                *)
THEOREM ShutdownUnwindsDeletion == Spec => []ShutdownEndsRounds
<1> QED BY IInvInit, IInvHolds, ShutdownStep, PTL DEF Spec

-----------------------------------------------------------------------------
(* The infrastructure goes last *)

LEMMA GoneStaysGone ==
  ASSUME IInv, [Next]_vars, NEW s \in Stacks, cfn[s] = "none"
  PROVE  cfn'[s] = "none"
<1>1. ASSUME NEW t \in Stacks, TaskStep(t)
      PROVE  cfn'[s] = "none"
  BY <1>1, TaskEffects DEF IInv, TypeOK, TaskEffect, CfnEffect
<1>2. CASE OutsideStep
  BY <1>2, ProgressCases DEF OutsideStep, Interrupt, Release, IInv, TypeOK
<1> QED BY <1>1, <1>2, StepCases
        DEF RoundUnwinds, EnvDone, WaitEnds, RetryDone, InfraCheck, InfraDone, WaitCancelled, vars

LEMMA InfraLastStep ==
  ASSUME "exists" \notin Faults
  PROVE  IInv /\ InfraLast /\ [Next]_vars => InfraLast'
<1> SUFFICES ASSUME IInv, InfraLast, [Next]_vars
             PROVE  InfraLast'
  OBVIOUS
<1>1. EnvGone => EnvGone'
  BY GoneStaysGone DEF EnvGone
<1>2. ASSUME NEW s \in Stacks, TaskStep(s)
      PROVE  InfraLast'
  <2>1. TaskEffect(s)
    BY <1>2, TaskEffects DEF IInv
  <2>2. s \in batch
    BY <2>1 DEF TaskEffect, IInv, TasksInBatch
  <2> QED BY <1>1, <2>1, <2>2 DEF TaskEffect, InfraLast, IInv, TypeOK
<1>3. CASE OutsideStep
  BY <1>1, <1>3, ProgressCases DEF OutsideStep, Interrupt, Release, InfraLast
<1>4. CASE RoundUnwinds \/ EnvDone \/ RetryDone \/ InfraDone \/ WaitCancelled
  BY <1>1, <1>4 DEF RoundUnwinds, EnvDone, RetryDone, InfraDone, WaitCancelled, InfraLast
<1>5. CASE WaitEnds
  BY <1>1, <1>5, DeletionAssumption DEF WaitEnds, Refused, InfraLast, IInv, TypeOK
<1>6. CASE InfraCheck
  <2>1. CASE phase' = "done"
    BY <1>1, <1>6, <2>1 DEF InfraCheck, InfraLast
  <2>2. CASE phase' # "done"
    <3>1. Survivors({}) = {} /\ UNCHANGED <<cfn, pc>> /\ phase = "infracheck"
      BY <1>6, <2>2 DEF InfraCheck, Unread
    <3>2. \A e \in Env : result[e] \in Absent \cup Failed
      BY <3>1 DEF IInv, TypeOK, RoundsHaveResults
    <3>3. EnvGone
      BY <3>1, <3>2 DEF EnvGone, Survivors, IInv, ReportedGoneIsGone
    <3> QED BY <1>1, <3>3 DEF InfraLast
  <2> QED BY <2>1, <2>2
<1>7. CASE UNCHANGED vars
  BY <1>7 DEF vars, InfraLast, EnvGone
<1> QED BY <1>2, <1>3, <1>4, <1>5, <1>6, <1>7, StepCases

LEMMA InfraStartsLast ==
  ASSUME IInv, InfraLast, [Next]_vars,
         NEW i \in Infra, cfn[i] = "live", cfn'[i] # "live"
  PROVE  EnvGone
<1>1. ASSUME NEW s \in Stacks, TaskStep(s)
      PROVE  EnvGone
  <2>1. TaskEffect(s)
    BY <1>1, TaskEffects DEF IInv
  <2>2. s = i /\ pc[i] \in Running
    BY <2>1 DEF TaskEffect, CfnEffect, IInv, TypeOK
  <2> QED BY <2>2 DEF InfraLast, Running
<1>2. CASE OutsideStep
  BY <1>2, ProgressCases DEF OutsideStep, Interrupt, Release, IInv, TypeOK
<1> QED BY <1>1, <1>2, StepCases
        DEF RoundUnwinds, EnvDone, WaitEnds, RetryDone, InfraCheck, InfraDone, WaitCancelled, vars

(* If every existence check answers, the deletion of an infrastructure     *)
(* stack never begins while an environment stack is there, also when       *)
(* deletions fail, are deferred or go on past their deadline               *)
(* (_maybe_delete_infra).                                                  *)
THEOREM BootstrapIsDeletedLast ==
  ASSUME "exists" \notin Faults
  PROVE  Spec => BootstrapOutlivesEnv
<1>1. IInv /\ InfraLast /\ [Next]_vars
        => [\A i \in Infra : cfn[i] = "live" /\ cfn'[i] # "live"
                               => \A e \in Env : cfn[e] = "none"]_vars
  BY InfraStartsLast DEF EnvGone
<1>2. IInv /\ InfraLast /\ [Next]_vars => InfraLast'
  BY InfraLastStep
<1> QED BY <1>1, <1>2, IInvInit, IInvHolds, PTL DEF Spec, BootstrapOutlivesEnv

-----------------------------------------------------------------------------
(* The retry of the exporters *)

(* "Multi-level chains (A->B->C) would need iterative retries": no stack   *)
(* that imports is imported from.                                          *)
NoChains == \A a, b, c \in Env : ~(<<a, b>> \in Imports /\ <<b, c>> \in Imports)

Imported(s) == \E i \in Env : <<i, s>> \in Imports

(* An importer of s that was not deleted, and will not be tried again.     *)
Backed(s) == \E i \in Env : <<i, s>> \in Imports /\ result[i] \notin Absent

(* Only a stack that another one imports from is ever refused. *)
RefusedIsImported ==
  \A s \in Env : ~Imported(s) =>
    result[s] # "blocked" /\ (pc[s] = "poll" => cfn[s] # "live")

RetryIsBacked ==
  /\ phase = "retry" => \A s \in batch : Imported(s)
  /\ phase = "retry" =>
       \A s \in Env : /\ pc[s] = "poll" /\ cfn[s] = "live" => Backed(s)
                      /\ result[s] = "blocked" =>
                           \/ Backed(s)
                           \/ s \in batch /\ pc[s] \in EarlySteps \cup {"cancelled"}

RInv == RefusedIsImported /\ RetryIsBacked /\ RefusedBehindImporter

LEMMA RInvInit == Init => RInv
BY DEF Init, RInv, RefusedIsImported, RetryIsBacked, RefusedBehindImporter

LEMMA RefusedIsImportedStep ==
  ASSUME IInv, RefusedIsImported, [Next]_vars
  PROVE  RefusedIsImported'
<1> USE DEF RefusedIsImported, Imported
<1>1. ASSUME NEW s \in Stacks, TaskStep(s)
      PROVE  RefusedIsImported'
  <2>1. TaskEffect(s)
    BY <1>1, TaskEffects DEF IInv
  <2>2. ASSUME NEW t \in Env, ~Imported(t)
        PROVE  result'[t] # "blocked"
    BY <2>1, <2>2 DEF TaskEffect, ResultEffect, IInv, TypeOK, Absent
  <2>3. ASSUME NEW t \in Env, ~Imported(t), pc'[t] = "poll"
        PROVE  cfn'[t] # "live"
    <3>1. CASE t = s
      <4>1. Importers(s) = {}
        BY <2>3, <3>1, DeletionAssumption DEF Importers
      <4> QED BY <2>1, <2>3, <3>1, <4>1 DEF TaskEffect, AfterDeleteStack
    <3>2. CASE t # s
      BY <2>1, <2>3, <3>2 DEF TaskEffect, CfnEffect, IInv, TypeOK
    <3> QED BY <3>1, <3>2
  <2> QED BY <2>2, <2>3
<1>2. CASE OutsideStep
  BY <1>2, ProgressCases DEF OutsideStep, Interrupt, Release, IInv, TypeOK
<1>3. CASE WaitEnds
  BY <1>3 DEF WaitEnds, IInv, TypeOK
<1> QED BY <1>1, <1>2, <1>3, StepCases
        DEF RoundUnwinds, EnvDone, RetryDone, InfraCheck, InfraDone, WaitCancelled, vars

(* In the retry the importers are out of the round, so they keep their     *)
(* results.                                                                *)
LEMMA BackedStays ==
  ASSUME IInv, RInv, NoChains, NEW t \in Stacks, TaskStep(t),
         phase \in {"retry", "infracheck", "infra", "done"},
         NEW s \in Env, Backed(s)
  PROVE  Backed(s)'
<1>1. PICK i \in Env : <<i, s>> \in Imports /\ result[i] \notin Absent
  BY DEF Backed
<1>2. TaskEffect(t)
  BY TaskEffects DEF IInv
<1>3. t \in batch
  BY <1>2 DEF TaskEffect, IInv, TasksInBatch
<1>4. i # t
  <2>1. ~Imported(i)
    BY <1>1 DEF NoChains, Imported
  <2>2. CASE phase = "retry"
    BY <1>3, <2>1, <2>2 DEF RInv, RetryIsBacked
  <2>3. CASE phase = "infra"
    BY <1>3, <2>3, DeletionAssumption DEF IInv, TasksInBatch
  <2>4. CASE phase \in {"infracheck", "done"}
    BY <1>2, <1>3, <2>4 DEF IInv, TasksInBatch, TaskEffect
  <2> QED BY <2>2, <2>3, <2>4
<1>5. result'[i] = result[i]
  BY <1>2, <1>4 DEF TaskEffect, ResultEffect, IInv, TypeOK
<1> QED BY <1>1, <1>5 DEF Backed

LEMMA RInvTask ==
  ASSUME IInv, RInv, NoChains, NEW s \in Stacks, TaskStep(s)
  PROVE  RInv'
<1>1. TaskEffect(s)
  BY TaskEffects DEF IInv
<1>2. RefusedIsImported'
  BY RefusedIsImportedStep DEF RInv, TaskStep, Next
<1>3. ASSUME phase = "retry", NEW t \in Env, pc'[t] = "poll", cfn'[t] = "live"
      PROVE  Backed(t)'
  <2>1. CASE t = s
    <3>1. Importers(s) # {} /\ cfn'[s] = cfn[s] /\ pc[s] = "delete"
      BY <1>1, <1>3, <2>1 DEF TaskEffect, AfterDeleteStack
    <3>2. PICK i \in Stacks : <<i, s>> \in Imports /\ cfn[i] # "none"
      BY <3>1 DEF Importers
    <3>3. Backed(s)
      BY <3>2, DeletionAssumption DEF Backed, IInv, ReportedGoneIsGone
    <3> QED BY <1>3, <2>1, <3>3, BackedStays
  <2>2. CASE t # s
    <3>1. pc[t] = "poll" /\ cfn[t] = "live"
      BY <1>1, <1>3, <2>2 DEF TaskEffect, CfnEffect, IInv, TypeOK
    <3>2. Backed(t)
      BY <1>3, <3>1 DEF RInv, RetryIsBacked
    <3> QED BY <1>3, <3>2, BackedStays
  <2> QED BY <2>1, <2>2
<1>4. ASSUME phase = "retry", NEW t \in Env, result'[t] = "blocked"
      PROVE  \/ Backed(t)'
             \/ t \in batch /\ pc'[t] \in EarlySteps \cup {"cancelled"}
  <2>1. CASE Backed(t)
    BY <1>3, <1>4, <2>1, BackedStays
  <2>2. CASE ~Backed(t) /\ t # s
    BY <1>1, <1>4, <2>2 DEF TaskEffect, ResultEffect, IInv, TypeOK, RInv, RetryIsBacked
  <2>3. CASE ~Backed(t) /\ t = s
    <3>1. ~(pc[s] = "poll" /\ cfn[s] = "live")
      BY <1>4, <2>3 DEF RInv, RetryIsBacked
    <3>2. result' = result /\ (pc'[s] \in {"delete", "poll", "cancelled"} \/ pc[s] \notin EarlySteps)
      BY <1>1, <1>4, <2>3, <3>1 DEF TaskEffect, ResultEffect, IInv, TypeOK, Absent
    <3>3. t \in batch /\ pc[s] \in EarlySteps \cup {"cancelled"}
      BY <1>4, <2>3, <3>2 DEF RInv, RetryIsBacked
    <3>4. pc[s] \in EarlySteps
      BY <1>1, <3>3 DEF TaskEffect, Running
    <3> QED BY <2>3, <3>2, <3>3, <3>4 DEF EarlySteps
  <2> QED BY <2>1, <2>2, <2>3
<1>5. RetryIsBacked'
  BY <1>1, <1>3, <1>4 DEF RInv, RetryIsBacked, TaskEffect, Imported
<1>6. RefusedBehindImporter'
  <2>1. SUFFICES ASSUME phase \in {"infracheck", "infra", "done"},
                        NEW t \in Env, result'[t] = "blocked"
                 PROVE  Backed(t)'
    BY <1>1 DEF RefusedBehindImporter, Backed, TaskEffect
  <2>2. s \in batch /\ s \notin Env
    BY <1>1, <2>1, DeletionAssumption DEF TaskEffect, IInv, TasksInBatch
  <2>3. result[t] = "blocked"
    BY <1>1, <2>1, <2>2 DEF TaskEffect, ResultEffect, IInv, TypeOK
  <2>4. Backed(t)
    BY <2>1, <2>3 DEF RInv, RefusedBehindImporter, Backed
  <2> QED BY <2>1, <2>4, BackedStays
<1> QED BY <1>2, <1>5, <1>6 DEF RInv

LEMMA RInvInductive ==
  ASSUME NoChains
  PROVE  IInv /\ RInv /\ [Next]_vars => RInv'
<1> SUFFICES ASSUME IInv, RInv, [Next]_vars
             PROVE  RInv'
  OBVIOUS
<1>1. ASSUME NEW s \in Stacks, TaskStep(s)
      PROVE  RInv'
  BY <1>1, RInvTask
<1> USE DEF RInv
<1>2. RefusedIsImported'
  BY RefusedIsImportedStep
<1>3. CASE OutsideStep
  BY <1>2, <1>3, ProgressCases
     DEF OutsideStep, Interrupt, Release, IInv, TypeOK, RetryIsBacked, RefusedBehindImporter,
         Backed, Imported
<1>4. CASE RoundUnwinds \/ WaitCancelled
  BY <1>2, <1>4 DEF RoundUnwinds, WaitCancelled, RetryIsBacked, RefusedBehindImporter
<1>5. CASE EnvDone
  BY <1>2, <1>5 DEF EnvDone, Refused, RetryIsBacked, RefusedBehindImporter
<1>6. CASE WaitEnds
  BY <1>2, <1>6 DEF WaitEnds, Refused, RetryIsBacked, RefusedBehindImporter, IInv, TypeOK,
                    RefusedIsImported, EarlySteps, TasksInBatch, Running
<1>7. CASE RetryDone
  BY <1>2, <1>7 DEF RetryDone, RoundEnded, RoundCancelled, RetryIsBacked, RefusedBehindImporter,
                    Backed, EarlySteps
<1>8. CASE InfraCheck \/ InfraDone
  BY <1>2, <1>8 DEF InfraCheck, InfraDone, RetryIsBacked, RefusedBehindImporter
<1>9. CASE UNCHANGED vars
  BY <1>2, <1>9 DEF vars, RetryIsBacked, RefusedBehindImporter, Backed, Imported
<1> QED BY <1>1, <1>3, <1>4, <1>5, <1>6, <1>7, <1>8, <1>9, StepCases

(* Without chains of imports, one retry is enough: a stack is left refused *)
(* for its exports only behind an importer that was not deleted either     *)
(* (the retry in delete_all_stacks and its NOTE on chains).                *)
THEOREM OneRetryIsEnough ==
  ASSUME NoChains
  PROVE  Spec => []RefusedBehindImporter
<1>1. RInv => RefusedBehindImporter
  BY DEF RInv
<1> QED BY <1>1, RInvInit, IInvInit, IInvHolds, RInvInductive, PTL DEF Spec

-----------------------------------------------------------------------------
(* Results that are never revised *)

FinalResults == Absent \cup {"deferred"}

(* A final result ends the task of its stack, and the retry leaves the     *)
(* stack out.                                                              *)
FinalDone == \A s \in Stacks : result[s] \in FinalResults => pc[s] = "done"

LEMMA FinalResultEnds ==
  ASSUME TypeOK, NEW s \in Stacks, TaskStep(s), result'[s] \in FinalResults
  PROVE  result[s] \in FinalResults \/ pc'[s] = "done"
<1> USE DEF TypeOK, To, Results, FinalResults, Absent
<1>1. CASE Start(s)
  BY <1>1 DEF Start
<1>2. CASE TryDelete(s) \/ Polled(s)
  BY <1>2 DEF TryDelete, Polled
<1>3. CASE ReapNetworking(s)
  BY <1>3 DEF ReapNetworking
<1>4. CASE NetworkRedriven(s) \/ IpamRedriven(s) \/ ForcePolled(s)
  BY <1>4 DEF NetworkRedriven, IpamRedriven, ForcePolled, Redriven
<1>5. CASE ReapIpam(s) \/ ForceDelete(s)
  BY <1>5 DEF ReapIpam, ForceDelete
<1>6. CASE Raise(s) \/ Cancelled(s)
  BY <1>6 DEF Raise, Cancelled
<1> QED BY <1>1, <1>2, <1>3, <1>4, <1>5, <1>6 DEF TaskStep, Task

(* A step of a task is never a step of a stack whose result is final. *)
LEMMA FinalTakesNoStep ==
  ASSUME IInv, FinalDone, NEW s \in Stacks, result[s] \in FinalResults,
         NEW t \in Stacks, TaskStep(t)
  PROVE  /\ t # s
         /\ result'[s] = result[s] /\ pc'[s] = pc[s] /\ cfn'[s] = cfn[s]
<1>1. TaskEffect(t)
  BY TaskEffects DEF IInv
<1>2. t # s
  BY <1>1 DEF TaskEffect, FinalDone, Running
<1>3. result'[s] = result[s]
  BY <1>1, <1>2 DEF TaskEffect, ResultEffect, IInv, TypeOK
<1>4. pc'[s] = pc[s] /\ cfn'[s] = cfn[s]
  BY <1>1, <1>2 DEF TaskEffect, CfnEffect, IInv, TypeOK
<1> QED BY <1>2, <1>3, <1>4

LEMMA FinalDoneInit == Init => FinalDone
BY DEF Init, FinalDone, FinalResults, Absent

LEMMA FinalDoneStep == IInv /\ FinalDone /\ [Next]_vars => FinalDone'
<1> SUFFICES ASSUME IInv, FinalDone, [Next]_vars, NEW s \in Stacks, result'[s] \in FinalResults
             PROVE  pc'[s] = "done"
  BY DEF FinalDone, FinalResults, Absent
<1>1. ASSUME NEW t \in Stacks, TaskStep(t)
      PROVE  pc'[s] = "done"
  <2>1. CASE result[s] \in FinalResults
    BY <1>1, <2>1, FinalTakesNoStep DEF FinalDone
  <2>2. CASE result[s] \notin FinalResults
    <3>1. TaskEffect(t)
      BY <1>1, TaskEffects DEF IInv
    <3>2. t = s
      BY <3>1, <2>2 DEF TaskEffect, ResultEffect, IInv, TypeOK
    <3> QED BY <1>1, <2>2, <3>2, FinalResultEnds DEF IInv
  <2> QED BY <2>1, <2>2
<1>2. CASE OutsideStep
  BY <1>2, ProgressCases DEF OutsideStep, Interrupt, Release, FinalDone
<1>3. CASE WaitEnds
  BY <1>3 DEF WaitEnds, Refused, FinalDone, FinalResults, Absent
<1> QED BY <1>1, <1>2, <1>3, StepCases
        DEF RoundUnwinds, EnvDone, RetryDone, InfraCheck, InfraDone, WaitCancelled, vars,
            FinalDone

LEMMA DeferredStepsAside ==
  ASSUME IInv, FinalDone, [Next]_vars, NEW s \in Stacks, result[s] = "deferred"
  PROVE  /\ result'[s] = "deferred"
         /\ cfn'[s] \in {"deleting", "forcing"} => cfn'[s] = cfn[s]
<1>1. ASSUME NEW t \in Stacks, TaskStep(t)
      PROVE  result'[s] = "deferred" /\ cfn'[s] = cfn[s]
  BY <1>1, FinalTakesNoStep DEF FinalResults
<1>2. ASSUME OutsideStep
      PROVE  /\ result'[s] = "deferred"
             /\ cfn'[s] \in {"deleting", "forcing"} => cfn'[s] = cfn[s]
  BY <1>2, ProgressCases DEF OutsideStep, Interrupt, Release, IInv, TypeOK
<1> QED BY <1>1, <1>2, StepCases
        DEF RoundUnwinds, EnvDone, WaitEnds, RetryDone, InfraCheck, InfraDone, WaitCancelled, vars

(* A deferred stack is left to a later run, whichever of the other stacks  *)
(* fail, are retried or are deleted after it: no task touches it again,    *)
(* and CloudFormation only finishes a deletion already under way           *)
(* (_still_stuck, and the retry of delete_all_stacks).                     *)
THEOREM DeferredStacksLeftAlone == Spec => DeferredIsLeftAlone
<1>1. IInv /\ FinalDone /\ [Next]_vars
        => [\A s \in Stacks : result[s] = "deferred" =>
              /\ result'[s] = "deferred"
              /\ cfn'[s] \in {"deleting", "forcing"} => cfn'[s] = cfn[s]]_vars
  BY DeferredStepsAside
<1> QED BY <1>1, FinalDoneInit, FinalDoneStep, IInvInit, IInvHolds, PTL
        DEF Spec, DeferredIsLeftAlone

-----------------------------------------------------------------------------
(* A deletion is a teardown *)

(* When the deletion was cancelled, every task of its round had ended. *)
CancelledEnded == phase = "cancelled" => RoundEnded

(* If the existence checks answer, an infrastructure stack is as it was    *)
(* until the environment is gone.                                          *)
InfraUntouched == \A i \in Infra : cfn[i] # "live" => EnvGone

InOrder == "exists" \notin Faults => InfraLast /\ InfraUntouched

(* The infrastructure is as it was, and without a result, until the other  *)
(* rounds are over, and if it is kept, for good.                           *)
InfraKept == \A i \in Infra : cfn[i] = "live" /\ result[i] = "none"

KeptOrReported ==
  /\ phase \in {"env", "wait", "retry", "infracheck"} => InfraKept
  /\ phase = "done" => InfraKept \/ \A i \in Infra : result[i] # "none"

TInv == FinalDone /\ CancelledEnded /\ InOrder /\ KeptOrReported

LEMMA TInvInit == Init => TInv
BY FinalDoneInit, IInvInit
   DEF Init, TInv, CancelledEnded, InOrder, InfraUntouched, KeptOrReported, InfraKept

(* A task takes its steps in one of the three rounds. *)
LEMMA TasksRunInRounds ==
  ASSUME IInv, CancelledEnded, NEW s \in Stacks, TaskStep(s)
  PROVE  phase \in {"env", "retry", "infra"} /\ s \in batch
<1>1. TaskEffect(s)
  BY TaskEffects DEF IInv
<1>2. s \in batch
  BY <1>1 DEF TaskEffect, IInv, TasksInBatch
<1>3. pc[s] \notin {"done", "cancelled"}
  BY <1>1 DEF TaskEffect, Running
<1> QED BY <1>2, <1>3 DEF IInv, TypeOK, TasksInBatch, CancelledEnded, RoundEnded

LEMMA CancelledEndedStep == IInv /\ CancelledEnded /\ [Next]_vars => CancelledEnded'
<1> SUFFICES ASSUME IInv, CancelledEnded, [Next]_vars
             PROVE  CancelledEnded'
  OBVIOUS
<1> USE DEF CancelledEnded, RoundEnded
<1>1. ASSUME NEW s \in Stacks, TaskStep(s)
      PROVE  CancelledEnded'
  <2>1. phase' = phase
    BY <1>1, TaskEffects DEF IInv, TaskEffect
  <2> QED BY <1>1, <2>1, TasksRunInRounds
<1>2. CASE OutsideStep
  BY <1>2, ProgressCases DEF OutsideStep, Interrupt, Release
<1>3. CASE RoundUnwinds
  BY <1>3 DEF RoundUnwinds
<1>4. CASE WaitCancelled
  BY <1>4 DEF WaitCancelled, IInv, TasksInBatch
<1> QED BY <1>1, <1>2, <1>3, <1>4, StepCases
        DEF EnvDone, WaitEnds, RetryDone, InfraCheck, InfraDone, vars

LEMMA InfraUntouchedStep ==
  ASSUME IInv, InfraLast, InfraUntouched, [Next]_vars
  PROVE  InfraUntouched'
<1> SUFFICES ASSUME NEW i \in Infra, cfn'[i] # "live"
             PROVE  EnvGone'
  BY DEF InfraUntouched
<1>1. EnvGone
  BY InfraStartsLast DEF InfraUntouched
<1> QED BY <1>1, GoneStaysGone DEF EnvGone

(* Every infrastructure stack has a result when its round is over. *)
LEMMA InfraDoneReports ==
  ASSUME IInv, InfraDone
  PROVE  \A i \in Infra : result[i] # "none"
BY DEF InfraDone, RoundEnded, RoundCancelled, IInv, TasksInBatch, EarlyOnly, EarlySteps

LEMMA KeptOrReportedStep ==
  ASSUME IInv, CancelledEnded, KeptOrReported, [Next]_vars
  PROVE  KeptOrReported'
<1> USE DEF KeptOrReported
<1>1. ASSUME NEW t \in Stacks, TaskStep(t)
      PROVE  KeptOrReported'
  <2>1. TaskEffect(t)
    BY <1>1, TaskEffects DEF IInv
  <2>2. phase' = phase /\ phase \in {"env", "retry", "infra"} /\ t \in batch
    BY <1>1, <2>1, TasksRunInRounds DEF TaskEffect
  <2>3. phase # "infra" => t \notin Infra
    BY <2>2, DeletionAssumption DEF IInv, RoundsHaveResults, TasksInBatch
  <2>4. \A s \in Stacks \ {t} : cfn'[s] = cfn[s] /\ result'[s] = result[s]
    BY <2>1 DEF TaskEffect, CfnEffect, ResultEffect, IInv, TypeOK
  <2> QED BY <2>2, <2>3, <2>4 DEF InfraKept, Stacks
<1>2. ASSUME NEW s \in Stacks, Progress(s)
      PROVE  KeptOrReported'
  <2>1. cfn[s] \in {"deleting", "forcing"} /\ UNCHANGED <<result, phase>>
    BY <1>2, ProgressCases
  <2>2. \A t \in Stacks \ {s} : cfn'[t] = cfn[t]
    BY <1>2, ProgressCases DEF IInv, TypeOK
  <2> QED BY <2>1, <2>2 DEF InfraKept, Stacks
<1>3. CASE Interrupt \/ \E s \in Stacks : Release(s)
  BY <1>3 DEF Interrupt, Release, InfraKept
<1>4. CASE InfraDone
  BY <1>4, InfraDoneReports DEF InfraDone
<1>5. CASE \/ RoundUnwinds \/ EnvDone \/ WaitEnds \/ RetryDone \/ InfraCheck \/ WaitCancelled
           \/ UNCHANGED vars
  BY <1>5 DEF RoundUnwinds, EnvDone, WaitEnds, RetryDone, InfraCheck, WaitCancelled, vars,
        InfraKept
<1> QED BY <1>1, <1>2, <1>3, <1>4, <1>5, StepCases DEF OutsideStep

LEMMA TInvStep == IInv /\ TInv /\ [Next]_vars => TInv'
<1> SUFFICES ASSUME IInv, TInv, [Next]_vars
             PROVE  TInv'
  OBVIOUS
<1>1. InOrder'
  BY InfraLastStep, InfraUntouchedStep DEF TInv, InOrder
<1>2. KeptOrReported'
  BY KeptOrReportedStep DEF TInv
<1> QED BY <1>1, <1>2, FinalDoneStep, CancelledEndedStep DEF TInv

(* A step of a task gives its stack a verdict, or tells nothing. *)
LEMMA TaskJudges ==
  ASSUME IInv, TInv, NEW s \in Stacks, TaskStep(s)
  PROVE  \/ \E verdict \in Absent \cup Failed : Teardown!Judge(s, verdict)
         \/ UNCHANGED Teardown!vars
<1>1. TaskEffect(s)
  BY TaskEffects DEF IInv
<1>2. phase \in {"env", "retry", "infra"} /\ s \in batch /\ phase' = phase
  BY <1>1, TasksRunInRounds DEF TInv, TaskEffect
<1>3. {t \in Stacks : cfn'[t] # "none"} = {t \in Stacks : cfn[t] # "none"}
  BY <1>1 DEF TaskEffect, CfnEffect, IInv, TypeOK
<1>4. result[s] \notin FinalResults
  BY FinalTakesNoStep DEF TInv
<1>5. s \in Infra => /\ \A e \in Env : result[e] # "none"
                     /\ "exists" \notin Faults => EnvGone
  <2>1. s \in Infra => phase = "infra" /\ batch \cap Infra # {}
    BY <1>2, DeletionAssumption DEF IInv, TasksInBatch, RoundsHaveResults
  <2> QED BY <2>1 DEF IInv, RoundsHaveResults, TInv, InOrder, InfraLast
<1>6. CASE result' = result
  BY <1>2, <1>3, <1>6 DEF Teardown!vars
<1>7. ASSUME NEW verdict \in Absent \cup Failed,
             result' = [result EXCEPT ![s] = verdict],
             verdict \in Absent => cfn[s] = "none"
      PROVE  Teardown!Judge(s, verdict)
  <2>1. verdict \in Teardown!Gone => s \notin {t \in Stacks : cfn[t] # "none"}
    BY <1>7 DEF Teardown!Gone, Absent
  <2>2. result[s] \notin Teardown!Final
    BY <1>4 DEF Teardown!Final, Teardown!Gone, FinalResults, Absent
  <2>3. s \in Infra /\ "exists" \notin Faults => Teardown!EnvGone
    <3>1. EnvGone => Teardown!EnvGone
      BY DEF Teardown!EnvGone, EnvGone
    <3> QED BY <1>5, <3>1
  <2>4. UNCHANGED <<{t \in Stacks : cfn[t] # "none"},
                    IF phase \in {"done", "cancelled"} THEN phase ELSE "running">>
    BY <1>2, <1>3
  <2>5. (IF phase \in {"done", "cancelled"} THEN phase ELSE "running") = "running"
    BY <1>2
  <2>6. s \in Infra => /\ \A e \in Env : result[e] # "none"
                       /\ "exists" \notin Faults => Teardown!EnvGone
    BY <1>5, <2>3
  <2> QED BY <1>7, <2>1, <2>2, <2>4, <2>5, <2>6 DEF Teardown!Judge
<1> QED BY <1>1, <1>6, <1>7 DEF TaskEffect, ResultEffect, Absent, Failed

LEMMA OutsideDisappears ==
  ASSUME IInv, TInv, OutsideStep
  PROVE  \/ \E s \in Stacks : Teardown!Disappear(s)
         \/ UNCHANGED Teardown!vars
<1>1. ASSUME NEW s \in Stacks, Progress(s)
      PROVE  Teardown!Disappear(s) \/ UNCHANGED Teardown!vars
  <2>1. cfn[s] \in {"deleting", "forcing"} /\ UNCHANGED <<result, phase>>
    BY <1>1, ProgressCases
  <2>2. CASE cfn' = [cfn EXCEPT ![s] = "failed"]
    <3>1. {t \in Stacks : cfn'[t] # "none"} = {t \in Stacks : cfn[t] # "none"}
      BY <2>1, <2>2 DEF IInv, TypeOK
    <3> QED BY <2>1, <3>1 DEF Teardown!vars
  <2>3. CASE cfn' = [cfn EXCEPT ![s] = "none"]
    <3>1. {t \in Stacks : cfn'[t] # "none"} = {t \in Stacks : cfn[t] # "none"} \ {s}
      BY <2>1, <2>3 DEF IInv, TypeOK
    <3>2. s \in Infra /\ "exists" \notin Faults => EnvGone
      BY <2>1 DEF TInv, InOrder, InfraUntouched
    <3>3. phase = "done" => result[s] # "none"
      BY <2>1 DEF TInv, KeptOrReported, InfraKept, IInv, RoundsHaveResults, Stacks
    <3> QED BY <2>1, <3>1, <3>2, <3>3 DEF Teardown!Disappear, Teardown!EnvGone, EnvGone
  <2> QED BY <1>1, <2>2, <2>3, ProgressCases
<1>2. CASE Interrupt \/ \E s \in Stacks : Release(s)
  BY <1>2 DEF Interrupt, Release, Teardown!vars
<1> QED BY <1>1, <1>2 DEF OutsideStep

LEMMA RegionEnds ==
  ASSUME IInv, KeptOrReported,
         RoundUnwinds \/ EnvDone \/ WaitEnds \/ RetryDone \/ InfraCheck \/ InfraDone
           \/ WaitCancelled
  PROVE  Teardown!Finish \/ Teardown!Cancel \/ UNCHANGED Teardown!vars
<1>1. UNCHANGED <<cfn, result>>
  BY DEF RoundUnwinds, EnvDone, WaitEnds, RetryDone, InfraCheck, InfraDone, WaitCancelled
<1>2. CASE RoundUnwinds \/ WaitCancelled
  BY <1>1, <1>2 DEF RoundUnwinds, WaitCancelled, Teardown!Cancel
<1>3. CASE EnvDone \/ WaitEnds \/ RetryDone
  BY <1>1, <1>3 DEF EnvDone, WaitEnds, RetryDone, Teardown!vars
<1>4. CASE InfraCheck
  <2>1. phase = "infracheck" /\ \A e \in Env : result[e] # "none"
    BY <1>4 DEF InfraCheck, IInv, RoundsHaveResults
  <2>2. CASE phase' = "infra"
    BY <1>1, <2>1, <2>2 DEF Teardown!vars
  <2>3. CASE phase' # "infra"
    <3>1. PICK unread \in Unread : Survivors(unread) # {}
      BY <1>4, <2>3 DEF InfraCheck
    <3>2. \E e \in Env : cfn[e] # "none" /\ result[e] \in Failed
      BY <3>1 DEF Survivors
    <3>3. phase' = "done"
      BY <1>4, <2>3 DEF InfraCheck
    <3>4. \A i \in Infra : result[i] = "none" /\ cfn[i] # "none"
      BY <2>1 DEF KeptOrReported, InfraKept
    <3> QED BY <1>1, <2>1, <3>2, <3>3, <3>4
            DEF Teardown!Finish, Teardown!Failed, Failed, Stacks
  <2> QED BY <2>2, <2>3
<1>5. CASE InfraDone
  <2>1. phase = "infra" /\ phase' = "done" /\ batch = Infra
    BY <1>5 DEF InfraDone, IInv, TasksInBatch
  <2>2. \A i \in Infra : result[i] # "none"
    BY <1>5, InfraDoneReports
  <2>3. \A e \in Env : result[e] # "none"
    BY <2>1 DEF IInv, RoundsHaveResults
  <2> QED BY <1>1, <2>1, <2>2, <2>3 DEF Teardown!Finish
<1> QED BY <1>2, <1>3, <1>4, <1>5

LEMMA StepsTearDown == IInv /\ TInv /\ [Next]_vars => [Teardown!Next]_(Teardown!vars)
<1> SUFFICES ASSUME IInv, TInv, [Next]_vars
             PROVE  [Teardown!Next]_(Teardown!vars)
  OBVIOUS
<1>1. ASSUME NEW s \in Stacks, TaskStep(s)
      PROVE  [Teardown!Next]_(Teardown!vars)
  BY <1>1, TaskJudges DEF Teardown!Next, Teardown!Gone, Teardown!Failed, Absent, Failed
<1>2. CASE OutsideStep
  BY <1>2, OutsideDisappears DEF Teardown!Next
<1>3. CASE RoundUnwinds \/ EnvDone \/ WaitEnds \/ RetryDone \/ InfraCheck \/ InfraDone
             \/ WaitCancelled
  BY <1>3, RegionEnds DEF Teardown!Next, TInv
<1>4. CASE UNCHANGED vars
  BY <1>4 DEF vars, Teardown!vars
<1> QED BY <1>1, <1>2, <1>3, <1>4, StepCases

(* Whatever fails, is retried or goes on past its deadline, and also when  *)
(* the process is stopped, the deletion of a region's stacks is a          *)
(* teardown: the summary calls no stack deleted that is there, revises no  *)
(* final result, answers for every environment stack, and leaves the       *)
(* infrastructure out only behind one that is left (delete_all_stacks).    *)
THEOREM ImplementsTeardown == Spec => TeardownSpec
<1>1. Init => Teardown!Init
  BY DEF Init, Teardown!Init
<1> QED BY <1>1, StepsTearDown, TInvInit, TInvStep, IInvInit, IInvHolds, PTL
        DEF Spec, TeardownSpec, Teardown!Spec
=============================================================================
