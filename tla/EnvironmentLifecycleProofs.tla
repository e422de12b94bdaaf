--------------------- MODULE EnvironmentLifecycleProofs ---------------------
(***************************************************************************)
(* Proofs about EnvironmentLifecycle for any scenario and any faults.      *)
(***************************************************************************)
EXTENDS EnvironmentLifecycle, TLAPS

(* The next-state relation without its grouping. *)
LEMMA StepCases ==
  ASSUME [Next]_vars
  PROVE  \/ EnvInit \/ SetupBegins \/ ResetBegins \/ JobBegins \/ CleanupBegins
         \/ SetupDeployed \/ SetupSnapshot
         \/ ResetResources \/ RedeployBegins \/ AttemptFails \/ RedeployCompletes \/ Resnapshot
         \/ (\E a \in Accounts : Tag(a)) \/ ResetEnds
         \/ TrialRefused \/ AgentStarts \/ AgentEnds \/ TrialSettles \/ JobEnds
         \/ CleanupScript \/ CleanupResources
         \/ (\E a \in Accounts : DropSnapshots(a)) \/ AllDropped
         \/ (\E a \in Accounts : Untag(a)) \/ CleanupEnds
         \/ Interrupt \/ UNCHANGED vars
BY DEF Next, SetupStep, ResetStep, JobStep, CleanupStep

-----------------------------------------------------------------------------

(* What deploying, snapshotting and turning results make is well typed. *)
LEMMA DeployTyped ==
  ASSUME TypeOK, DeployBegins \/ DeployCompletes
  PROVE  live' \in [Accounts -> States]
<1>1. ASSUME NEW a \in Accounts
      PROVE  /\ live[a] \in States
             /\ [stacks |-> "part", extra |-> live[a].extra] \in States
             /\ [stacks |-> "full", extra |-> live[a].extra] \in States
  BY DEF TypeOK, States
<1>2. CASE DeployBegins
  BY <1>1, <1>2 DEF DeployBegins
<1>3. CASE DeployCompletes
  BY <1>1, <1>3 DEF DeployCompletes
<1> QED BY <1>2, <1>3

LEMMA BaselineTyped ==
  ASSUME TypeOK, NEW captured, TakeBaseline(captured)
  PROVE  post' \in [Accounts -> States \cup {NoSnapshot}]
BY DEF TypeOK, TakeBaseline

LEMMA TurnTyped ==
  ASSUME TypeOK, NEW result \in {"ok", "failed"}, Turn(result)
  PROVE  outcome' \in [Accounts -> {"none", "ok", "redeploy", "failed"}]
BY DEF TypeOK, Turn

LEMMA AttemptTyped ==
  ASSUME attempt \in 1 .. MaxAttempts,
         \/ attempt < MaxAttempts /\ attempt' = attempt + 1
         \/ attempt' = attempt
  PROVE  attempt' \in 1 .. MaxAttempts
BY LifecycleAssumption

LEMMA ScriptTyped ==
  ASSUME ResetScript
  PROVE  /\ script' \in BOOLEAN
         /\ todo' = Accounts
         /\ attempt' \in 1 .. MaxAttempts
         /\ clear' = TRUE
BY LifecycleAssumption DEF ResetScript

LEMMA ReturnsTyped ==
  ASSUME Returns
  PROVE  /\ script' \in BOOLEAN
         /\ outcome' \in [Accounts -> {"none", "ok", "redeploy", "failed"}]
         /\ todo' \subseteq Accounts
         /\ attempt' \in 1 .. MaxAttempts
         /\ clear' \in BOOLEAN
BY LifecycleAssumption DEF Returns

LEMMA TypingInductive ==
  ASSUME TypeOK, [Next]_vars
  PROVE  TypeOK'
<1> USE DEF TypeOK, Begins, Goes, store, run
<1>1. CASE EnvInit
  <2>1. pre' \in [Accounts -> {"none", "pristine", "spoiled"}]
    BY <1>1 DEF EnvInit
  <2> QED BY <1>1, <2>1 DEF EnvInit
<1>2. CASE SetupBegins
  <2>1. live' \in [Accounts -> States]
    BY <1>2, DeployTyped DEF SetupBegins
  <2> QED BY <1>2, <2>1 DEF SetupBegins
<1>3. CASE ResetBegins
  BY <1>3, ScriptTyped DEF ResetBegins
<1>4. CASE JobBegins \/ CleanupBegins
  BY <1>4 DEF JobBegins, CleanupBegins
<1>5. CASE SetupDeployed
  <2>1. CASE DeployCompletes /\ Goes("snapshot") /\ UNCHANGED <<run, lapsed>>
    BY <1>5, <2>1, DeployTyped DEF SetupDeployed
  <2>2. CASE Ends("failed") /\ UNCHANGED live
    BY <1>5, <2>2, ReturnsTyped DEF SetupDeployed, Ends
  <2> QED BY <1>5, <2>1, <2>2 DEF SetupDeployed
<1>6. CASE SetupSnapshot
  <2> PICK captured \in Succeeding :
        /\ TakeBaseline(captured)
        /\ Ends(IF captured = Accounts THEN "set up" ELSE "failed")
    BY <1>6 DEF SetupSnapshot
  <2>1. post' \in [Accounts -> States \cup {NoSnapshot}]
    BY BaselineTyped
  <2> QED BY <1>6, <2>1, ReturnsTyped DEF SetupSnapshot, Ends
<1>7. CASE ResetResources
  BY <1>7 DEF ResetResources
<1>8. CASE RedeployBegins
  BY <1>8, DeployTyped DEF RedeployBegins
<1>9. CASE AttemptFails
  <2>1. attempt' \in 1 .. MaxAttempts
    BY <1>9, AttemptTyped DEF AttemptFails
  <2>2. outcome' \in [Accounts -> {"none", "ok", "redeploy", "failed"}]
    BY <1>9, TurnTyped DEF AttemptFails
  <2> QED BY <1>9, <2>1, <2>2 DEF AttemptFails
<1>10. CASE RedeployCompletes
  BY <1>10, DeployTyped DEF RedeployCompletes
<1>11. CASE Resnapshot
  <2> PICK captured \in Succeeding :
        TakeBaseline(captured) /\ Turn(IF captured = Accounts THEN "ok" ELSE "failed")
    BY <1>11 DEF Resnapshot
  <2>1. post' \in [Accounts -> States \cup {NoSnapshot}]
    BY BaselineTyped
  <2>2. outcome' \in [Accounts -> {"none", "ok", "redeploy", "failed"}]
    BY TurnTyped
  <2> QED BY <1>11, <2>1, <2>2 DEF Resnapshot
<1>12. ASSUME NEW a \in Accounts, Tag(a)
       PROVE  TypeOK'
  BY <1>12 DEF Tag
<1>13. CASE ResetEnds
  <2>1. Returns
    BY <1>13 DEF ResetEnds, Ends
  <2>2. lapsed' \subseteq Accounts
    BY <1>13 DEF ResetEnds, Ends
  <2>3. /\ cmd' \in {"none", "job"}
        /\ step' \in {"idle", "between"}
        /\ verdict' \in {"reset", "failed", verdict}
    BY <1>13 DEF ResetEnds, Ends
  <2> QED BY <1>13, <2>1, <2>2, <2>3, ReturnsTyped DEF ResetEnds
<1>14. CASE TrialRefused \/ AgentStarts \/ AgentEnds
  BY <1>14 DEF TrialRefused, AgentStarts, AgentEnds
<1>15. CASE TrialSettles
  BY <1>15, ScriptTyped DEF TrialSettles
<1>16. CASE JobEnds \/ CleanupEnds \/ Interrupt
  <2>1. Returns
    BY <1>16 DEF JobEnds, CleanupEnds, Interrupt, Ends
  <2> QED BY <1>16, <2>1, ReturnsTyped DEF JobEnds, CleanupEnds, Interrupt, Ends
<1>17. CASE CleanupScript
  BY <1>17 DEF CleanupScript
<1>18. CASE CleanupResources
  <2>1. CASE Ends("failed")
    BY <1>18, <2>1, ReturnsTyped DEF CleanupResources, Ends
  <2>2. CASE Goes("drop") /\ todo' = Accounts
             /\ UNCHANGED <<script, outcome, attempt, clear, lapsed>>
    BY <1>18, <2>2 DEF CleanupResources
  <2> QED BY <1>18, <2>1, <2>2 DEF CleanupResources, Cleaned
<1>19. ASSUME NEW a \in Accounts, DropSnapshots(a)
       PROVE  TypeOK'
  <2>1. /\ pre' = pre \/ pre' = [pre EXCEPT ![a] = "none"]
        /\ post' = post \/ post' = [post EXCEPT ![a] = NoSnapshot]
    BY <1>19 DEF DropSnapshots
  <2>2. pre' \in [Accounts -> {"none", "pristine", "spoiled"}]
    BY <2>1
  <2>3. post' \in [Accounts -> States \cup {NoSnapshot}]
    BY <2>1
  <2> QED BY <1>19, <2>2, <2>3 DEF DropSnapshots
<1>20. CASE AllDropped
  BY <1>20 DEF AllDropped
<1>21. ASSUME NEW a \in Accounts, Untag(a)
       PROVE  TypeOK'
  BY <1>21 DEF Untag
<1>22. CASE UNCHANGED vars
  BY <1>22 DEF vars
<1> QED BY <1>1, <1>2, <1>3, <1>4, <1>5, <1>6, <1>7, <1>8, <1>9, <1>10, <1>11, <1>12, <1>13,
           <1>14, <1>15, <1>16, <1>17, <1>18, <1>19, <1>20, <1>21, <1>22, StepCases

(* Every reachable state is well typed; in particular no reset counts more *)
(* than MaxAttempts redeployments (_redeploy_with_retry).                  *)
THEOREM LifecycleTypesCorrect == Spec => []TypeOK
<1>1. Init => TypeOK
  BY LifecycleAssumption DEF Init, TypeOK, States, Empty
<1> QED BY <1>1, TypingInductive, PTL DEF Spec

-----------------------------------------------------------------------------
(* The inductive invariant: which command is at which step, what the       *)
(* snapshots say of the accounts, and what the reset under way has already *)
(* made true.                                                              *)

Redeploying == {"redeploy", "redeploying", "resnapshot"}

CommandAtStep ==
  /\ step = "idle" <=> cmd = "none"
  /\ step \in {"deploy", "snapshot"} <=> cmd = "setup"
  /\ step \in {"between", "agent", "settled"} => cmd = "job"
  /\ step \in {"resources", "tags"} \cup Redeploying => cmd \in {"reset", "job"}
  /\ step \in {"sweep", "clean", "drop", "untag"} <=> cmd = "cleanup"
  /\ cmd # "none" => verdict = "none"

(* Cleanups can be trusted: jobs are verified, so that no agent works on    *)
(* an account before its PRE_SETUP snapshot, and no stack is deferred.     *)
CleanupSound == VerifyEnv /\ "pinned" \notin Faults

SnapshotsSound ==
  /\ CleanupSound => \A a \in Accounts : pre[a] = "none" => live[a] = Empty
  /\ CleanupSound /\ cmd = "job" => Initialised
  /\ cmd = "setup" \/ step \in {"redeploying", "resnapshot"} => Initialised
  /\ \A a \in Accounts : post[a].stacks \in {"absent", "full"}
  /\ step \in {"snapshot", "resnapshot"} => \A a \in Accounts : live[a].stacks = "full"
  /\ CleanupSound /\ step \in {"drop", "untag"} => \A a \in Accounts : live[a] = Empty
  /\ CleanupSound => PreIsPristine

ResetSound ==
  /\ step \in {"tags"} \cup Redeploying =>
       \A a \in Accounts : outcome[a] = "ok" => AtBaseline(a)
  /\ step \in {"resources"} \cup Redeploying => todo = Accounts
  /\ step = "tags" =>
       \A a \in Accounts \ todo :
         IF outcome[a] = "ok" THEN clear => a \notin tagged ELSE a \in tagged \cup lapsed
  /\ VerifyEnv /\ step = "between" =>
       \A a \in Accounts \ lapsed : a \in tagged \/ AtBaseline(a)

IInv ==
  /\ TypeOK /\ CommandAtStep /\ SnapshotsSound /\ ResetSound
  /\ CleanupSound => ReportedSuccessHolds

-----------------------------------------------------------------------------

LEMMA CommandInductive ==
  ASSUME CommandAtStep, [Next]_vars
  PROVE  CommandAtStep'
<1> USE DEF CommandAtStep, Redeploying, Begins, Ends, Goes
<1>1. CASE EnvInit \/ SetupBegins \/ ResetBegins \/ JobBegins \/ CleanupBegins
  BY <1>1 DEF EnvInit, SetupBegins, ResetBegins, JobBegins, CleanupBegins
<1>2. CASE SetupDeployed \/ SetupSnapshot
  BY <1>2 DEF SetupDeployed, SetupSnapshot
<1>3. CASE ResetResources \/ RedeployBegins \/ RedeployCompletes \/ Resnapshot
  BY <1>3 DEF ResetResources, RedeployBegins, RedeployCompletes, Resnapshot
<1>4. CASE AttemptFails
  BY <1>4 DEF AttemptFails
<1>5. CASE ResetEnds
  BY <1>5 DEF ResetEnds
<1>6. CASE TrialRefused \/ AgentStarts \/ AgentEnds \/ TrialSettles \/ JobEnds
  BY <1>6 DEF TrialRefused, AgentStarts, AgentEnds, TrialSettles, JobEnds
<1>7. CASE CleanupScript \/ AllDropped \/ CleanupEnds
  BY <1>7 DEF CleanupScript, AllDropped, CleanupEnds
<1>8. CASE CleanupResources
  BY <1>8 DEF CleanupResources, Cleaned
<1>9. CASE Interrupt
  BY <1>9 DEF Interrupt
<1>10. ASSUME NEW a \in Accounts, Tag(a) \/ DropSnapshots(a) \/ Untag(a)
       PROVE  CommandAtStep'
  BY <1>10 DEF Tag, DropSnapshots, Untag
<1>11. CASE UNCHANGED vars
  BY <1>11 DEF vars
<1> QED BY <1>1, <1>2, <1>3, <1>4, <1>5, <1>6, <1>7, <1>8, <1>9, <1>10, <1>11, StepCases

-----------------------------------------------------------------------------
(* Nothing is restored or deleted in an account that is empty, and a        *)
(* deployment leaves only its stacks there.                                *)

LEMMA EmptyStaysEmpty ==
  ASSUME NEW a \in Accounts, live[a] = Empty
  PROVE  /\ Remnants(a) \subseteq {Empty}
         /\ Leavings(a) \subseteq {Empty}
         /\ CleanStates(a) \subseteq {Empty}
<1>1. ASSUME NEW s \in Remnants(a)
      PROVE  s = Empty
  <2>1. s \in States /\ s.stacks = "none" /\ ~s.extra
    BY DEF Remnants, Empty
  <2>2. s = [stacks |-> s.stacks, extra |-> s.extra] /\ s.extra \in BOOLEAN
    BY <2>1 DEF States
  <2> QED BY <2>1, <2>2 DEF Empty
<1> QED BY <1>1 DEF Leavings, CleanStates

LEMMA ResetOfEmpty ==
  ASSUME NEW a \in Accounts, live[a] = Empty, NEW result \in {"ok", "redeploy", "failed"},
         NEW s \in AfterReset(a, result)
  PROVE  s = Empty
<1>1. CASE result = "ok"
  BY <1>1, EmptyStaysEmpty DEF AfterReset
<1>2. CASE result = "redeploy"
  BY <1>2, EmptyStaysEmpty DEF AfterReset
<1>3. CASE result = "failed"
  BY <1>3, EmptyStaysEmpty DEF AfterReset
<1> QED BY <1>1, <1>2, <1>3

(* A verified account is not empty: its baseline has the stacks.           *)
LEMMA BaselineIsNotEmpty ==
  ASSUME SnapshotsSound, NEW a \in Accounts, AtBaseline(a)
  PROVE  live[a] # Empty
BY DEF SnapshotsSound, AtBaseline, Empty

LEMMA SnapshotsInductive ==
  ASSUME TypeOK, CommandAtStep, SnapshotsSound, [Next]_vars
  PROVE  SnapshotsSound'
<1> USE DEF SnapshotsSound, Begins, Ends, Goes, Initialised, PreIsPristine
<1>1. CASE EnvInit
  <2>1. \A a \in Accounts : pre'[a] = "none" => pre[a] = "none"
    BY <1>1 DEF EnvInit, TypeOK
  <2>2. CleanupSound => \A a \in Accounts : pre'[a] # "spoiled"
    BY <1>1 DEF EnvInit, TypeOK
  <2> QED BY <1>1, <2>1, <2>2 DEF EnvInit, TypeOK
<1>2. CASE SetupBegins
  BY <1>2 DEF SetupBegins, Gate
<1>3. CASE ResetBegins \/ CleanupBegins
  BY <1>3 DEF ResetBegins, CleanupBegins, store
<1>4. CASE JobBegins
  <2>1. CleanupSound /\ cmd' = "job" => Initialised
    BY <1>4, BaselineIsNotEmpty DEF JobBegins, CleanupSound
  <2> QED BY <1>4, <2>1 DEF JobBegins, store
<1>5. CASE SetupDeployed
  <2>1. CASE DeployCompletes /\ Goes("snapshot")
    <3>1. \A a \in Accounts : live'[a].stacks = "full"
      BY <2>1 DEF DeployCompletes
    <3> QED BY <1>5, <2>1, <3>1 DEF SetupDeployed, CommandAtStep
  <2>2. CASE Ends("failed") /\ UNCHANGED live
    BY <1>5, <2>2 DEF SetupDeployed
  <2> QED BY <1>5, <2>1, <2>2 DEF SetupDeployed
<1>6. CASE SetupSnapshot
  <2>1. \A a \in Accounts : post'[a].stacks \in {"absent", "full"}
    BY <1>6 DEF SetupSnapshot, TakeBaseline
  <2> QED BY <1>6, <2>1 DEF SetupSnapshot
<1>7. CASE ResetResources
  <2>1. ASSUME NEW a \in Accounts, live[a] = Empty
        PROVE  live'[a] = Empty
    BY <1>7, <2>1, ResetOfEmpty DEF ResetResources
  <2> QED BY <1>7, <2>1 DEF ResetResources, CommandAtStep
<1>8. CASE RedeployBegins
  BY <1>8 DEF RedeployBegins, CommandAtStep
<1>9. CASE AttemptFails
  BY <1>9 DEF AttemptFails, store
<1>10. CASE RedeployCompletes
  <2>1. \A a \in Accounts : live'[a].stacks = "full"
    BY <1>10 DEF RedeployCompletes, DeployCompletes
  <2> QED BY <1>10, <2>1 DEF RedeployCompletes, CommandAtStep
<1>11. CASE Resnapshot
  <2>1. \A a \in Accounts : post'[a].stacks \in {"absent", "full"}
    BY <1>11 DEF Resnapshot, TakeBaseline
  <2> QED BY <1>11, <2>1 DEF Resnapshot
<1>12. ASSUME NEW a \in Accounts, Tag(a)
       PROVE  SnapshotsSound'
  BY <1>12 DEF Tag
<1>13. CASE ResetEnds
  BY <1>13 DEF ResetEnds, store
<1>14. CASE TrialRefused \/ AgentEnds \/ TrialSettles \/ JobEnds
  BY <1>14 DEF TrialRefused, AgentEnds, TrialSettles, JobEnds, store
<1>15. CASE AgentStarts
  BY <1>15 DEF AgentStarts, CommandAtStep
<1>16. CASE CleanupScript
  <2>1. ASSUME NEW a \in Accounts, live[a] = Empty
        PROVE  live'[a] = Empty
    BY <1>16, <2>1, EmptyStaysEmpty DEF CleanupScript
  <2> QED BY <1>16, <2>1 DEF CleanupScript
<1>17. CASE CleanupResources
  <2> PICK clean \in SUBSET Accounts :
        /\ \A a \in Accounts : live'[a] \in IF a \in clean THEN CleanStates(a) ELSE Leavings(a)
        /\ Cleaned(clean)
    BY <1>17 DEF CleanupResources
  <2>1. ASSUME NEW a \in Accounts, live[a] = Empty
        PROVE  live'[a] = Empty
    BY <2>1, EmptyStaysEmpty
  <2>2. CleanupSound /\ step' = "drop" => \A a \in Accounts : live'[a] = Empty
    BY DEF Cleaned, CleanStates, Deferred, CleanupSound
  <2>3. step' \in {"idle", "drop"} /\ cmd' \in {"none", cmd} /\ cmd = "cleanup"
    BY <1>17 DEF Cleaned, CleanupResources, CommandAtStep
  <2> QED BY <1>17, <2>1, <2>2, <2>3 DEF CleanupResources
<1>18. ASSUME NEW a \in Accounts, DropSnapshots(a)
       PROVE  SnapshotsSound'
  <2>1. /\ pre' = pre \/ pre' = [pre EXCEPT ![a] = "none"]
        /\ post' = post \/ post' = [post EXCEPT ![a] = NoSnapshot]
        /\ cmd = "cleanup"
    BY <1>18 DEF DropSnapshots, CommandAtStep
  <2>2. CleanupSound => \A b \in Accounts : live[b] = Empty
    BY <1>18 DEF DropSnapshots
  <2>3. CleanupSound => \A b \in Accounts : pre'[b] # "spoiled"
    BY <2>1 DEF TypeOK
  <2>4. \A b \in Accounts : post'[b].stacks \in {"absent", "full"}
    <3>1. NoSnapshot.stacks = "absent"
      BY DEF NoSnapshot
    <3>2. \A b \in Accounts : post'[b] = post[b] \/ post'[b] = NoSnapshot
      BY <2>1 DEF TypeOK
    <3> QED BY <3>1, <3>2
  <2> QED BY <1>18, <2>1, <2>2, <2>3, <2>4 DEF DropSnapshots
<1>19. CASE AllDropped \/ CleanupEnds \/ Interrupt
  BY <1>19 DEF AllDropped, CleanupEnds, Interrupt, store
<1>20. ASSUME NEW a \in Accounts, Untag(a)
       PROVE  SnapshotsSound'
  BY <1>20 DEF Untag
<1>21. CASE UNCHANGED vars
  BY <1>21 DEF vars
<1> QED BY <1>1, <1>2, <1>3, <1>4, <1>5, <1>6, <1>7, <1>8, <1>9, <1>10, <1>11, <1>12, <1>13,
           <1>14, <1>15, <1>16, <1>17, <1>18, <1>19, <1>20, <1>21, StepCases

-----------------------------------------------------------------------------
(* Deploying and snapshotting again change nothing for an account that is  *)
(* at its baseline.                                                        *)

LEMMA RedeployKeepsRestored ==
  ASSUME TypeOK, SnapshotsSound, DeployBegins \/ DeployCompletes,
         NEW a \in Accounts, AtBaseline(a)
  PROVE  live'[a] = live[a]
<1>1. live[a] \in States /\ live[a].stacks = "full"
  BY DEF TypeOK, SnapshotsSound, AtBaseline, States
<1>2. live[a] = [stacks |-> "full", extra |-> live[a].extra]
  BY <1>1 DEF States
<1>3. CASE DeployBegins
  BY <1>1, <1>3 DEF DeployBegins
<1>4. CASE DeployCompletes
  BY <1>2, <1>4 DEF DeployCompletes
<1> QED BY <1>3, <1>4

LEMMA ResetInductive ==
  ASSUME TypeOK, CommandAtStep, SnapshotsSound, ResetSound, [Next]_vars
  PROVE  ResetSound'
<1> USE DEF ResetSound, Redeploying, AtBaseline, Begins, Goes, Ends
<1>1. CASE EnvInit
  BY <1>1 DEF EnvInit, run
<1>2. CASE SetupBegins
  BY <1>2 DEF SetupBegins, run, CommandAtStep
<1>3. CASE ResetBegins
  BY <1>3 DEF ResetBegins, ResetScript
<1>4. CASE JobBegins
  BY <1>4 DEF JobBegins, store, run, CommandAtStep
<1>5. CASE CleanupBegins
  BY <1>5 DEF CleanupBegins
<1>6. CASE SetupDeployed
  BY <1>6 DEF SetupDeployed
<1>7. CASE SetupSnapshot
  BY <1>7 DEF SetupSnapshot
<1>8. CASE ResetResources
  <2>1. \A a \in Accounts : outcome'[a] = "ok" => AtBaseline(a)'
    BY <1>8 DEF ResetResources, AfterReset
  <2> QED BY <1>8, <2>1 DEF ResetResources
<1>9. CASE RedeployBegins
  <2>1. ASSUME NEW a \in Accounts, outcome[a] = "ok"
        PROVE  live'[a] = live[a]
    BY <1>9, <2>1, RedeployKeepsRestored DEF RedeployBegins
  <2> QED BY <1>9, <2>1 DEF RedeployBegins, run
<1>10. CASE AttemptFails
  <2>1. \A a \in Accounts : outcome'[a] = "ok" => outcome[a] = "ok"
    BY <1>10 DEF AttemptFails, Turn
  <2> QED BY <1>10, <2>1 DEF AttemptFails, store
<1>11. CASE RedeployCompletes
  <2>1. ASSUME NEW a \in Accounts, outcome[a] = "ok"
        PROVE  live'[a] = live[a]
    BY <1>11, <2>1, RedeployKeepsRestored DEF RedeployCompletes
  <2> QED BY <1>11, <2>1 DEF RedeployCompletes, run
<1>12. CASE Resnapshot
  <2> PICK captured \in Succeeding :
        TakeBaseline(captured) /\ Turn(IF captured = Accounts THEN "ok" ELSE "failed")
    BY <1>12 DEF Resnapshot
  <2>1. ASSUME NEW a \in Accounts, outcome'[a] = "ok"
        PROVE  AtBaseline(a)'
    BY <1>12, <2>1 DEF TakeBaseline, Turn, Resnapshot
  <2> QED BY <1>12, <2>1 DEF Resnapshot
<1>13. ASSUME NEW a \in Accounts, Tag(a)
       PROVE  ResetSound'
  <2>1. /\ step = "tags" /\ step' = "tags"
        /\ \A b \in Accounts : b # a => (b \in tagged' <=> b \in tagged)
        /\ clear' => clear
        /\ lapsed \subseteq lapsed'
        /\ UNCHANGED <<live, post, outcome>>
        /\ todo' = todo \ {a}
    BY <1>13 DEF Tag
  <2>2. IF outcome[a] = "ok" THEN clear' => a \notin tagged' ELSE a \in tagged' \cup lapsed'
    BY <1>13 DEF Tag
  <2> QED BY <2>1, <2>2
<1>14. CASE ResetEnds
  <2>1. CASE cmd = "job" /\ Goes("between") /\ Returns /\ UNCHANGED lapsed
    <3>1. \A a \in Accounts \ lapsed : a \in tagged \/ AtBaseline(a)
      BY <1>14 DEF ResetEnds
    <3> QED BY <1>14, <2>1, <3>1 DEF ResetEnds, store
  <2>2. CASE cmd = "reset"
    BY <1>14, <2>2 DEF ResetEnds
  <2> QED BY <1>14, <2>1, <2>2 DEF ResetEnds
<1>15. CASE TrialRefused \/ AgentStarts \/ AgentEnds \/ JobEnds
  BY <1>15 DEF TrialRefused, AgentStarts, AgentEnds, JobEnds
<1>16. CASE TrialSettles
  BY <1>16 DEF TrialSettles, ResetScript
<1>17. CASE CleanupScript \/ AllDropped \/ CleanupEnds \/ Interrupt
  BY <1>17 DEF CleanupScript, AllDropped, CleanupEnds, Interrupt
<1>18. CASE CleanupResources
  BY <1>18 DEF CleanupResources, Cleaned
<1>19. ASSUME NEW a \in Accounts, DropSnapshots(a) \/ Untag(a)
       PROVE  ResetSound'
  BY <1>19 DEF DropSnapshots, Untag
<1>20. CASE UNCHANGED vars
  BY <1>20 DEF vars
<1> QED BY <1>1, <1>2, <1>3, <1>4, <1>5, <1>6, <1>7, <1>8, <1>9, <1>10, <1>11, <1>12, <1>13,
           <1>14, <1>15, <1>16, <1>17, <1>18, <1>19, <1>20, StepCases

LEMMA ReportedInductive ==
  ASSUME TypeOK, CommandAtStep, SnapshotsSound, ResetSound, ReportedSuccessHolds, CleanupSound,
         [Next]_vars
  PROVE  ReportedSuccessHolds'
<1> USE DEF ReportedSuccessHolds, AtBaseline, CommandAtStep, Begins, Goes, Ends
<1>1. CASE EnvInit \/ SetupBegins \/ ResetBegins \/ JobBegins \/ CleanupBegins
  BY <1>1 DEF EnvInit, SetupBegins, ResetBegins, JobBegins, CleanupBegins, store
<1>2. CASE SetupDeployed
  BY <1>2 DEF SetupDeployed
<1>3. CASE SetupSnapshot
  <2> PICK captured \in Succeeding :
        /\ TakeBaseline(captured)
        /\ Ends(IF captured = Accounts THEN "set up" ELSE "failed")
    BY <1>3 DEF SetupSnapshot
  <2>1. captured = Accounts => \A a \in Accounts : AtBaseline(a)'
    BY <1>3 DEF TakeBaseline, SetupSnapshot
  <2> QED BY <1>3, <2>1 DEF SetupSnapshot
<1>4. CASE ResetResources \/ RedeployBegins \/ AttemptFails \/ RedeployCompletes \/ Resnapshot
  BY <1>4 DEF ResetResources, RedeployBegins, AttemptFails, RedeployCompletes, Resnapshot,
              Redeploying
<1>5. ASSUME NEW a \in Accounts, Tag(a) \/ DropSnapshots(a) \/ Untag(a)
      PROVE  ReportedSuccessHolds'
  BY <1>5 DEF Tag, DropSnapshots, Untag
<1>6. CASE ResetEnds
  <2>1. CASE verdict' = "reset"
    <3>1. /\ todo = {} /\ clear
          /\ \A a \in Accounts : outcome[a] = "ok"
      BY <1>6, <2>1 DEF ResetEnds
    <3>2. \A a \in Accounts : AtBaseline(a) /\ a \notin tagged
      BY <1>6, <3>1 DEF ResetEnds, ResetSound
    <3>3. tagged = {}
      BY <3>2 DEF TypeOK
    <3> QED BY <1>6, <2>1, <3>2, <3>3 DEF ResetEnds, store
  <2>2. CASE verdict' # "reset"
    BY <1>6, <2>2 DEF ResetEnds
  <2> QED BY <2>1, <2>2
<1>7. CASE TrialRefused \/ AgentStarts \/ AgentEnds \/ TrialSettles \/ JobEnds
  BY <1>7 DEF TrialRefused, AgentStarts, AgentEnds, TrialSettles, JobEnds
<1>8. CASE CleanupScript \/ AllDropped \/ Interrupt
  BY <1>8 DEF CleanupScript, AllDropped, Interrupt
<1>9. CASE CleanupResources
  BY <1>9 DEF CleanupResources, Cleaned
<1>10. CASE CleanupEnds
  BY <1>10 DEF CleanupEnds, SnapshotsSound, store
<1>11. CASE UNCHANGED vars
  BY <1>11 DEF vars
<1> QED BY <1>1, <1>2, <1>3, <1>4, <1>5, <1>6, <1>7, <1>8, <1>9, <1>10, <1>11, StepCases

-----------------------------------------------------------------------------

LEMMA Invariance == Spec => []IInv
<1>1. Init => IInv
  <2>1. Init => TypeOK
    BY LifecycleAssumption DEF Init, TypeOK, States, Empty
  <2>2. Init => CommandAtStep
    BY DEF Init, CommandAtStep, Redeploying
  <2>3. Init => SnapshotsSound
    BY DEF Init, SnapshotsSound, PreIsPristine, NoSnapshot
  <2>4. Init => ResetSound /\ ReportedSuccessHolds
    BY DEF Init, ResetSound, Redeploying, ReportedSuccessHolds
  <2> QED BY <2>1, <2>2, <2>3, <2>4 DEF IInv
<1>2. IInv /\ [Next]_vars => IInv'
  BY TypingInductive, CommandInductive, SnapshotsInductive, ResetInductive, ReportedInductive
     DEF IInv
<1> QED BY <1>1, <1>2, PTL DEF Spec

(* What a command that succeeded reports holds of the accounts, for any    *)
(* scenario with verified jobs and whatever fails or is interrupted,       *)
(* unless a cleanup defers a stack: setup and reset leave them at the      *)
(* baseline, cleanup empty (scenario/trial.py).                            *)
THEOREM ReportedSuccessIsTrue ==
  ASSUME CleanupSound
  PROVE  Spec => []ReportedSuccessHolds
<1>1. IInv => ReportedSuccessHolds
  BY DEF IInv
<1> QED BY <1>1, Invariance, PTL

(* With verification before every job and no deferred stack, no PRE_SETUP  *)
(* snapshot ever records anything but an empty account: setup and          *)
(* redeployments ask for it first, and it is deleted only after a clean    *)
(* cleanup.                                                                *)
THEOREM InitBaselineIsPristine ==
  ASSUME CleanupSound
  PROVE  Spec => []PreIsPristine
<1>1. IInv => PreIsPristine
  BY DEF IInv, SnapshotsSound
<1> QED BY <1>1, Invariance, PTL

(* With verification, no agent starts on an account that is not at its     *)
(* baseline, except where the flag could not be set or the reset could not *)
(* be started: every other account between two trials is restored or       *)
(* flagged (_reset_scenario_account, _raise_if_contaminated).              *)
THEOREM AgentNeverStartsDirty ==
  ASSUME VerifyEnv
  PROVE  Spec => AgentStartsAtBaseline
<1>1. ASSUME IInv, [Next]_vars
      PROVE  [step = "between" /\ step' = "agent" =>
                \A a \in Accounts \ lapsed : AtBaseline(a)]_vars
  <2>1. ASSUME step = "between", step' = "agent"
        PROVE  tagged = {}
    BY <1>1, <2>1, StepCases
       DEF EnvInit, SetupBegins, ResetBegins, JobBegins, CleanupBegins, SetupDeployed,
           SetupSnapshot, ResetResources, RedeployBegins, AttemptFails, RedeployCompletes,
           Resnapshot, Tag, ResetEnds, TrialRefused, AgentStarts, AgentEnds, TrialSettles,
           JobEnds, CleanupScript, CleanupResources, DropSnapshots, AllDropped, Untag,
           CleanupEnds, Interrupt, Begins, Goes, Ends, vars, IInv, CommandAtStep, Cleaned
  <2> QED BY <1>1, <2>1 DEF IInv, ResetSound
<1> QED BY <1>1, Invariance, PTL DEF Spec, AgentStartsAtBaseline

(* With verified jobs and no deferred stack, the flag goes only from an    *)
(* account at its baseline or empty (_apply_contamination_tags,            *)
(* _clear_contamination_after_cleanup).                                    *)
THEOREM FlagLiftedWhenRestored ==
  ASSUME CleanupSound
  PROVE  Spec => TagLiftedWhenRestored
<1>1. ASSUME IInv, [Next]_vars
      PROVE  [\A a \in tagged \ tagged' : AtBaseline(a) \/ live[a] = Empty]_vars
  <2>1. ASSUME NEW a \in tagged, a \notin tagged'
        PROVE  \E b \in Accounts : Tag(b) \/ Untag(b)
    BY <1>1, <2>1, StepCases
       DEF EnvInit, SetupBegins, ResetBegins, JobBegins, CleanupBegins, SetupDeployed,
           SetupSnapshot, ResetResources, RedeployBegins, AttemptFails, RedeployCompletes,
           Resnapshot, ResetEnds, TrialRefused, AgentStarts, AgentEnds, TrialSettles,
           JobEnds, CleanupScript, CleanupResources, DropSnapshots, AllDropped,
           CleanupEnds, Interrupt, vars, store
  <2>2. ASSUME NEW b \in Accounts, Tag(b), NEW a \in tagged, a \notin tagged'
        PROVE  AtBaseline(a)
    <3>1. a = b /\ outcome[a] = "ok"
      BY <2>2 DEF Tag
    <3> QED BY <1>1, <2>2, <3>1 DEF Tag, IInv, ResetSound
  <2>3. ASSUME NEW b \in Accounts, Untag(b), NEW a \in tagged, a \notin tagged'
        PROVE  live[a] = Empty
    BY <1>1, <2>3 DEF Untag, IInv, SnapshotsSound, TypeOK
  <2> QED BY <2>1, <2>2, <2>3
<1> QED BY <1>1, Invariance, PTL DEF Spec, TagLiftedWhenRestored

-----------------------------------------------------------------------------
(* The reset of an account as one step *)

VARIABLES stacks, extra, result  \* an account while it is reset to a clean deployment

Reset == INSTANCE AccountRestoration WITH ScansAnswer <- TRUE, outcome <- result

(* What a restoration that starts in state s may have made of the account  *)
(* when it reports.                                                        *)
Restored(s, report) ==
  {t \in States : /\ t.stacks = "none" \/ s.stacks # "none"
                  /\ t.extra => s.extra
                  /\ report = "success" => t = Deployed
                  /\ report = "redeploy" => t.stacks # "full"}

(* AccountReset is a restoration (ImplementsRestoration), and this is all  *)
(* that a restoration leaves.                                              *)
THEOREM RestorationLeaves ==
  ASSUME NEW CONSTANT s \in States
  PROVE  Reset!Spec /\ s = [stacks |-> stacks, extra |-> extra]
           => [](result # "none" => [stacks |-> stacks, extra |-> extra] \in Restored(s, result))
<1> DEFINE Within ==
      /\ [stacks |-> stacks, extra |-> extra] \in Restored(s, "none")
      /\ result = "success" => stacks = "full" /\ ~extra
      /\ result = "redeploy" => stacks # "full"
<1> USE DEF States, Restored
<1>1. Reset!Init /\ s = [stacks |-> stacks, extra |-> extra] => Within
  BY DEF Reset!Init
<1>2. Within /\ [Reset!Next]_(Reset!vars) => Within'
  <2> SUFFICES ASSUME Within, [Reset!Next]_(Reset!vars) PROVE Within'
    OBVIOUS
  <2>1. CASE Reset!Restore
    BY <2>1 DEF Reset!Restore
  <2>2. CASE Reset!Succeed \/ Reset!AskForRedeploy \/ Reset!GiveUp
    BY <2>2 DEF Reset!Succeed, Reset!AskForRedeploy, Reset!GiveUp, Reset!Reports
  <2>3. CASE UNCHANGED Reset!vars
    BY <2>3 DEF Reset!vars
  <2> QED BY <2>1, <2>2, <2>3 DEF Reset!Next
<1>3. Within => (result # "none" => [stacks |-> stacks, extra |-> extra] \in Restored(s, result))
  BY DEF Deployed
<1> QED BY <1>1, <1>2, <1>3, PTL DEF Reset!Spec

(* ResetResources takes every one of these outcomes into account, for a    *)
(* baseline that is a clean deployment (ResetManager.reset_account).       *)
THEOREM AfterResetCoversRestoration ==
  ASSUME TypeOK, NEW a \in Accounts, post[a] = Deployed, "leftover" \in Faults
  PROVE  /\ Restored(live[a], "success") \subseteq AfterReset(a, "ok")
         /\ Restored(live[a], "redeploy") \subseteq AfterReset(a, "redeploy")
         /\ Restored(live[a], "failed") \subseteq AfterReset(a, "failed")
<1>1. post[a] # NoSnapshot /\ live[a] \in States
  <2>1. post[a].stacks = "full" /\ NoSnapshot.stacks = "absent"
    BY DEF Deployed, NoSnapshot
  <2> QED BY <2>1 DEF TypeOK
<1>2. Restored(live[a], "success") \subseteq AfterReset(a, "ok")
  BY <1>1 DEF Restored, AfterReset, Remnants, States, Deployed
<1>3. Restored(live[a], "redeploy") \subseteq AfterReset(a, "redeploy")
  BY <1>1 DEF Restored, AfterReset, Remnants, States
<1>4. Restored(live[a], "failed") \subseteq AfterReset(a, "failed")
  BY <1>1 DEF Restored, AfterReset, Remnants, States
<1> QED BY <1>2, <1>3, <1>4
=============================================================================
