------------------------ MODULE EnvironmentLifecycle ------------------------
(***************************************************************************)
(* One scenario's accounts through the commands that work on them: init,   *)
(* setup, reset, cleanup, and jobs whose mutating trials are each followed *)
(* by a reset.                                                             *)
(*                                                                         *)
(* Two snapshots and a tag carry what one command leaves to the next: the  *)
(* PRE_SETUP snapshot says what an empty account looks like, POST_SETUP    *)
(* what a reset restores, and the contamination tag that a reset failed.   *)
(* One command runs at a time; it may be interrupted between any two of    *)
(* its steps, and nothing is undone then.                                  *)
(*                                                                         *)
(* The reset of an account's resources is one step here, with the outcomes *)
(* that AccountReset derives; so is the cleanup of one.  reset.sh and      *)
(* cleanup.sh work on what no snapshot shows, so only their exit matters.  *)
(***************************************************************************)
EXTENDS Naturals

CONSTANTS
  Accounts,    \* the accounts of the scenario
  MaxAttempts, \* _REDEPLOY_MAX_ATTEMPTS
  VerifyEnv,   \* jobs verify the environment (not --no-verify-env)
  Faults       \* "interrupt", "store", "tag", "create", "leftover", "pinned"

ASSUME LifecycleAssumption ==
  /\ MaxAttempts \in Nat \ {0}
  /\ VerifyEnv \in BOOLEAN
  /\ Faults \subseteq {"interrupt", "store", "tag", "create", "leftover", "pinned"}

(* The state of an account: the scenario's stacks, and whether there is    *)
(* anything that is neither theirs nor was there in the beginning.         *)
States == [stacks : {"none", "part", "full"}, extra : BOOLEAN]
Empty == [stacks |-> "none", extra |-> FALSE]
Deployed == [stacks |-> "full", extra |-> FALSE]
NoSnapshot == [stacks |-> "absent", extra |-> FALSE]

VARIABLES
  live,     \* the state of each account
  pre,      \* its PRE_SETUP snapshot: "pristine", or "spoiled" by anything else
  post,     \* its POST_SETUP snapshot: the state it recorded
  tagged,   \* the accounts with the contamination tag
  cmd,      \* the running command
  step,     \* where it is
  script,   \* the phase's script succeeded
  outcome,  \* the ResetResult of each account
  todo,     \* the accounts the current loop has left
  attempt,  \* the redeploy attempt
  clear,    \* every tag that had to be cleared was
  verdict,  \* how the last command ended
  lapsed    \* accounts a settled trial left without reset or tag, since the last verification

store == <<live, pre, post, tagged>>
run == <<script, outcome, todo, attempt, clear>>
vars == <<live, pre, post, tagged, cmd, step, script, outcome, todo, attempt, clear,
          verdict, lapsed>>

Init ==
  /\ live = [a \in Accounts |-> Empty]
  /\ pre = [a \in Accounts |-> "none"]
  /\ post = [a \in Accounts |-> NoSnapshot]
  /\ tagged = {}
  /\ cmd = "none"
  /\ step = "idle"
  /\ script = TRUE
  /\ outcome = [a \in Accounts |-> "none"]
  /\ todo = {}
  /\ attempt = 1
  /\ clear = TRUE
  /\ verdict = "none"
  /\ lapsed = {}

(* As verifying and resetting see it: find_new_resources looks for what    *)
(* the baseline has not, and misses nothing beside the stacks.             *)
AtBaseline(a) == live[a].stacks = post[a].stacks /\ (live[a].extra => post[a].extra)

(* What reverting and deleting some of an account's resources may leave,   *)
(* and what deleting alone may.                                            *)
Remnants(a) ==
  {s \in States : /\ s.stacks = "none" \/ live[a].stacks # "none"
                  /\ s.extra => live[a].extra}
Leavings(a) == {s \in Remnants(a) : s.stacks = "full" => live[a].stacks = "full"}

Begins(command, first) == cmd' = command /\ step' = first /\ verdict' = "none"

(* What only the running call knows is gone when it returns. *)
Returns ==
  /\ script' = TRUE
  /\ outcome' = [a \in Accounts |-> "none"]
  /\ todo' = {}
  /\ attempt' = 1
  /\ clear' = TRUE
Ends(how) == cmd' = "none" /\ step' = "idle" /\ verdict' = how /\ lapsed' = {} /\ Returns
Goes(where) == step' = where /\ UNCHANGED <<cmd, verdict>>

(* The accounts of a concurrent fan-out that succeed. *)
Succeeding == IF "store" \in Faults THEN SUBSET Accounts ELSE {Accounts}

-----------------------------------------------------------------------------
(* env init: an existing PRE_SETUP snapshot is never taken again *)

EnvInit ==
  /\ cmd = "none"
  /\ \E captured \in Succeeding :
       pre' = [a \in Accounts |->
                 IF pre[a] # "none" \/ a \notin captured THEN pre[a]
                 ELSE IF live[a] = Empty THEN "pristine" ELSE "spoiled"]
  /\ verdict' = "none"
  /\ UNCHANGED <<live, post, tagged, cmd, step, run, lapsed>>

-----------------------------------------------------------------------------
(* deploy.sh and the snapshot after it *)

Initialised == \A a \in Accounts : pre[a] # "none"

GateWithoutInit == tagged = {}  \* mutant of Gate: setup does not ask for the init snapshot

Gate == tagged = {} /\ Initialised

(* Deploying is idempotent: it leaves a complete deployment as it is, and  *)
(* never touches what is not the scenario's.                               *)
DeployBegins ==
  live' = [a \in Accounts |->
             IF live[a].stacks = "full" THEN live[a]
             ELSE [stacks |-> "part", extra |-> live[a].extra]]
DeployCompletes ==
  live' = [a \in Accounts |-> [stacks |-> "full", extra |-> live[a].extra]]

TakeBaseline(captured) ==
  post' = [a \in Accounts |-> IF a \in captured THEN live[a] ELSE post[a]]

SetupBegins ==
  /\ cmd = "none"
  /\ \/ Gate /\ DeployBegins /\ Begins("setup", "deploy")
     \/ verdict' = "failed" /\ UNCHANGED <<live, cmd, step>>
  /\ UNCHANGED <<pre, post, tagged, run, lapsed>>

SetupDeployed ==
  /\ cmd = "setup"
  /\ step = "deploy"
  /\ \/ DeployCompletes /\ Goes("snapshot") /\ UNCHANGED <<run, lapsed>>
     \/ Ends("failed") /\ UNCHANGED live
  /\ UNCHANGED <<pre, post, tagged>>

SetupSnapshotUnchecked ==  \* mutant of SetupSnapshot: a failed snapshot does not fail the setup
  /\ cmd = "setup"
  /\ step = "snapshot"
  /\ \E captured \in Succeeding : TakeBaseline(captured) /\ Ends("set up")
  /\ UNCHANGED <<live, pre, tagged>>

SetupSnapshot ==
  /\ cmd = "setup"
  /\ step = "snapshot"
  /\ \E captured \in Succeeding :
       /\ TakeBaseline(captured)
       /\ Ends(IF captured = Accounts THEN "set up" ELSE "failed")
  /\ UNCHANGED <<live, pre, tagged>>

-----------------------------------------------------------------------------
(* Reset: ScenarioTrial.run(RESET), alone or after a trial *)

ResetScript == script' \in BOOLEAN /\ clear' = TRUE /\ attempt' = 1 /\ todo' = Accounts

ResetBegins ==
  /\ cmd = "none"
  /\ Begins("reset", "resources")
  /\ ResetScript
  /\ UNCHANGED <<store, outcome, lapsed>>

(* What ResetManager.reset_account makes of an account: nothing without a  *)
(* baseline.  It restores what is there and creates nothing; with          *)
(* "leftover", a new resource may survive a reset that deleted a stack,    *)
(* which verifies nothing.                                                 *)
AfterReset(a, result) ==
  LET restorable == post[a] # NoSnapshot
  IN CASE result = "ok" ->
            {s \in Remnants(a) : /\ restorable
                                 /\ s.stacks = post[a].stacks
                                 /\ s.extra => post[a].extra}
       [] result = "redeploy" ->
            {s \in Remnants(a) : /\ restorable
                                 /\ s.stacks # "full"
                                 /\ s.extra =>
                                      post[a].extra \/ "leftover" \in Faults}
       [] result = "failed" -> IF restorable THEN Remnants(a) ELSE {live[a]}

ResetResources ==
  /\ step = "resources"
  /\ outcome' \in [Accounts -> {"ok", "redeploy", "failed"}]
  /\ live' \in [Accounts -> States]
  /\ \A a \in Accounts : live'[a] \in AfterReset(a, outcome'[a])
  /\ Goes(IF \E a \in Accounts : outcome'[a] = "redeploy" THEN "redeploy" ELSE "tags")
  /\ UNCHANGED <<pre, post, tagged, script, todo, attempt, clear, lapsed>>

(* _run_reset turns only the results that needed the redeployment.         *)
TurnEverySuccess(result) ==  \* mutant of Turn: a failed redeployment leaves the results as they are
  outcome' = [a \in Accounts |-> IF outcome[a] = "redeploy" THEN "ok" ELSE outcome[a]]

Turn(result) ==
  outcome' = [a \in Accounts |-> IF outcome[a] = "redeploy" THEN result ELSE outcome[a]]

RedeployBegins ==
  /\ step = "redeploy"
  /\ Initialised
  /\ DeployBegins
  /\ Goes("redeploying")
  /\ UNCHANGED <<pre, post, tagged, run, lapsed>>

AttemptFailsForever ==  \* mutant of AttemptFails: no last attempt
  /\ step \in {"redeploy", "redeploying"}
  /\ attempt' = attempt
  /\ Goes("redeploy")
  /\ UNCHANGED <<store, script, outcome, todo, clear, lapsed>>

AttemptFails ==
  /\ step \in {"redeploy", "redeploying"}
  /\ \/ /\ attempt < MaxAttempts
        /\ attempt' = attempt + 1
        /\ Goes("redeploy")
        /\ UNCHANGED outcome
     \/ /\ attempt = MaxAttempts
        /\ Turn("failed")
        /\ Goes("tags")
        /\ UNCHANGED attempt
  /\ UNCHANGED <<store, script, todo, clear, lapsed>>

RedeployCompletes ==
  /\ step = "redeploying"
  /\ DeployCompletes
  /\ Goes("resnapshot")
  /\ UNCHANGED <<pre, post, tagged, run, lapsed>>

(* The new baseline is that of every account of the scenario.              *)
Resnapshot ==
  /\ step = "resnapshot"
  /\ \E captured \in Succeeding :
       TakeBaseline(captured) /\ Turn(IF captured = Accounts THEN "ok" ELSE "failed")
  /\ Goes("tags")
  /\ UNCHANGED <<live, pre, tagged, script, todo, attempt, clear, lapsed>>

(* One account's tag: a failure to set it is logged, a failure to clear it *)
(* fails the reset.                                                        *)
Tag(a) ==
  /\ step = "tags"
  /\ a \in todo
  /\ todo' = todo \ {a}
  /\ \/ /\ outcome[a] = "ok"
        /\ tagged' = tagged \ {a}
        /\ UNCHANGED <<clear, lapsed>>
     \/ /\ outcome[a] = "ok"
        /\ "tag" \in Faults
        /\ clear' = FALSE
        /\ UNCHANGED <<tagged, lapsed>>
     \/ /\ outcome[a] # "ok"
        /\ tagged' = tagged \cup {a}
        /\ UNCHANGED <<clear, lapsed>>
     \/ /\ outcome[a] # "ok"
        /\ "tag" \in Faults
        /\ lapsed' = lapsed \cup {a}
        /\ UNCHANGED <<tagged, clear>>
  /\ UNCHANGED <<live, pre, post, cmd, step, script, outcome, attempt, verdict>>

(* The reset of a benchmark trial is only logged. *)
ResetEnds ==
  /\ step = "tags"
  /\ todo = {}
  /\ \/ /\ cmd = "reset"
        /\ Ends(IF /\ script
                   /\ clear
                   /\ \A a \in Accounts : outcome[a] = "ok"
                THEN "reset" ELSE "failed")
     \/ cmd = "job" /\ Goes("between") /\ Returns /\ UNCHANGED lapsed
  /\ UNCHANGED store

-----------------------------------------------------------------------------
(* A job: verified once, then mutating trials one after the other *)

JobBegins ==
  /\ cmd = "none"
  /\ \/ /\ VerifyEnv => \A a \in Accounts : AtBaseline(a)
        /\ Begins("job", "between")
        /\ lapsed' = {}
     \/ verdict' = "failed" /\ UNCHANGED <<cmd, step, lapsed>>
  /\ UNCHANGED <<store, run>>

(* A flagged account is refused to the trial, whose run() settles all the  *)
(* same, and is therefore followed by a reset.                             *)
TrialRefused ==
  /\ step = "between"
  /\ VerifyEnv /\ tagged # {}
  /\ Goes("settled")
  /\ UNCHANGED <<store, run, lapsed>>

AgentStarts ==
  /\ step = "between"
  /\ VerifyEnv => tagged = {}
  /\ live' \in [Accounts -> States]
  /\ Goes("agent")
  /\ UNCHANGED <<pre, post, tagged, run, lapsed>>

AgentEnds ==
  /\ step = "agent"
  /\ Goes("settled")
  /\ UNCHANGED <<store, run, lapsed>>

(* The reset after the trial; when the ScenarioTrial cannot be created,    *)
(* there is none.                                                          *)
TrialSettles ==
  /\ step = "settled"
  /\ \/ ResetScript /\ Goes("resources") /\ UNCHANGED <<outcome, lapsed>>
     \/ /\ "create" \in Faults
        /\ Goes("between")
        /\ lapsed' = Accounts
        /\ UNCHANGED run
  /\ UNCHANGED store

JobEnds ==
  /\ step = "between"
  /\ Ends("done")
  /\ UNCHANGED store

-----------------------------------------------------------------------------
(* Cleanup *)

CleanupBegins ==
  /\ cmd = "none"
  /\ Begins("cleanup", "sweep")
  /\ UNCHANGED <<store, run, lapsed>>

(* The residual sweep and cleanup.sh, neither of which stops the cleanup.  *)
CleanupScript ==
  /\ step = "sweep"
  /\ live' \in [Accounts -> States]
  /\ \A a \in Accounts : live'[a] \in Leavings(a)
  /\ script' \in BOOLEAN
  /\ Goes("clean")
  /\ UNCHANGED <<pre, post, tagged, outcome, todo, attempt, clear, lapsed>>

CleanupAnyway(clean) ==  \* mutant of Cleaned: accounts that are not clean do not fail it
  IF script THEN Goes("drop") /\ todo' = Accounts /\ UNCHANGED <<script, outcome, attempt, clear, lapsed>>
  ELSE Ends("failed")

Cleaned(clean) ==
  IF clean = Accounts /\ script
  THEN Goes("drop") /\ todo' = Accounts /\ UNCHANGED <<script, outcome, attempt, clear, lapsed>>
  ELSE Ends("failed")

(* A stack that CloudFormation cannot delete yet is deferred, which does   *)
(* not count as a failure.                                                 *)
Deferred(s) == "pinned" \in Faults /\ s = [stacks |-> "part", extra |-> FALSE]

(* What passes as clean: what PRE_SETUP recorded is neither swept nor      *)
(* reported as orphaned.                                                   *)
CleanStates(a) ==
  {s \in Leavings(a) : \/ s = Empty \/ Deferred(s)
                       \/ pre[a] = "spoiled" /\ s.stacks = "none"}

CleanupResources ==
  /\ step = "clean"
  /\ live' \in [Accounts -> States]
  /\ \E clean \in SUBSET Accounts :
       /\ \A a \in Accounts : live'[a] \in IF a \in clean THEN CleanStates(a) ELSE Leavings(a)
       /\ Cleaned(clean)
  /\ UNCHANGED <<pre, post, tagged>>

(* Best effort: a snapshot whose deletion fails stays. *)
DropSnapshots(a) ==
  /\ step = "drop"
  /\ a \in todo
  /\ \E kept \in IF "store" \in Faults THEN SUBSET {"pre", "post"} ELSE {{}} :
       /\ pre' = IF "pre" \in kept THEN pre ELSE [pre EXCEPT ![a] = "none"]
       /\ post' = IF "post" \in kept THEN post ELSE [post EXCEPT ![a] = NoSnapshot]
  /\ todo' = todo \ {a}
  /\ UNCHANGED <<live, tagged, cmd, step, script, outcome, attempt, clear, verdict, lapsed>>

AllDropped ==
  /\ step = "drop"
  /\ todo = {}
  /\ todo' = Accounts
  /\ Goes("untag")
  /\ UNCHANGED <<store, script, outcome, attempt, clear, lapsed>>

Untag(a) ==
  /\ step = "untag"
  /\ a \in todo
  /\ todo' = todo \ {a}
  /\ \/ tagged' = tagged \ {a}
     \/ "tag" \in Faults /\ UNCHANGED tagged
  /\ UNCHANGED <<live, pre, post, cmd, step, script, outcome, attempt, clear, verdict, lapsed>>

CleanupEnds ==
  /\ step = "untag"
  /\ todo = {}
  /\ Ends("cleaned")
  /\ UNCHANGED store

-----------------------------------------------------------------------------
(* Ctrl-C: whatever runs stops where it is *)

Interrupt ==
  /\ "interrupt" \in Faults
  /\ cmd # "none"
  /\ Ends("cancelled")
  /\ UNCHANGED store

(* What the running command does on its own: a job goes on for as long as  *)
(* it has trials, so ending it is its own choice too.                      *)
SetupStep == SetupDeployed \/ SetupSnapshot
ResetStep ==
  \/ ResetResources \/ RedeployBegins \/ AttemptFails \/ RedeployCompletes
  \/ Resnapshot \/ (\E a \in Accounts : Tag(a)) \/ ResetEnds
JobStep == TrialRefused \/ AgentStarts \/ AgentEnds \/ TrialSettles \/ JobEnds
CleanupStep ==
  \/ CleanupScript \/ CleanupResources \/ (\E a \in Accounts : DropSnapshots(a))
  \/ AllDropped \/ (\E a \in Accounts : Untag(a)) \/ CleanupEnds

Next ==
  \/ EnvInit \/ SetupBegins \/ ResetBegins \/ JobBegins \/ CleanupBegins
  \/ SetupStep \/ ResetStep \/ JobStep \/ CleanupStep
  \/ Interrupt

(* Each step of a command ends: every call it waits for has a timeout.  No *)
(* command has to be given, and no agent or deployment has to succeed.     *)
Fairness == WF_vars(SetupStep) /\ WF_vars(ResetStep) /\ WF_vars(CleanupStep)

Spec == Init /\ [][Next]_vars /\ Fairness

-----------------------------------------------------------------------------
TypeOK ==
  /\ live \in [Accounts -> States]
  /\ pre \in [Accounts -> {"none", "pristine", "spoiled"}]
  /\ post \in [Accounts -> States \cup {NoSnapshot}]
  /\ tagged \subseteq Accounts
  /\ cmd \in {"none", "setup", "reset", "job", "cleanup"}
  /\ step \in {"idle", "deploy", "snapshot", "resources", "redeploy", "redeploying",
               "resnapshot", "tags", "between", "agent", "settled", "sweep", "clean",
               "drop", "untag"}
  /\ script \in BOOLEAN
  /\ outcome \in [Accounts -> {"none", "ok", "redeploy", "failed"}]
  /\ todo \subseteq Accounts
  /\ attempt \in 1 .. MaxAttempts
  /\ clear \in BOOLEAN
  /\ verdict \in {"none", "set up", "reset", "done", "cleaned", "failed", "cancelled"}
  /\ lapsed \subseteq Accounts

(* A PRE_SETUP snapshot only ever records an empty account, whatever is    *)
(* interrupted and whichever snapshot deletions fail: it is what cleanup   *)
(* subtracts, so anything else in it would survive every cleanup           *)
(* (_validate_init_snapshot_exists, snapshot_scenarios).                   *)
PreIsPristine == \A a \in Accounts : pre[a] # "spoiled"

(* The agent of a mutating trial never starts on an account that is not at *)
(* its baseline: the verification before the job, the reset after each     *)
(* trial and the flag of a failed one see to it, unless a flag could not   *)
(* be set or the reset could not be started (aws_trial._prepare).          *)
AgentStartsAtBaseline ==
  [][step = "between" /\ step' = "agent" => \A a \in Accounts \ lapsed : AtBaseline(a)]_vars

(* The contamination flag goes only from an account that was brought back  *)
(* to its baseline or emptied (_apply_contamination_tags, _run_cleanup).   *)
TagLiftedWhenRestored ==
  [][\A a \in tagged \ tagged' : AtBaseline(a) \/ live[a] = Empty]_vars

(* What a command that succeeded reports is so: after a setup and a reset  *)
(* the accounts are at their baseline, after the reset none is flagged,    *)
(* and after a cleanup they are empty, whatever happened to other accounts *)
(* in the meantime (_run_snapshot, _run_reset, _run_cleanup).              *)
ReportedSuccessHolds ==
  /\ verdict \in {"set up", "reset"} => \A a \in Accounts : AtBaseline(a)
  /\ verdict = "reset" => tagged = {}
  /\ verdict = "cleaned" => \A a \in Accounts : live[a] = Empty

(* Setup, reset and cleanup end, however often deploying fails: a reset    *)
(* deploys at most MaxAttempts times (_redeploy_with_retry).               *)
CommandEnds == cmd \in {"setup", "reset", "cleanup"} ~> cmd = "none"

(* docs/getting-started.md, of the reset after each trial: it "resets the  *)
(* environment to the post-setup baseline so the next trial starts clean". *)
(* With no call failing, setup only ever leaves complete deployments.      *)
ResetRestoresSetup == verdict = "reset" => \A a \in Accounts : live[a] = Deployed
=============================================================================
