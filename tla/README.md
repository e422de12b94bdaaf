# TLA+ models of aws-bench

aws-bench runs AI agents on tasks against real AWS accounts. A *scenario* is an
environment deployed into one account (or a few); *tasks* run on it; after a task
that may change the account the account is brought back to its baseline, or it is
flagged contaminated and refused until it has been cleaned. The worth of a score
rests on that loop: a trial must start from the baseline it was designed for,
nobody may touch the account while it runs, and an account that could not be
restored must not be used unknowingly. These modules are about that loop, and about
how the accounts it runs on are made, emptied and closed.

All paths below are relative to `src/`; those that do not begin with `aws_bench/` or
`docs/` are relative to the package, and most of the managers are in
`aws_bench/resource_management/`. Harbor (the Trial, Job and TrialQueue base
classes), asyncio, Docker and AWS are not part of the repository; they are modelled
by what the code relies on and marked external where a definition stands for them.

## 1. Inventory

| Component | State it keeps | Operations | Hard behaviour |
|---|---|---|---|
| Trial queue and admission gate (`aws_bench/task/queue.py`) | per scenario `_readers`, `_writer_held` under an `asyncio.Condition`; a semaphore of `n_concurrent` | admit, run, retry, release | interleaving of trials, cancellation at any await, lost wake-ups, starvation of mutating trials |
| Benchmark trial (`aws_bench/task/aws_trial.py`) | `_agent_container_started`, `_aws_post_invoke_done`, staged credentials file, overlaid environments | prepare (contamination check, pre-invoke), agent, verifier, post-invoke, post-trial reset | cancellation in every stage, once-only post-invoke |
| Scenario trial (`aws_bench/scenario/trial.py`) | result, exception, container, account mapping | `run(DEPLOY / VERIFY / RESET / CLEANUP)`, redeploy, snapshot, contamination flags | one step of several failing, several accounts with different outcomes, order of flag and baseline updates |
| Scenario container (`aws_bench/scenario/container.py`) | `_started`, credentials directory, refresh task | build, start, exec, stop, refresh | failure half way through start, refresh racing stop, time-outs that leave the script running |
| Scenario queue and job (`aws_bench/scenario/queue.py`, `job.py`) | semaphore, per-scenario tasks, results | fan-out, retries, aggregation | cancellation of some tasks while others finish, records of several attempts in one directory |
| Reset manager and stack restorer (`reset/`) | none of its own; reads a snapshot, changes the account | diff, delete, restore, delete for redeploy, final verify | regions concurrently, a region failing, deferred globals, best-effort deletes |
| Verify manager (`verify/`) | none | compare an account with a snapshot | early exits, merging regions |
| Snapshot manager and S3 store (`snapshot/`, `storage/`) | PRE_SETUP and POST_SETUP baselines, ETags | capture, save, load, delete | lost updates, overwriting a clean baseline |
| Cleanup manager (`cleanup/manager.py`, `account_scanner.py`) | summary, deferred-resource scope | sweeps before and after the stacks in every region, account-wide sweep, orphan scan, verdict | ordering across regions, partial scans on either side of a destructive diff, a verdict from incomplete evidence |
| Stack deleter (`cleanup/stack_deleter.py`) | results, rounds | recovery ladder, export retry, infrastructure gate | deletions that outlive their polls, refused exporters, an interrupt captured as a result |
| Resource sweeper, cleaner, deleter (`resource_sweeper.py`, `cleanup/handlers/`, `ccapi/deleter.py`) | tokens, remaining, failed | prepare, handlers, two passes per level through Cloud Control | dependencies between resources, requests that outlive a time-out, handlers that do not wait |
| Fast scan (`fastscan/`) | listers, a Lambda deployment | scan regions | a type fed by several listers, one of which fails |
| Provisioning (`scenario/provisioning.py`) | results of each (scenario, tag) pair | create accounts, role, quotas, PRE_SETUP baseline, summary, wait for quotas | eight steps per pair, each failing on its own; killed between any two |
| Account manager, Organizations (`account_management/`) | the OU, its accounts and their tags | find or create, move, tag, terminate, mark and clear | a list read before a prompt, moves and closes that fail half way, AWS finishing what was abandoned |
| Quota manager (`quota_manager.py`) | none | request, verify | granted late or never |
| Credentials (`utils/credentials_provider.py`, `utils/bedrock_credentials.py`) | cached sessions per role and account | assume, refresh | expiry against refresh |
| Shutdown (`utils/concurrent.py`) | process-global event | `OperationCancelled`, executors | threads that outlive their awaiter |
| CLI, display, metrics, datasets, agents, logging | configuration, console, files | parse, render, aggregate | mostly sequential I/O |

What makes each correct: of the queue, that a mutating trial has its account alone until its
reset is over and no hold leaks; of the reset, that success means baseline and that a failure is
reported; of the deletion, that what is reported gone is gone and the bootstrap role outlives
what needs it; of the sweep, that what is not reported as a failure is gone; of the cleanup, that
it takes nothing the account or the scenario needs and calls an account clean only when it is; of
the environment commands, that no snapshot records a dirty account, that a reported success is
true and that a dirty account is flagged; of the job and its containers, that nothing of an old
attempt works beside a new one and that the job ends; of provisioning and termination, that a
pair has one account, that success means it is ready, and that only what the operator agreed to
is taken away.

How they interact: the CLI builds a benchmark job whose queue admits trials; each
mutating trial ends in `ScenarioTrial.run(RESET)`, which runs `reset.sh` in a scenario
container, then the reset manager (verify, delete, restore), possibly a redeploy and a
new snapshot, then writes or clears the contamination tag through the account manager.
`env setup / verify / reset / cleanup` run the same `ScenarioTrial` through the scenario
job. `env init` and `env terminate` make and unmake the accounts. Reset and cleanup share the
stack deleter and the resource sweeper. The snapshot store is the only state shared between
processes besides the accounts and their tags.

## 2. Modules

| Module | Models | State | Actions |
|---|---|---|---|
| `AccountSharing` | what a benchmark run promises about an account (abstract) | `users` of each account | join as a reader, take alone, leave |
| `AccountRestoration` | what the commands count on when they reset an account (abstract) | `stacks` as a whole, `extra` = anything new, `outcome` | restore, and one report per result |
| `StackTeardown` | what the cleanup of a region is told about its stacks (abstract) | `there` = the stacks that exist, `report` of each, `over` | a stack disappears or is judged; the teardown finishes or is cancelled |
| `TrialAdmission` | `task/queue.py` | `readers`, `writers` = the gate's `_readers`, `_writer_held`; `free` = the semaphore; `pc` = the await each trial's task is suspended in; `attempt`, `result`; `account` = what the last mutating attempt left | `_acquire` / `_release` (`EnterGate`, `Park`, `Leave`), the slot, the retry loop, the post-trial reset as one step, cancellation at every await |
| `AccountReset` | `reset/manager.py` and `stack_restorer.py`, with `verify/` as the reset uses it | `stack` = how each stack differs from the baseline, `live` = new resources; per region the locals of `_reset_region` (`found`, `deferred`, `todo`, `gone`, `bad`) and the phase it is in; `outcome` | one action per phase of a region (`Diagnose` … `Verify`), one per stack deleted or restored, then `RegionsDone`, `DeleteGlobals`, `Recheck` for the account; `Shutdown` |
| `StackDeletion` | `cleanup/stack_deleter.py` | `cfn` = the stacks in CloudFormation, `held` = what keeps their resources, `pc` = each task's place in the recovery ladder, `result`, `batch` and `phase` of `delete_all_stacks` | one per call and per poll of the ladder, one per transition between the rounds (environment, retry of the refused, infrastructure); CloudFormation, the owners of network interfaces and the user move on their own |
| `ResourceSweep` | `resource_sweeper.py`, `cleanup/handlers/`, `ccapi/deleter.py` | `live`, `deleting` and the `verdict` of a request in the cloud; `todo` and `waiting` of the phase; `queue`, `pass`, `remaining`, `tokens`, `failed` = the locals of `_execute_batches`; `failures` = the result | the prepare step, one per way a handler answers, `Filter`, submit, poll and time-out of each pass; the cloud finishes or refuses deletions on its own |
| `AccountCleanup` | `cleanup/manager.py`, `account_scanner.py`, the scans they decide by | `live`, the resources and among them the `stacks`, which the scans see too; the snapshots `pre`, `post` as types, identifiers and failed types (`down`, the listers that failed in them, is kept for the properties only); per region its place in `_cleanup_region_in_phases` and what its scan `found`; the registry `deferred`, the stacks reported as `postponed`, `failed`, `orphans`, `blind` | init, setup and the agent's work before it; scan and sweep of each phase per region, `DeleteStacks`, the account-wide sweep, the orphan scan, `Verdict`, `Shutdown` |
| `EnvironmentLifecycle` | `scenario/trial.py`, the reset line of `task/aws_trial.py`, `SnapshotManager.snapshot_scenarios`, the contamination tag | `live`, `pre`, `post` (account and snapshots), `tagged`; the running command with its `step`, `outcome` per account, `attempt`, the accounts left in a loop (`todo`), `clear`, `script`; `verdict`; `lapsed` = accounts a job left dirty because no flag could be set or no reset started | one per step of init, setup, reset (also after a trial), job and cleanup; `Interrupt` between any two |
| `ScenarioJob` | `scenario/queue.py`, `job.py`, `container.py`, the script part of `trial.py` | `pc`, `attempt`, `redeploy`, `exc`, `result` of each task; `started` of its container object; `boxes`, `scripts` on the machine; `disk` = the attempt whose `result.json` is in the trial's directory, with the histories `unwritten`, `unremoved` of the file system's refusals; `launching`, `detached` = what goes on without its caller | one per await of an attempt, from the slot to `docker rm`; time-outs, failures of each docker call, of writing a record and of removing a directory, `CtrlC` |
| `Provisioning` | `scenario/provisioning.py`, `account_management/manager.py` and `organizations.py`, the terminate command of `cli/env.py` | the OU, and each account's `status`, place, `tag`, roles, baseline and quotas in AWS; `phase` of init and `at`, `account`, `emails`, `submit` of each pair; `term`, `chosen`, `todo`, `moved` of terminate | one per AWS call of either command; AWS opens accounts and grants quotas on its own; either command is killed anywhere |
| `MC…` | instances for TLC | | |
| `…Proofs` | theorems about the detailed modules | | |

The modules meet at outcomes rather than by instantiation. `TrialAdmission` takes a trial's run
and its reset as one step each and only says when they happen. `AccountReset` derives the
outcomes of one reset, and `AfterReset` in `EnvironmentLifecycle` lists them: a reset restores
what is there, creates nothing, deletes nothing of the baseline, and may leave a new resource
in a region whose stack it deleted. "At its baseline" means there what the comparators mean
(`AtBaseline`): the stacks are as recorded and nothing is new; what the baseline had beside its
stacks and is gone is not missed. `AccountRestoration` states this and is the joint: `AccountReset`
refines it, and `EnvironmentLifecycle` is shown to expect all it allows. In the same way
`StackTeardown` is the joint of the deletion of stacks: `StackDeletion` refines it, and `DeleteStacks`
of `AccountCleanup` is shown to choose among all it may come to (each stack gone, failed and gone or
left, or deferred; the bootstrap stack kept without a report). Its deferred stack is what
`EnvironmentLifecycle` knows as the fault `"pinned"`;
`ResourceSweep` derives what `Sweeps` of `AccountCleanup` and the deletions of `AccountReset`
choose from (gone, reported, deferred, or silently left). `ScenarioJob` takes the resource
management of an attempt as one step whose outcomes `EnvironmentLifecycle` derives.
`TrialAdmission` refines `AccountSharing` with `users[s] = Holders(s)`. `AccountReset` refines
`AccountRestoration` with `stacks` "full" if every stack is at its baseline, else "none" if none
is there, else "part", and `extra` if a new resource is left that no handler may defer.
`StackDeletion` refines `StackTeardown` with `there` = the stacks whose `cfn` is not "none".

What is atomic: in the asyncio code a task is interrupted only at an `await`, so an action is
what a task does between two of them. Calls that run in threads (`asyncio.to_thread`, executors)
are awaited by the task that made them and touch no shared Python state in the modelled code, so
their effect is one step, at the moment AWS performs it; where the effect and its observation
differ (CloudFormation and Cloud Control deletions and their polls, account creation) they are
separate actions. In `ScenarioJob` a thread or docker client may also outlive its cancelled
awaiter: a `docker run` (`launching`), a `stop` (`detached`), a script whose `docker exec` timed out
(`late`).

`ScenarioJob` models Ctrl-C as `asyncio.run` treats it: every task that is alive is cancelled
once, the one behind `asyncio.shield` included, and the loop runs on until all have ended. A
second Ctrl-C, which kills the process, is not modelled.

Constants named `Faults` say which calls may fail; a run states its own set. Definitions marked
"mutant of" are altered forms of a definition, never used by a specification; they record which
mistake in the code a property would notice.

## 3. Runs

| Run | Instance | Shows | Distinct states |
|---|---|---|---|
| `admission` | 2 mutating trials and 2 readers on one scenario, 2 slots, 1 retry | `GateCountsHolders`, `ParkedOnlyWhileRefused`, `ResetBeforeNextAttempt`, the refinement `SharingSpec`, `EveryTrialEnds` | 101,210 |
| `reset` | 2 regions, one with two stacks, each sound or with one of 4 kinds of damage, and a new resource that needs a new role to be deleted, the other without stacks and with a new resource that may be deferred; reads (of a region, of one stack's status, template or drift), lookups and deletions fail, shutdown anywhere | `SuccessIsBaseline`, the refinement `RestorationSpec`, `GlobalsGone`, `NoAbsentStackOverlooked`, `BaselineStacksStay`, `GlobalsOutliveDependents`, `ResetEnds` | 860,648 |
| `deletion` | an application importing from a network stack, an IPAM stack, CDKToolkit; every combination of what holds their resources, 2 at a time; calls fail, polls hit deadlines, forced deletions fail, tasks raise, interrupts | the refinement `TeardownSpec`, `RefusedBehindImporter`, `ShutdownEndsRounds`, `BootstrapOutlivesEnv`, `DeferredIsLeftAlone`, `DeletionEnds` | 588,420 |
| `sweep` | 8 resources, one for each way of being deleted, of which one can go only after another of its level, this one after a cluster, and two work with a role; another operation may be at one of them; requests, status calls, reads and deletions fail, polls time out; shutdown | `SilenceMeansGone`, `TwoPassesSuffice`, `UsersGoFirst`, `SweepEnds` | 368,596 |
| `cleanup` | 2 regions: a default network, and the scenario's stack with a network and an account-wide role; the bootstrap stack, a bucket and a role of the bootstrap that its deletion leaves, and a network of the agent that is a namesake of the default one; two listers of stacks that name the same, two of networks of which one names only some; listers, regions, deletions and stacks fail or are deferred, deleted stacks leave resources behind, shutdown | `DefaultsOutliveSweeps`, `ScenarioOutlivesPresweep`, `CleanMeansEmpty`, `GlobalsWaitForRegions`, `CleanupEnds` | 525,032 |
| `lifecycle` | 2 accounts of a scenario, 2 redeploy attempts, verified jobs; failing snapshots, tags and trial creation, leftovers, interrupts | `PreIsPristine`, `ReportedSuccessHolds`, `AgentStartsAtBaseline`, `TagLiftedWhenRestored`, `CommandEnds` | 133,281 |
| `job` | 2 scenarios in turn, deploy or reset, 1 retry, 1 redeploy; `docker run`, `rm` and `stop` fail, so do the write of a record and the removal of a directory, scripts time out, Ctrl-C | `OverlapOnlyAfterTimeout`, `RecordIsLastAttempts`, `QuietWhenDone`, `JobEventuallyEnds` | 739,610 |
| `provisioning` | 2 scenarios, one with a quota increase, room for 3 accounts; 2 inits and 1 terminate, of everything or with a filter; 1 failing call or kill | `OneAccountPerPair`, `SuccessMeansReady`, `OnlyConfirmedLeave`, `InitEnds` | 960,705 |
| `reset_revert`, `lifecycle_dirty_baseline`, `sweep_role_first`, `job_shared_name` | small | the counterexamples of section 6 | |

Bounds. Two of each actor are enough for every interaction the modelled code has: the gate
tells readers from one writer and its waiters from each other only by mode, so two of each mode
give reader against writer, writer against writer and a waiter overtaken; with two slots the
semaphore is both contended and not. One retry gives a first, a last and a repeated attempt.
Two regions give every order of one region's phases against the other's, and the account-wide
step after both; in `reset` the two stacks share a region, so that the check of one can fail, or be
cut short by the other, while the second is damaged. The import pair gives the exporter refused before, during and after its
importer's deletion; chains of imports are excluded from `OneRetryIsEnough` by assumption, as the
code's own note does (`stack_deleter.py`, the NOTE above the retry). In the sweep a chain of two
resources in one level is what two passes are for, and the first of them waits for a third that a
handler deletes, because trouble there is passed on along the chain; `MaxStruck` = 2 lets a fault strike each of two
resources that depend on each other. Two accounts give every mix of outcomes in one reset; a third
redeployment (the code allows three, `_REDEPLOY_MAX_ATTEMPTS`) differs from the second in nothing.
In `job` the trials follow each other in one slot, which gives a slot handed on and the first
trial's remains under the second; their containers have names of their own, so trials side by side
meet only in the semaphore. In `provisioning` three accounts are one more than the pairs, so that
a lost account, a replaced one and the account limit all occur; the second init finds what the
first one or the terminate left; the bound of one fault is on failing calls and kills together,
not on time-outs and slow answers, which are free. In `cleanup` one lister of networks
fails: in the fresh account it is the only one that would find something, so that the type counts as
failed; in the deployed one the other finds something, so that it counts as detected (section 6). All
listers of stacks fail in one region, one of two in the other. The fault "lookup", a deferred stack
whose ARN cannot be looked up, is left to the proofs, for size. `Misses` = 1 lets one deletion of each sweep, and one stack of each region,
go wrong, which with three sweeps and two regions is enough for a resource that failed in one to be
found by the next. The proofs are for any number. `MaxAttempts`, `MaxRetries`, `MaxConcurrent`, `NConcurrent`, `MaxEmails` and
`Limit` are constants of the code. No state constraint and no symmetry is used. Deadlock is checked
in the admission and reset runs; the commands of the other modules come to an end, and a stuck one
is what `DeletionEnds`, `SweepEnds`, `CleanupEnds`, `CommandEnds`, `JobEventuallyEnds` and
`InitEnds` exclude.

Fairness. `FairSpec` of `TrialAdmission` is weak fairness of each trial's `Progress`: the event
loop runs every ready task, and every agent, verifier, script and sleep has a timeout.
Cancellation is never assumed. The gate's liveness needs no more than that, although it prefers
readers, because a run has finitely many trials (`task/queue.py:43`). `AccountReset` and
`AccountCleanup` have weak fairness per region and for the account, the calls they wait for being
bounded by waiters and polls with deadlines; `StackDeletion` per task and for the region, and none
for CloudFormation, whose deletions may never finish; `ResourceSweep` for the sweep as a whole, and
none for the cloud: a deletion that never ends is left by its time-out. `EnvironmentLifecycle` has
weak fairness for the steps of setup, reset and cleanup, each a script with a timeout or a bounded
fan-out, and none for commands being given, for jobs going on or for a deployment to succeed.
`ScenarioJob` has one weak fairness for all its tasks together, since one event loop runs them and
each can take boundedly many steps; that a script ends by itself is not assumed, only that
`asyncio.wait_for` gives up on it, and Ctrl-C is never assumed. `Provisioning` has weak fairness of
the init's own steps and none for AWS, the operator or terminate: every poll of the init has a
deadline. No specification needs strong fairness.

## 4. Theorems

All are proved for every value of the constants that satisfies the modules' assumptions, and for
every set of faults unless an assumption says otherwise. The safety properties they name are the
ones the runs check, except where noted.

*TrialAdmission* (`TrialAdmissionProofs`). The types are not inductive: that a count stays a
natural number when a hold is dropped follows only from its being the number of holders. The
induction is on `Counted` = loose types, `RetryLeft`, `GateCountsHolders`, `SlotsConserved` and
`MutatorAlone`, the last because a writer leaving clears a flag and not a count. Relative to
`Counted`: `NoLostWakeup` (a release wakes everyone parked, and no other step opens a gate),
`ResetComesFirst` (with `InUseHasUser`: an account in use has a mutating trial that runs or resets
on it), and `ImplementsSharing`, that every step maps to a step of `AccountSharing` or to none.
Theorems: `TypesCorrect`, `HoldsNeverLeak`, `SlotsNeverLeak`, `MutatorsExcludeAll`,
`NoLostWakeup`, `ResetComesFirst`, `ImplementsSharing`. `SlotsConserved` and `MutatorAlone` are
proved and not run: the second follows from `SharingSpec`. Assumed: finitely many trials, a scenario
and a mode for each, at least one slot.

*AccountReset* (`AccountResetProofs`). `Inv` adds to the types that a region which is through
either deleted stacks or is at its baseline (`ThroughIsBaseline`), that the account goes on only
when every region is through, and that success means nothing was deleted. The lemma it turns on is
`CleanReport`: a report that names nothing is about a clean region, because a check that could not
read sets `other`; and what one region's verification saw stays true, since no other region
touches it. `SuccessMeansBaseline` and `NoGlobalOutlivesReset` hold for every fault.
`GlobalsAreDeletedLast` assumes that types can be scanned (`"scan" \notin Faults`), for a type that
is not scanned is not compared, and that handlers defer only what needs no global. Also
`AccountTypesCorrect`.
`SuccessSweepsAll` (a success leaves nothing new but what is deferred) adds to `Inv` that what a
region's verification did not delete it had deferred (`ThroughIsSwept`), that it defers on its own
only what handlers may (`OnlyLateDeferred`) and puts off no global it does not set aside
(`PutOffIsSetAside`). It has the hypothesis that types can be scanned and that the baseline has a
region; without a region nobody looks. `AbsentStacksReported` and `SoundStacksLeftAlone` hold for
every fault, by `StacksInv`: what a diagnosis names is at fault until the region has dealt with it
(`NamedAtFault`), and a diagnosis that misses an absent stack names none at all (`AbsentKnown`),
since the first error of a check ends it and a status check that could not read says nothing: so
the region deletes nothing, comes to its verification, and fails there.
`ImplementsRestoration` combines them: every step is a step of `AccountRestoration` or leaves its
state alone. Beside the above it needs that a stack reported as deleted is not at its baseline and
not returned to (`GoneAtFault`), or "redeploy" could be reported of a complete deployment, and that
the result comes when no region works any more (`ResultIsLast`). Whether a success excludes
anything new is the constant `ScansAnswer` of the abstract module; the theorem has no assumption
but a region in the baseline.

*StackDeletion* (`StackDeletionProofs`). `IInv` adds to the types and `ReportedGoneIsGone` where
each task may be when it has no result yet, that the first round gives every environment stack a
result, and that only the stacks of the round have tasks. From it: `ReportedGoneIsGoneAlways`,
`ShutdownUnwindsDeletion`; `BootstrapIsDeletedLast`, assuming every existence check answers, by
`InfraLast` (an infrastructure stack has a task only once the environment is gone, and what is gone
stays gone); and `OneRetryIsEnough`, assuming no chains of imports, by following, for each stack
in the retry, an importer that was not deleted. `DeferredStacksLeftAlone` needs only that a
final result (gone, deferred) ends the task of its stack (`FinalDone`): the retry is of refused
stacks and the infrastructure is not among the environment's, so no task is given one.
`ImplementsTeardown` combines them for any stacks and faults: a step of a task is a verdict on its
stack or says nothing, a step of the region finishes, cancels or says nothing, and only
CloudFormation lets a stack disappear. It adds that no task runs once the deletion was cancelled
(`CancelledEnded`), that the infrastructure is untouched until its round, and for good if there is
none (`KeptOrReported`), and, if the checks answer, that it is as it was until the environment is
gone (`InfraUntouched`). The abstract module leaves open what the code does: a stack reported as
failed or deferred may be gone a moment later, and infrastructure kept because of one that is left
is in no result. Also `DeletionTypesCorrect`.

*EnvironmentLifecycle* (`EnvironmentLifecycleProofs`). `IInv` = `TypeOK`, `CommandAtStep` (which
steps belong to which command), `SnapshotsSound` (an account without a PRE_SETUP snapshot is
empty; a baseline always has the stacks; snapshots are dropped only of empty accounts),
`ResetSound` (an account whose result is "ok" is at its baseline, now and until the flags are
written; between two trials every account is at its baseline, flagged, or lapsed) and
`ReportedSuccessHolds`. `CleanupSound` is the assumption that jobs verify the environment and no
stack is deferred: without the first an agent may work on an account before its PRE_SETUP
snapshot, without the second a cleanup passes as clean with a stack left, and then
`InitBaselineIsPristine`, `ReportedSuccessIsTrue` and `FlagLiftedWhenRestored` are false or
meaningless (section 6). `AgentNeverStartsDirty` needs only verified jobs. Also
`LifecycleTypesCorrect`, which includes the bound on redeployments. `RestorationLeaves` and
`AfterResetCoversRestoration` justify taking a reset as one step: the first says what a behaviour of
`AccountRestoration` that starts in a given state has made of the account when it reports, the second
that `AfterReset` has each of these outcomes. With `ImplementsRestoration` this is a chain from
`ResetManager`'s regions to the commands. It is for a baseline that is a clean deployment and for the
fault "leftover"; a baseline that recorded anything else is the subject of `lifecycle_dirty_baseline`.

*Provisioning* (`ProvisioningProofs`). Typing needs two facts beside the types: a pair that is
queued has tried no address (`NoneTried`), and one that has come further has an account
(`HasAccount`). `OnlyShownAccountsLeave` is by `Shown`: what terminate is to take out is on the list
that was shown. `NoDuplicateAccounts` is by `UInv`, four parts none of which is inductive alone: an
account AWS has not opened yet is at the root without a tag (`Unopened`); while a pair's account is
being made it has no tag and the pair has none in the OU (`Making`), and no other pair makes the
same one (`Apart`); a pair has at most one in the OU (`Unique`). `SuccessLeavesReady` is by
`Progress`: as long as no terminate interferes, a pair's account has what the steps behind the pair
gave it (`Along`), because nothing else takes anything from an account (`Grows`). Also
`ProvisioningTypesCorrect`.

*AccountCleanup* (`AccountCleanupProofs`). `Placed` says where the regions may be in each stage.
`KnownOutlivesSweeps` (of `DefaultsOutliveSweeps`) and `PresweepSparesScenario` (of
`ScenarioOutlivesPresweep`) are by `Kept`, whose core `Known` says what a snapshot loses: of the
resources that were there it names each, or says that its type failed, or has *half listed* it, that
is, all listers of the resource failed while another one of its type found something. What is known
no scan finds new, so a sweep takes only what was half listed, which is what the two properties
excuse and what the code does lose (section 6); no hypothesis about the listers is needed. A sweep
may take a stack, and the stack what it owns; for the scenario this needs `Grown`, that a stack
which is not deployed is the agent's and owns only what the agent made. `AccountWideGoLast` is by
`OwnOnly`: while regions work, each sweeps and deletes what is its own. `CleanVerdictIsTrue` adds
`StacksTold`, `OrphansTold` and `VerdictTold`, that whatever is left has been seen, or the scan that
should have seen it is recorded as blind. Also `CleanupTypesCorrect`. `TeardownTells` justifies taking
the deletion of a region's stacks as one step: whenever a behaviour of `StackTeardown` ends, what it
told and left are among the choices of `DeleteStacks`. With `ImplementsTeardown` this is a chain from
the tasks of the stack deleter to the verdict. A stack that disappears only after the summary was
returned is not followed in `AccountCleanup`; its later disappearance can make no verdict false.

*ResourceSweep* (`ResourceSweepProofs`). `Untouched` makes the types inductive: nobody is at a
resource with a handler before its turn. `Excused` is what the sweep need not answer for, and only
grows. `SilenceIsTrue` follows each resource through the locals of the code: with a handler it is in
`todo`, then waited for (`HandlersTold`); without one it is in the queue, the pass, a pending
request or the failures, and a deletion that goes on is one of the last two (`OnRecord`); a request
that succeeded means gone (`OkMeansGone`). `RolesGoLast` adds that the batch is of one level, above
the queue (`Ordered`), and that users are gone or excused when a deletion begins (`UsersClear`). It
has a hypothesis, `RolesLast`: what others use is left to Cloud Control and is of a lower level, as
`ccapi/deleter.py` has it for roles. Also `SweepTypesCorrect`.
`TwoPassesAreEnough` has no hypothesis; the property itself says for which resources two passes are
enough (`Direct`). Its invariant `TwoPasses` follows the order of the code: when the deleter asks for a
resource, everything the handlers and the higher levels were to delete is gone or excused
(`AskedSettled`); so in the first pass what waits for nothing of its level is refused only for trouble
(`SimpleTold`), such a resource is out of the way when the second pass begins or is trouble itself
(`SecondPass`), and a refusal of the second pass is explained along the chain (`RefusedTold`,
`FailedTwice`, `FailuresTold`). Proving it showed that an earlier form of the property, which excused
only trouble with what the resource itself waits for, is false: a dependent of the same level can be
held up in the first pass by a third resource that goes between the passes, and then fails for
nothing that is still there. `Chain` names the resources of that case and the run has it.

*ScenarioJob* (`ScenarioJobProofs`). `RecordIsOfLastAttempt` holds with every fault, the failing
writes and removals included, by `RecordInv`: a record that is on disk while a trial is under way is
of an attempt since which every removal of the directory failed (`Older`), and a success without its
own record is one whose last write failed. `ScriptsOverlapOnlyAfterTimeout` is by `BoxInv` (a script runs
in a container of its attempt that exists, and no two containers have one name, so the scripts of
a trial are all of one attempt) and `LateInv` (while an attempt works, all its scripts were given
up but the one it waits for, and none is of a later run). `TrialsEndQuiet` adds `StartedInv` (the
container counts as started wherever a script is run, so `stop` does not return early) and
`QuietInv`, that without Ctrl-C every script docker was not asked in vain to stop is of the attempt
under way. Also `JobTypesCorrect`.

## 5. Model-checked only

Liveness is checked on the instances and not proved, because it is out of the prover's reach:
`EveryTrialEnds`, `ResetEnds`, `DeletionEnds`, `SweepEnds`, `CleanupEnds`, `CommandEnds`,
`JobEventuallyEnds`, `InitEnds`. Every safety property a run checks is proved, some of them
under the hypotheses named in section 4. `SuccessLeavesNothing` is proved and not run: the run checks
`RestorationSpec`, which with scans that answer implies it.

`SuccessLeavesNothing` is claimed for scans that answer: with `"scan"` and `"delete"` faults
together a deletion that failed and a type that is not scanned afterwards pass the verification
(`verify/comparators.py:197`). `GlobalsOutliveDependents` claims nothing of a region that deleted a
stack, because such a region does not verify its result. `CleanMeansEmpty` and `SilenceMeansGone`
name every way out the code has: what was deferred, what Cloud Control cannot delete, what is
bootstrap, what the last scan did not see, and deletions the code does not follow.

## 6. Where the code and its documentation part

Each of the first four is a run that must find its property violated; the property states what
the quoted text says.

- `reset_revert` (`RestoredMatchesBaseline`): a stack reverted in place "matches baseline", but it
  ends in `UPDATE_COMPLETE` where the baseline of a fresh deployment says `CREATE_COMPLETE`, so the
  final verification refuses it.
- `lifecycle_dirty_baseline` (`ResetRestoresSetup`): the reset is to restore "the post-setup
  baseline"; when one account's reset fails and another needs the redeployment, the new baseline is
  taken of both, and the next reset is content with what the agent left in the first.
- `sweep_role_first` (`RoleOutlivesEnvironment`): the service role of a Batch compute environment
  "must still exist" while Batch tears it down, and the delete step is to poll until it is gone; the
  prepare step has begun the deletion, so the delete handler, which prepares once more, finds
  `DELETING`, returns SKIPPED and never polls, and the deleter takes the role.
- `job_shared_name` (`ContainerStaysUnderScript`): `_remove_existing` is to remove "a stale
  container with the same name"; the resets after benchmark trials all have one name, so the reset
  of one scenario removes the container in which another's script is running.

Also observed while modelling, without a run of their own.

Reset and verification:

- A region that deleted a stack returns before its final verification (`reset/manager.py:246`),
  although best-effort deletion relies on it (`reset/manager.py:337`): a new resource whose deletion
  failed there enters the next baseline. The model keeps this (`"leftover"`).
- Verification with `skip_early=False` is to "run every remaining check … so reset can remediate all
  categories in a single pass", but one missing stack ends the template and the drift check of its
  region, so a second, damaged stack there is neither repaired nor deleted, and the new
  deployment's baseline is taken with it.
- A type that failed to scan is not compared (`verify/comparators.py:197`), so "verification will
  catch it" (`reset/manager.py:369`) does not hold for it.
- Verification looks for what is new (`verify/comparators.py:168-210`) and checks the stacks; a
  resource that the baseline had beside its stacks and that is gone is not missed, so a reset
  reports success without it (`AtBaseline` of `EnvironmentLifecycle`).
- `cleanup_stack` takes a lookup that raised for "not in this region"
  (`cleanup/manager.py:420-424`), also when it was the only one that could answer; and it deletes
  the first stack of that name it finds, whatever its region.

Deletion of stacks and resources:

- An existence check that raises counts as "gone" (`stack_deleter.py:1020`), so the bootstrap stack
  may be deleted while environment stacks are left. `BootstrapOutlivesEnv` holds without that fault.
- A stack refused for its exports may be deferred when its VPC holds only requester-managed
  interfaces, because a deletion that never began has no `DELETE_FAILED` event
  (`cleanup/stack_deleter.py:736`); its new reason then hides it from the retry (line 905).
- A stack with a requester-managed interface is deferred only when the reaper cleared nothing else
  (`stack_deleter.py:668`); otherwise it goes on to the forced deletion.
- A database cluster whose describe call fails for any reason counts as absent
  (`cleanup/handlers/databases.py:30`) and is silently left, although "an empty dict means
  everything was removed" (`resource_sweeper.py:33`); a DB instance is reported deleted as soon as
  the deletion is accepted.
- A resource whose status call failed in the first pass and which is gone in the second stays among
  the failures (`ccapi/deleter.py:233-236`).
- The levels of target groups (50) and IPAM pools (5) never matter, both having handlers of their
  own, and nothing is "retried on a later pass" after a handler.

Cleanup:

- Of two listers of one type one may fail: the type counts as detected
  (`fastscan/manager.py:174-189`), so a snapshot silently misses what the failed lister would have
  named, and the sweeps delete it, although types that failed are to be excluded
  (`cleanup/manager.py:512-516`). This is reached in the run: `DefaultsOutliveSweeps` and
  `ScenarioOutlivesPresweep` excuse exactly these resources (`HalfListed`), and without the excuse
  TLC refutes both, the default network and the scenario's own network being swept before
  `cleanup.sh`. The proofs show that nothing else is lost.
- A stack whose deletion is deferred is noted by its ARN, or by its name if the ARN cannot be looked
  up (`cleanup/stack_deleter.py:764-766`). Scans know stacks by ARN, so a stack noted by its name is
  swept and reported as an orphan like any other; the model has it as the fault "lookup". The registry
  has no regions (`deferred.py:37-66`), so what is deferred in one region hides its namesakes in the
  others.
- The cleanup can repeat the sweep of what came after the setup in each region
  (`cleanup/manager.py:449`). Not modelled: `env cleanup` switches it off (`scenario/trial.py:1000`)
  and the callers that leave it on (`manager.py:96`, `:491`) are called by nothing in the package.
- `_sweep_global_leftovers` says its caller runs it only once every region deleted its stacks
  (`cleanup/manager.py:589`); the caller runs it regardless and says so.
- The bootstrap stack is kept while a failed or deferred stack of the environment is left, because
  without its role that stack can never be deleted; "a later run tears CDKToolkit down"
  (`cleanup/stack_deleter.py:1003-1011`). The sweep that follows in the same run takes it all the
  same: scans list stacks by their ARN (`fastscan/listers/custom_listers.py:86`, `:351`), which does
  not begin with the prefixes that mark infrastructure (`cleanup/models.py:61`), the stack is not in
  the snapshot of the fresh account, and it is not deferred (`cleanup/manager.py:539-583`). In the
  model `DeleteStacks` keeps it, `Leftovers` finds it and `SweepLeftovers` deletes it.
- A cleanup that defers a stack is clean, deletes both snapshots and clears the flag; the next
  `env init` records the remainder as the pristine account.

Trials, jobs and containers:

- A post-trial reset whose `reset.sh` fails while the resources are restored clears the flag,
  although the trial then logs that the account is flagged (`task/aws_trial.py:141`); a trial that
  was refused for a flagged account is still followed by a reset; when `ScenarioTrial.create`
  raises, the account is neither reset nor flagged (`lapsed` in the model); and a cancelled mutating
  trial leaves its account dirty and unflagged, so that an `env setup` before the next verification
  takes the dirty state as the baseline.
- `_stop_agent_environment` records and swallows a cancellation during post-invoke
  (`task/aws_trial.py:457`), although a cancelled trial is to skip its reset (`:110-114`); a Ctrl-C
  while a container is being stopped is swallowed the same way (`scenario/trial.py:465`), and the
  retry loop begins another attempt, although a cancellation is to propagate (`:188-191`).
- `ScenarioContainer.start` counts as started only after `docker run`; when minting the credentials
  or `docker run` fails, `stop` returns early and the credentials directory stays
  (`scenario/container.py:260`, `:347`). The refresher's thread may also write into the directory
  while `stop` removes it, and `rmtree` ignores the error. Not modelled (section 7).
- A record that cannot be written is logged and the result in memory stands
  (`scenario/trial.py:281-301`), and the directory of a failed attempt is removed with
  `ignore_errors` although "the surviving on-disk record is the last attempt's alone"
  (`scenario/queue.py:152-155`). So a trial that succeeded may have no `result.json`, or that of a
  failed attempt. `RecordIsLastAttempts` says when: only after such a refusal of the file system.
- A script that timed out runs on in its container while the host resets, snapshots or redeploys the
  same accounts (`scenario/container.py:557`), until the container is stopped; a stop that docker
  refuses is not noticed.

Provisioning and termination:

- A creation that is killed or times out between `CreateAccount` and the tag leaves an account at
  the root that no later command finds; the next init makes another. A status call that raises ends
  the poll at once, since only results are retried.
- Two inits at once each find no account for a pair and make one; every later command refuses the
  pair (`account_management/manager.py:183`, `:238`).
- `terminate_environment` is to "delete the OU if all accounts handled" (`manager.py:412`) but
  strips the OU of its SCP also when a filter left accounts in it, or matched none
  (`cli/env.py:997`). An account moved to the root whose close failed is lost to later terminates.

## 7. Not modelled

What each module leaves out is named in `PROJECT.json` beside its component. The largest parts of
the code are outside on purpose: `fastscan/listers/simple_listers.py` and `region_skip.py` are
14,600 lines of tables that name API operations and keys, `custom_listers.py` and the forty deletion
handlers make one kind of call each and are represented by how they may answer, and the CLI,
display, metrics, datasets and scripts do sequential input and output. A model that named their
lines would describe API parameters, not behaviour. Further:

- *Snapshot storage*: who takes which snapshot when is in `EnvironmentLifecycle`; the store itself,
  with its optional ETags, matters only when two processes work on one scenario.
  `EnvironmentLifecycle` has one command at a time on a scenario, and `Provisioning` one init, which
  the code does not enforce.
- *Benchmark trial stages*: Harbor's Trial between `_prepare` and the end of `run` is not in the
  repository; of the stages only cancellation, the result and the reset line are modelled.
- *Credentials*: cached sessions that refresh before they expire, the directory with a container's
  credentials and the task that rewrites it; no other modelled state depends on them.
- *Snapshot serialisation, region merging and narrowing*: pure functions; `AccountCleanup` takes
  from them types, identifiers and failed types.
- What `reset.sh` and `cleanup.sh` change outside the snapshots is not visible to the code.
- In `Provisioning`: enabling Organizations, the region SCPs of single accounts, calls that only
  ask, and the tag and quotas of closed accounts, which nobody reads.

## 8. What is left

In the order in which it would add most:

1. Two processes on one scenario: a store with conditional writes and two commands at once, for
   `EnvironmentLifecycle` and for two inits; both are known to disturb each other (section 6).
2. The stages of a benchmark trial against Harbor's documented order, with once-only post-invoke
   under cancellation, refining one step of `TrialAdmission`.
3. An abstract specification of an environment (empty, deployed, dirty, flagged) that
   `EnvironmentLifecycle` refines, and the same for an account that `Provisioning` makes and unmakes.
4. The last joint of section 2, in the manner of `AccountRestoration` and `StackTeardown`: what
   `ResourceSweep` leaves to the sweeps of `AccountCleanup` and `AccountReset`.
