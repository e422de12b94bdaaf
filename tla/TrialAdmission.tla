--------------------------- MODULE TrialAdmission ---------------------------
(***************************************************************************)
(* AwsBenchTrialQueue: how the trials of a benchmark job are admitted to   *)
(* the accounts of their scenarios, run, reset and retried.                *)
(*                                                                         *)
(* A trial is one asyncio task.  It takes the readers-writer gate of its   *)
(* scenario, then one of the job's concurrency slots, and keeps both over  *)
(* every attempt, the reset that ends a mutating attempt and the backoff   *)
(* between attempts.  The event loop switches tasks only where a task      *)
(* awaits something that is not ready, so one action below is what a task  *)
(* does between two such points.  The lock inside the gate's               *)
(* asyncio.Condition is never held across one of them, which is why        *)
(* releasing a hold never waits and is part of the action that leaves.     *)
(***************************************************************************)
EXTENDS Integers, FiniteSets

CONSTANTS
  Trials,         \* the trials of one benchmark job
  Scenarios,      \* the scenarios they run on, one AWS account each
  ScenarioOf,     \* scenario_id of a trial's config
  Mode,           \* concurrency_mode of a trial's config
  MaxConcurrent,  \* n_concurrent, the value of the semaphore
  MaxRetries      \* retry_config.max_retries

ASSUME AdmissionAssumption ==
  /\ IsFiniteSet(Trials)
  /\ ScenarioOf \in [Trials -> Scenarios]
  /\ Mode \in [Trials -> {"read_only", "mutating"}]
  /\ MaxConcurrent \in Nat \ {0}
  /\ MaxRetries \in Nat

VARIABLES
  readers,  \* per scenario: the gate's _readers
  writers,  \* the scenarios whose gate has _writer_held
  free,     \* the semaphore's value
  pc,       \* where a trial's task is
  attempt,  \* the attempt a trial is at
  result,   \* how the trial's last attempt ended
  account   \* per scenario: what the last mutating attempt left behind

vars == <<readers, writers, free, pc, attempt, result, account>>

(* A task is about to test the gate's predicate ("at_gate": it arrived or  *)
(* it was notified), sleeps in the Condition ("parked"), awaits the        *)
(* semaphore with the gate held ("slot_wait"), or has both.                *)
InSlot == {"creating", "running", "resetting", "backoff", "unwinding"}
Holding == InSlot \cup {"slot_wait"}
Steps == Holding \cup {"at_gate", "parked", "done"}

(* The result of a trial as the retry loop reads it: no exception_info, an *)
(* exception type that is to be retried, or any other; "cancelled" and     *)
(* "raised" are the two ways out of the loop without a result.             *)
Settled == {"ok", "retryable", "fatal"}
Results == Settled \cup {"none", "cancelled", "raised"}

Holders(s) == {t \in Trials : ScenarioOf[t] = s /\ pc[t] \in Holding}
Readers(s) == {t \in Holders(s) : Mode[t] = "read_only"}
SlotHolders == {t \in Trials : pc[t] \in InSlot}

-----------------------------------------------------------------------------
(* The gate *)

Admits(t) ==
  /\ ScenarioOf[t] \notin writers
  /\ Mode[t] = "mutating" => readers[ScenarioOf[t]] = 0

Entered(t) ==
  \/ /\ Mode[t] = "read_only"
     /\ readers' = [readers EXCEPT ![ScenarioOf[t]] = @ + 1]
     /\ UNCHANGED writers
  \/ /\ Mode[t] = "mutating"
     /\ writers' = writers \cup {ScenarioOf[t]}
     /\ UNCHANGED readers

Released(t) ==
  \/ /\ Mode[t] = "read_only"
     /\ readers' = [readers EXCEPT ![ScenarioOf[t]] = @ - 1]
     /\ UNCHANGED writers
  \/ /\ Mode[t] = "mutating"
     /\ writers' = writers \ {ScenarioOf[t]}
     /\ UNCHANGED readers

NotifiedByWritersOnly(t) ==  \* mutant of Notified: a leaving reader wakes nobody
  [u \in Trials |-> IF /\ pc[u] = "parked" /\ ScenarioOf[u] = ScenarioOf[t]
                       /\ Mode[t] = "mutating"
                    THEN "at_gate" ELSE pc[u]]

NotifiedFirstOnly(t) ==  \* mutant of Notified: notify() instead of notify_all()
  LET woken == {u \in Trials : pc[u] = "parked" /\ ScenarioOf[u] = ScenarioOf[t]}
  IN  [u \in Trials |-> IF woken # {} /\ u = (CHOOSE v \in woken : TRUE)
                        THEN "at_gate" ELSE pc[u]]

(* notify_all: everyone parked at the scenario's gate tests it again.      *)
Notified(t) ==
  [u \in Trials |-> IF pc[u] = "parked" /\ ScenarioOf[u] = ScenarioOf[t]
                    THEN "at_gate" ELSE pc[u]]

EnterGate(t) ==
  /\ pc[t] = "at_gate"
  /\ Admits(t)
  /\ Entered(t)
  /\ pc' = [pc EXCEPT ![t] = "slot_wait"]
  /\ UNCHANGED <<free, attempt, result, account>>

Park(t) ==
  /\ pc[t] = "at_gate"
  /\ ~Admits(t)
  /\ pc' = [pc EXCEPT ![t] = "parked"]
  /\ UNCHANGED <<readers, writers, free, attempt, result, account>>

(* Both context managers exit, the slot's first, and the task ends.        *)
Leave(t, res) ==
  /\ Released(t)
  /\ free' = IF pc[t] \in InSlot THEN free + 1 ELSE free
  /\ pc' = [Notified(t) EXCEPT ![t] = "done"]
  /\ result' = [result EXCEPT ![t] = res]

-----------------------------------------------------------------------------
(* The attempts *)

TakeSlot(t) ==
  /\ pc[t] = "slot_wait"
  /\ free > 0
  /\ free' = free - 1
  /\ pc' = [pc EXCEPT ![t] = "creating"]
  /\ UNCHANGED <<readers, writers, attempt, result, account>>

(* AwsBenchTrial.create returned: the attempt uses the account from here.  *)
StartRun(t) ==
  /\ pc[t] = "creating"
  /\ pc' = [pc EXCEPT ![t] = "running"]
  /\ account' = [account EXCEPT ![ScenarioOf[t]] =
                   IF Mode[t] = "mutating" THEN "in_use" ELSE @]
  /\ UNCHANGED <<readers, writers, free, attempt, result>>

CreateRaises(t) ==
  /\ pc[t] = "creating"
  /\ Leave(t, "raised")
  /\ UNCHANGED <<attempt, account>>

(* The retry loop on the result res: return it, or back off and go round.  *)
Decide(t, res) ==
  \/ /\ res # "retryable" \/ attempt[t] = MaxRetries
     /\ Leave(t, res)
  \/ /\ res = "retryable" /\ attempt[t] < MaxRetries
     /\ pc' = [pc EXCEPT ![t] = "backoff"]
     /\ result' = [result EXCEPT ![t] = res]
     /\ UNCHANGED <<readers, writers, free>>

RunSettlesRetryFirst(t) ==  \* mutant of RunSettles: only a final attempt is reset
  /\ pc[t] = "running"
  /\ \E res \in Settled :
       \/ /\ Mode[t] = "mutating" /\ res # "retryable"
          /\ pc' = [pc EXCEPT ![t] = "resetting"]
          /\ result' = [result EXCEPT ![t] = res]
          /\ UNCHANGED <<readers, writers, free>>
       \/ /\ Mode[t] = "read_only" \/ res = "retryable"
          /\ Decide(t, res)
  /\ UNCHANGED <<attempt, account>>

(* super().run() returned.  A mutating attempt goes on to reset.           *)
RunSettles(t) ==
  /\ pc[t] = "running"
  /\ \E res \in Settled :
       \/ /\ Mode[t] = "mutating"
          /\ pc' = [pc EXCEPT ![t] = "resetting"]
          /\ result' = [result EXCEPT ![t] = res]
          /\ UNCHANGED <<readers, writers, free>>
       \/ /\ Mode[t] = "read_only"
          /\ Decide(t, res)
  /\ UNCHANGED <<attempt, account>>

(* The reset is over, restored or not: a failure is logged, never raised.  *)
ResetSettles(t) ==
  /\ pc[t] = "resetting"
  /\ account' = [account EXCEPT ![ScenarioOf[t]] = "settled"]
  /\ Decide(t, result[t])
  /\ UNCHANGED attempt

Retry(t) ==
  /\ pc[t] = "backoff"
  /\ attempt' = [attempt EXCEPT ![t] = @ + 1]
  /\ pc' = [pc EXCEPT ![t] = "creating"]
  /\ UNCHANGED <<readers, writers, free, result, account>>

-----------------------------------------------------------------------------
(* Cancellation reaches a task at the await it is suspended in.            *)

CancelWaitingLeaks(t) ==  \* mutant of CancelWaiting: the hold outlives its task
  /\ pc[t] \in {"at_gate", "parked", "slot_wait"}
  /\ pc' = [pc EXCEPT ![t] = "done"]
  /\ result' = [result EXCEPT ![t] = "cancelled"]
  /\ UNCHANGED <<readers, writers, free, attempt, account>>

CancelWaiting(t) ==
  /\ \/ /\ pc[t] \in {"at_gate", "parked"}
        /\ pc' = [pc EXCEPT ![t] = "done"]
        /\ result' = [result EXCEPT ![t] = "cancelled"]
        /\ UNCHANGED <<readers, writers, free>>
     \/ /\ pc[t] \in {"slot_wait", "creating", "backoff"}
        /\ Leave(t, "cancelled")
  /\ UNCHANGED <<attempt, account>>

CancelWorkingReleases(t) ==  \* mutant of CancelWorking: released before unwinding
  /\ pc[t] \in {"running", "resetting"}
  /\ Released(t)
  /\ pc' = [Notified(t) EXCEPT ![t] = "unwinding"]
  /\ account' = [account EXCEPT ![ScenarioOf[t]] =
                   IF Mode[t] = "mutating" THEN "abandoned" ELSE @]
  /\ UNCHANGED <<free, attempt, result>>

(* A cancelled attempt tears its container down before it leaves; the      *)
(* reset line is never reached, or the reset under way is given up.        *)
CancelWorking(t) ==
  /\ pc[t] \in {"running", "resetting"}
  /\ pc' = [pc EXCEPT ![t] = "unwinding"]
  /\ account' = [account EXCEPT ![ScenarioOf[t]] =
                   IF Mode[t] = "mutating" THEN "abandoned" ELSE @]
  /\ UNCHANGED <<readers, writers, free, attempt, result>>

Unwind(t) ==
  /\ pc[t] = "unwinding"
  /\ Leave(t, "cancelled")
  /\ UNCHANGED <<attempt, account>>

-----------------------------------------------------------------------------
Init ==
  /\ readers = [s \in Scenarios |-> 0]
  /\ writers = {}
  /\ free = MaxConcurrent
  /\ pc = [t \in Trials |-> "at_gate"]
  /\ attempt = [t \in Trials |-> 0]
  /\ result = [t \in Trials |-> "none"]
  /\ account = [s \in Scenarios |-> "settled"]

Progress(t) ==
  \/ EnterGate(t) \/ Park(t) \/ TakeSlot(t)
  \/ StartRun(t) \/ CreateRaises(t)
  \/ RunSettles(t) \/ ResetSettles(t) \/ Retry(t)
  \/ Unwind(t)

Finished == \A t \in Trials : pc[t] = "done"

Next ==
  \/ \E t \in Trials : Progress(t) \/ CancelWaiting(t) \/ CancelWorking(t)
  \/ Finished /\ UNCHANGED vars

Spec == Init /\ [][Next]_vars

(* The event loop runs every task that is ready; scripts, agents, resets   *)
(* and sleeps are all bounded by timeouts.  Nothing is asked of            *)
(* cancellation, which need never come.                                    *)
FairSpec == Spec /\ \A t \in Trials : WF_vars(Progress(t))

-----------------------------------------------------------------------------
TypeOK ==
  /\ readers \in [Scenarios -> Nat]
  /\ writers \in SUBSET Scenarios
  /\ free \in 0..MaxConcurrent
  /\ pc \in [Trials -> Steps]
  /\ attempt \in [Trials -> 0..MaxRetries]
  /\ result \in [Trials -> Results]
  /\ account \in [Scenarios -> {"settled", "in_use", "abandoned"}]

(* The gate's counters are exactly the holds that are out: none leaks when *)
(* a trial fails, raises or is cancelled, and none is dropped twice.       *)
GateCountsHolders ==
  \A s \in Scenarios :
    /\ readers[s] = Cardinality(Readers(s))
    /\ s \in writers <=> \E t \in Holders(s) : Mode[t] = "mutating"

(* Slots taken and slots free always add up to -n.                         *)
SlotsConserved == free + Cardinality(SlotHolders) = MaxConcurrent

(* A mutating trial never has its account together with another trial,     *)
(* while it runs, resets, backs off or unwinds.                            *)
MutatorAlone ==
  \A t, u \in Trials :
    (/\ t # u
     /\ ScenarioOf[t] = ScenarioOf[u]
     /\ pc[t] \in Holding
     /\ pc[u] \in Holding)
    => Mode[t] = "read_only" /\ Mode[u] = "read_only"

(* No wake-up is lost: a trial sleeps in the Condition only while the gate *)
(* would refuse it.                                                        *)
ParkedOnlyWhileRefused == \A t \in Trials : pc[t] = "parked" => ~Admits(t)

(* "A scenario's reset completes before the next exclusive trial on it     *)
(* starts": an attempt about to start never finds the account of a         *)
(* mutating attempt whose reset has not settled, another trial's or its    *)
(* own before a retry.  A cancelled attempt is the exception: it leaves    *)
(* the account "abandoned".                                                *)
ResetBeforeNextAttempt ==
  \A t \in Trials :
    (pc[t] = "creating" \/ (pc[t] = "running" /\ Mode[t] = "read_only"))
    => account[ScenarioOf[t]] # "in_use"

(* The gates implement the sharing the run promises.                       *)
Sharing ==
  INSTANCE AccountSharing WITH users <- [s \in Scenarios |-> Holders(s)]
SharingSpec == Sharing!Spec

(* The gate prefers readers and keeps no queue, yet no mutating trial      *)
(* starves: a run is finite, so every trial ends.                          *)
EveryTrialEnds == <>Finished

=============================================================================
