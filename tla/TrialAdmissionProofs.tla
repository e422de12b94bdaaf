------------------------ MODULE TrialAdmissionProofs ------------------------
(***************************************************************************)
(* Proofs about TrialAdmission, for any trials, scenarios, modes, number   *)
(* of slots and number of retries.                                         *)
(*                                                                         *)
(* The types alone are not inductive: that a count stays a natural number  *)
(* when a hold is dropped, and that the semaphore stays within -n, follow  *)
(* only from the counts being the numbers of holders.  So the induction is *)
(* on Counted: loose types, the two conservation laws and, because a      *)
(* writer's exit clears a flag and not a count, the exclusion itself.  The *)
(* wake-up and the reset-order invariants and the refinement are then      *)
(* relative to Counted.                                                    *)
(***************************************************************************)
EXTENDS TrialAdmission, FiniteSetTheorems, TLAPS

LooseTypes ==
  /\ readers \in [Scenarios -> Int]
  /\ writers \in SUBSET Scenarios
  /\ free \in Nat
  /\ pc \in [Trials -> Steps]
  /\ attempt \in [Trials -> 0..MaxRetries]
  /\ result \in [Trials -> Results]
  /\ account \in [Scenarios -> {"settled", "in_use", "abandoned"}]

(* A trial backs off only while it has a retry left.                       *)
RetryLeft == \A t \in Trials : pc[t] = "backoff" => attempt[t] < MaxRetries

Counted ==
  LooseTypes /\ RetryLeft /\ GateCountsHolders /\ SlotsConserved /\ MutatorAlone

-----------------------------------------------------------------------------
(* Finiteness and what a step does to the sets of holders.                 *)

(* The sets whose sizes the gate and the semaphore keep are finite.        *)
LEMMA HoldersFinite ==
  /\ \A s : IsFiniteSet(Readers(s)) /\ Cardinality(Readers(s)) \in Nat
  /\ IsFiniteSet(SlotHolders) /\ Cardinality(SlotHolders) \in Nat
<1>1. ASSUME NEW s PROVE Readers(s) \in SUBSET Trials
  BY DEF Readers, Holders
<1>2. SlotHolders \in SUBSET Trials
  BY DEF SlotHolders
<1>3. ASSUME NEW T \in SUBSET Trials
      PROVE  IsFiniteSet(T) /\ Cardinality(T) \in Nat
  BY FS_Subset, FS_CardinalityType, AdmissionAssumption
<1> QED BY <1>1, <1>2, <1>3

(* A step that moves no task into or out of the holders keeps the gate's   *)
(* counts right.                                                           *)
LEMMA SameHolders ==
  ASSUME GateCountsHolders, readers' = readers, writers' = writers,
         \A u \in Trials : pc'[u] \in Holding <=> pc[u] \in Holding
  PROVE  GateCountsHolders'
<1>1. \A s : Holders(s)' = Holders(s)
  BY DEF Holders
<1>2. \A s : Readers(s)' = Readers(s)
  BY <1>1 DEF Readers
<1> QED BY <1>1, <1>2 DEF GateCountsHolders

(* A step that moves no task into or out of a slot keeps the slots' count. *)
LEMMA SameSlots ==
  ASSUME SlotsConserved, free' = free,
         \A u \in Trials : pc'[u] \in InSlot <=> pc[u] \in InSlot
  PROVE  SlotsConserved'
<1>1. SlotHolders' = SlotHolders
  BY DEF SlotHolders
<1> QED BY <1>1 DEF SlotsConserved

(* Entering the gate adds one holder, of its scenario only.                *)
LEMMA EnterCounts ==
  ASSUME Counted, NEW t \in Trials, EnterGate(t)
  PROVE  Counted'
<1> DEFINE s0 == ScenarioOf[t]
<1>0. s0 \in Scenarios /\ Mode[t] \in {"read_only", "mutating"}
  BY AdmissionAssumption
<1>1. LooseTypes'
  BY <1>0 DEF EnterGate, Entered, Counted, LooseTypes, Steps, Holding
<1>2. SlotsConserved'
  BY SameSlots DEF EnterGate, Counted, LooseTypes, InSlot, Steps
<1>3. \A s : Holders(s)' = IF s = s0 THEN Holders(s) \cup {t} ELSE Holders(s)
  BY DEF Holders, EnterGate, Counted, LooseTypes, Holding, InSlot, Steps
<1>4. t \notin Holders(s0)
  BY DEF Holders, EnterGate, Holding, InSlot
<1>5. GateCountsHolders'
  <2> SUFFICES ASSUME NEW s \in Scenarios
               PROVE  /\ readers'[s] = Cardinality(Readers(s)')
                      /\ s \in writers' <=> \E u \in Holders(s)' : Mode[u] = "mutating"
    BY DEF GateCountsHolders
  <2>1. /\ readers[s] = Cardinality(Readers(s))
        /\ s \in writers <=> \E u \in Holders(s) : Mode[u] = "mutating"
    BY DEF Counted, GateCountsHolders
  <2>2. CASE s # s0
    <3>1. readers'[s] = readers[s] /\ (s \in writers' <=> s \in writers)
      BY <2>2 DEF EnterGate, Entered, Counted, LooseTypes
    <3>2. Holders(s)' = Holders(s) /\ Readers(s)' = Readers(s)
      BY <1>3, <2>2 DEF Readers
    <3> QED BY <3>1, <3>2, <2>1
  <2>3. CASE s = s0 /\ Mode[t] = "read_only"
    <3>1. readers'[s] = readers[s] + 1 /\ (s \in writers' <=> s \in writers)
      BY <1>0, <2>3 DEF EnterGate, Entered, Counted, LooseTypes
    <3>2. Readers(s)' = Readers(s) \cup {t} /\ t \notin Readers(s)
      BY <1>3, <1>4, <2>3 DEF Readers
    <3>3. Cardinality(Readers(s)') = Cardinality(Readers(s)) + 1
      BY <3>2, HoldersFinite, FS_AddElement
    <3>4. s \in writers' <=> \E u \in Holders(s)' : Mode[u] = "mutating"
      BY <1>3, <2>1, <2>3, <3>1
    <3> QED BY <2>1, <3>1, <3>3, <3>4
  <2>4. CASE s = s0 /\ Mode[t] = "mutating"
    <3>1. readers'[s] = readers[s] /\ s \in writers'
      BY <1>0, <2>4 DEF EnterGate, Entered, Counted, LooseTypes
    <3>2. Readers(s)' = Readers(s) /\ t \in Holders(s)'
      BY <1>3, <2>4 DEF Readers
    <3> QED BY <2>1, <2>4, <3>1, <3>2
  <2> QED BY <1>0, <2>2, <2>3, <2>4
<1>6. MutatorAlone'
  <2>1. ASSUME NEW u \in Holders(s0)
        PROVE  Mode[t] = "read_only" /\ Mode[u] = "read_only"
    <3>1. Mode[u] = "read_only"
      BY <1>0, AdmissionAssumption
         DEF EnterGate, Admits, Counted, GateCountsHolders, Holders
    <3>2. Mode[t] = "mutating" => Readers(s0) = {}
      BY <1>0, HoldersFinite, FS_EmptySet
         DEF EnterGate, Admits, Counted, GateCountsHolders
    <3> QED BY <1>0, <3>1, <3>2 DEF Readers
  <2>2. \A u \in Trials : pc'[u] \in Holding <=> (pc[u] \in Holding \/ u = t)
    BY DEF EnterGate, Counted, LooseTypes, Holding, InSlot
  <2> QED BY <2>1, <2>2 DEF Counted, MutatorAlone, Holders
<1>7. RetryLeft'
  BY DEF EnterGate, Counted, LooseTypes, RetryLeft
<1> QED BY <1>1, <1>2, <1>5, <1>6, <1>7 DEF Counted

(* What leaving does to the state: the leaving trial holds nothing any     *)
(* more, every other trial holds what it held.                             *)
LEMMA LeaveShape ==
  ASSUME LooseTypes, NEW t \in Trials, NEW res \in Results, pc[t] \in Holding,
         Leave(t, res)
  PROVE  /\ \A u \in Trials : u # t =>
              /\ pc'[u] \in Holding <=> pc[u] \in Holding
              /\ pc'[u] \in InSlot <=> pc[u] \in InSlot
              /\ pc'[u] = pc[u] \/ (pc[u] = "parked" /\ pc'[u] = "at_gate")
         /\ pc'[t] = "done"
         /\ pc' \in [Trials -> Steps]
         /\ readers' \in [Scenarios -> Int]
         /\ writers' \in SUBSET Scenarios
         /\ free' \in Nat
         /\ result' \in [Trials -> Results]
         /\ \A s : Holders(s)' = Holders(s) \ {t}
         /\ SlotHolders' = SlotHolders \ {t}
<1>0. ScenarioOf[t] \in Scenarios /\ Mode[t] \in {"read_only", "mutating"}
  BY AdmissionAssumption
<1>1. /\ pc' \in [Trials -> Steps]
      /\ pc'[t] = "done"
      /\ \A u \in Trials : u # t =>
           pc'[u] = pc[u] \/ (pc[u] = "parked" /\ pc'[u] = "at_gate")
  BY DEF Leave, Notified, LooseTypes, Steps
<1>2. \A u \in Trials : u # t =>
        /\ pc'[u] \in Holding <=> pc[u] \in Holding
        /\ pc'[u] \in InSlot <=> pc[u] \in InSlot
  BY <1>1 DEF Holding, InSlot
<1>3. /\ readers' \in [Scenarios -> Int]
      /\ writers' \in SUBSET Scenarios
      /\ free' \in Nat
      /\ result' \in [Trials -> Results]
  BY <1>0 DEF Leave, Released, LooseTypes
<1>4. \A s : Holders(s)' = Holders(s) \ {t}
  BY <1>1, <1>2 DEF Holders, Holding, InSlot
<1>5. SlotHolders' = SlotHolders \ {t}
  BY <1>1, <1>2 DEF SlotHolders, InSlot
<1> QED BY <1>1, <1>2, <1>3, <1>4, <1>5

(* Leaving keeps both conservation laws and the exclusion.                 *)
LEMMA LeaveCounts ==
  ASSUME Counted, NEW t \in Trials, NEW res \in Results, pc[t] \in Holding,
         Leave(t, res)
  PROVE  GateCountsHolders' /\ SlotsConserved' /\ MutatorAlone'
<1> DEFINE s0 == ScenarioOf[t]
<1>0. s0 \in Scenarios /\ Mode[t] \in {"read_only", "mutating"}
  BY AdmissionAssumption
<1>1. /\ \A s : Holders(s)' = Holders(s) \ {t}
      /\ SlotHolders' = SlotHolders \ {t}
  BY LeaveShape DEF Counted
<1>2. SlotsConserved'
  <2>1. CASE pc[t] \in InSlot
    <3>1. t \in SlotHolders
      BY <2>1 DEF SlotHolders
    <3>2. Cardinality(SlotHolders') = Cardinality(SlotHolders) - 1
      BY <3>1, <1>1, HoldersFinite, FS_RemoveElement
    <3>3. free' = free + 1
      BY <2>1 DEF Leave
    <3> QED BY <3>2, <3>3, HoldersFinite, AdmissionAssumption
            DEF Counted, SlotsConserved, LooseTypes
  <2>2. CASE pc[t] \notin InSlot
    <3>1. SlotHolders' = SlotHolders
      BY <1>1, <2>2 DEF SlotHolders
    <3>2. free' = free
      BY <2>2 DEF Leave
    <3> QED BY <3>1, <3>2 DEF Counted, SlotsConserved
  <2> QED BY <2>1, <2>2
<1>3. ASSUME NEW s \in Scenarios
      PROVE  /\ readers'[s] = Cardinality(Readers(s)')
             /\ s \in writers' <=> \E u \in Holders(s)' : Mode[u] = "mutating"
  <2>1. /\ readers[s] = Cardinality(Readers(s))
        /\ s \in writers <=> \E u \in Holders(s) : Mode[u] = "mutating"
    BY DEF Counted, GateCountsHolders
  <2>2. CASE s # s0
    <3>1. readers'[s] = readers[s] /\ (s \in writers' <=> s \in writers)
      BY <2>2 DEF Leave, Released, Counted, LooseTypes
    <3>2. Holders(s)' = Holders(s) /\ Readers(s)' = Readers(s)
      BY <1>1, <2>2 DEF Readers, Holders
    <3> QED BY <3>1, <3>2, <2>1
  <2>3. CASE s = s0 /\ Mode[t] = "read_only"
    <3>1. readers'[s] = readers[s] - 1 /\ (s \in writers' <=> s \in writers)
      BY <1>0, <2>3 DEF Leave, Released, Counted, LooseTypes
    <3>2. Readers(s)' = Readers(s) \ {t} /\ t \in Readers(s)
      BY <1>1, <2>3 DEF Readers, Holders
    <3>3. Cardinality(Readers(s)') = Cardinality(Readers(s)) - 1
      BY <3>2, HoldersFinite, FS_RemoveElement
    <3>4. s \in writers' <=> \E u \in Holders(s)' : Mode[u] = "mutating"
      BY <1>1, <2>1, <2>3, <3>1
    <3> QED BY <2>1, <3>1, <3>3, <3>4
  <2>4. CASE s = s0 /\ Mode[t] = "mutating"
    <3>1. readers'[s] = readers[s] /\ s \notin writers'
      BY <1>0, <2>4 DEF Leave, Released, Counted, LooseTypes
    <3>2. Readers(s)' = Readers(s)
      BY <1>1, <2>4 DEF Readers
    <3>3. \A u \in Holders(s)' : Mode[u] # "mutating"
      BY <1>1, <2>4, AdmissionAssumption DEF Counted, MutatorAlone, Holders
    <3> QED BY <2>1, <3>1, <3>2, <3>3
  <2> QED BY <1>0, <2>2, <2>3, <2>4
<1>4. MutatorAlone'
  BY LeaveShape DEF Counted, MutatorAlone, Holding, InSlot
<1> QED BY <1>2, <1>3, <1>4 DEF GateCountsHolders

(* The common part of every step that ends a trial: Counted survives it if *)
(* the step also leaves attempts alone and keeps the accounts typed.       *)
LEMMA LeaveKeepsCounted ==
  ASSUME Counted, NEW t \in Trials, NEW res \in Results, pc[t] \in Holding,
         Leave(t, res), UNCHANGED attempt,
         account' \in [Scenarios -> {"settled", "in_use", "abandoned"}]
  PROVE  Counted'
<1>1. RetryLeft'
  BY LeaveShape DEF Counted, LooseTypes, RetryLeft
<1> QED BY <1>1, LeaveCounts, LeaveShape DEF Counted, LooseTypes

(* A step that leaves the gates alone and moves no task across a hold or a *)
(* slot keeps Counted.                                                     *)
LEMMA StayKeepsCounted ==
  ASSUME Counted, UNCHANGED <<readers, writers, free>>,
         pc' \in [Trials -> Steps],
         attempt' \in [Trials -> 0..MaxRetries],
         result' \in [Trials -> Results],
         account' \in [Scenarios -> {"settled", "in_use", "abandoned"}],
         \A u \in Trials : /\ pc'[u] \in Holding <=> pc[u] \in Holding
                           /\ pc'[u] \in InSlot <=> pc[u] \in InSlot
                           /\ pc'[u] = "backoff" => attempt'[u] < MaxRetries
  PROVE  Counted'
<1>1. GateCountsHolders' /\ SlotsConserved'
  BY SameHolders, SameSlots DEF Counted
<1>2. MutatorAlone'
  BY DEF Counted, MutatorAlone
<1>3. LooseTypes'
  BY DEF Counted, LooseTypes
<1> QED BY <1>1, <1>2, <1>3 DEF Counted, RetryLeft

(* Returning a result or backing off.                                      *)
LEMMA DecideKeepsCounted ==
  ASSUME Counted, NEW t \in Trials, NEW res \in Results,
         pc[t] \in {"running", "resetting"}, Decide(t, res), UNCHANGED attempt,
         account' \in [Scenarios -> {"settled", "in_use", "abandoned"}]
  PROVE  Counted'
<1>0. pc[t] \in Holding
  BY DEF Holding, InSlot
<1>1. CASE Leave(t, res)
  BY <1>0, <1>1, LeaveKeepsCounted
<1>2. CASE /\ res = "retryable" /\ attempt[t] < MaxRetries
           /\ pc' = [pc EXCEPT ![t] = "backoff"]
           /\ result' = [result EXCEPT ![t] = res]
           /\ UNCHANGED <<readers, writers, free>>
  <2>1. /\ pc' \in [Trials -> Steps]
        /\ result' \in [Trials -> Results]
        /\ attempt' \in [Trials -> 0..MaxRetries]
    BY <1>0, <1>2 DEF Counted, LooseTypes, Steps, Holding, InSlot
  <2>2. \A u \in Trials : /\ pc'[u] \in Holding <=> pc[u] \in Holding
                          /\ pc'[u] \in InSlot <=> pc[u] \in InSlot
                          /\ pc'[u] = "backoff" => attempt'[u] < MaxRetries
    BY <1>2 DEF Counted, LooseTypes, RetryLeft, Holding, InSlot
  <2> QED BY <1>2, <2>1, <2>2, StayKeepsCounted
<1> QED BY <1>1, <1>2 DEF Decide

(* A slot is taken: the one step besides leaving that moves the semaphore. *)
LEMMA TakeSlotKeepsCounted ==
  ASSUME Counted, NEW t \in Trials, TakeSlot(t)
  PROVE  Counted'
<1>1. LooseTypes'
  BY DEF TakeSlot, Counted, LooseTypes, Steps, Holding, InSlot
<1>2. \A u \in Trials : pc'[u] \in Holding <=> pc[u] \in Holding
  BY DEF TakeSlot, Counted, LooseTypes, Holding, InSlot
<1>3. GateCountsHolders'
  BY <1>2, SameHolders DEF TakeSlot, Counted
<1>4. MutatorAlone'
  BY <1>2 DEF Counted, MutatorAlone
<1>5. SlotsConserved'
  <2>1. SlotHolders' = SlotHolders \cup {t} /\ t \notin SlotHolders
    BY DEF TakeSlot, Counted, LooseTypes, SlotHolders, InSlot
  <2>2. Cardinality(SlotHolders') = Cardinality(SlotHolders) + 1
    BY <2>1, HoldersFinite, FS_AddElement
  <2> QED BY <2>2, HoldersFinite, AdmissionAssumption
          DEF TakeSlot, Counted, LooseTypes, SlotsConserved
<1>6. RetryLeft'
  BY DEF TakeSlot, Counted, LooseTypes, RetryLeft
<1> QED BY <1>1, <1>3, <1>4, <1>5, <1>6 DEF Counted

(* Counted holds initially.                                                *)
LEMMA InitCounted == Init => Counted
<1> SUFFICES ASSUME Init PROVE Counted
  OBVIOUS
<1>1. LooseTypes
  BY AdmissionAssumption DEF Init, LooseTypes, Steps, Holding, InSlot, Results
<1>2. SlotHolders = {} /\ \A s : Holders(s) = {} /\ Readers(s) = {}
  BY DEF Init, SlotHolders, Holders, Readers, Holding, InSlot
<1>3. GateCountsHolders /\ SlotsConserved
  BY <1>2, FS_EmptySet, AdmissionAssumption DEF Init, GateCountsHolders, SlotsConserved
<1>4. MutatorAlone
  BY DEF Init, MutatorAlone, Holding, InSlot
<1>5. RetryLeft
  BY DEF Init, RetryLeft
<1> QED BY <1>1, <1>3, <1>4, <1>5 DEF Counted

(* Every step keeps Counted.                                               *)
LEMMA NextCounted == Counted /\ [Next]_vars => Counted'
<1> SUFFICES ASSUME Counted, [Next]_vars PROVE Counted'
  OBVIOUS
<1> USE DEF Steps, Holding, InSlot, Results, Settled
<1>1. ASSUME NEW t \in Trials, EnterGate(t) PROVE Counted'
  BY <1>1, EnterCounts
<1>2. ASSUME NEW t \in Trials, Park(t) PROVE Counted'
  BY <1>2, StayKeepsCounted DEF Park, Counted, LooseTypes, RetryLeft
<1>3. ASSUME NEW t \in Trials, TakeSlot(t) PROVE Counted'
  BY <1>3, TakeSlotKeepsCounted
<1>4. ASSUME NEW t \in Trials, StartRun(t) PROVE Counted'
  <2>1. account' \in [Scenarios -> {"settled", "in_use", "abandoned"}]
    BY <1>4, AdmissionAssumption DEF StartRun, Counted, LooseTypes, RetryLeft
  <2> QED BY <1>4, <2>1, StayKeepsCounted DEF StartRun, Counted, LooseTypes, RetryLeft
<1>5. ASSUME NEW t \in Trials, CreateRaises(t) PROVE Counted'
  BY <1>5, LeaveKeepsCounted DEF CreateRaises, Counted, LooseTypes, RetryLeft
<1>6. ASSUME NEW t \in Trials, RunSettles(t) PROVE Counted'
  <2>1. PICK res \in Settled :
          \/ /\ pc' = [pc EXCEPT ![t] = "resetting"]
             /\ result' = [result EXCEPT ![t] = res]
             /\ UNCHANGED <<readers, writers, free>>
          \/ Decide(t, res)
    BY <1>6 DEF RunSettles
  <2>2. pc[t] = "running" /\ UNCHANGED <<attempt, account>>
    BY <1>6 DEF RunSettles
  <2>3. CASE Decide(t, res)
    BY <2>2, <2>3, DecideKeepsCounted DEF Counted, LooseTypes, RetryLeft
  <2>4. CASE /\ pc' = [pc EXCEPT ![t] = "resetting"]
             /\ result' = [result EXCEPT ![t] = res]
             /\ UNCHANGED <<readers, writers, free>>
    BY <2>2, <2>4, StayKeepsCounted DEF Counted, LooseTypes, RetryLeft
  <2> QED BY <2>1, <2>3, <2>4
<1>7. ASSUME NEW t \in Trials, ResetSettles(t) PROVE Counted'
  <2>1. account' \in [Scenarios -> {"settled", "in_use", "abandoned"}]
    BY <1>7, AdmissionAssumption DEF ResetSettles, Counted, LooseTypes, RetryLeft
  <2>2. result[t] \in Results
    BY DEF Counted, LooseTypes
  <2> QED BY <1>7, <2>1, <2>2, DecideKeepsCounted DEF ResetSettles
<1>8. ASSUME NEW t \in Trials, Retry(t) PROVE Counted'
  <2>1. attempt' \in [Trials -> 0..MaxRetries]
    BY <1>8, AdmissionAssumption DEF Retry, Counted, LooseTypes, RetryLeft
  <2> QED BY <1>8, <2>1, StayKeepsCounted DEF Retry, Counted, LooseTypes, RetryLeft
<1>9. ASSUME NEW t \in Trials, CancelWaiting(t) PROVE Counted'
  <2>1. CASE /\ pc[t] \in {"at_gate", "parked"}
             /\ pc' = [pc EXCEPT ![t] = "done"]
             /\ result' = [result EXCEPT ![t] = "cancelled"]
             /\ UNCHANGED <<readers, writers, free>>
    BY <1>9, <2>1, StayKeepsCounted DEF CancelWaiting, Counted, LooseTypes, RetryLeft
  <2>2. CASE pc[t] \in {"slot_wait", "creating", "backoff"} /\ Leave(t, "cancelled")
    BY <1>9, <2>2, LeaveKeepsCounted DEF CancelWaiting, Counted, LooseTypes, RetryLeft
  <2> QED BY <1>9, <2>1, <2>2 DEF CancelWaiting
<1>10. ASSUME NEW t \in Trials, CancelWorking(t) PROVE Counted'
  <2>1. account' \in [Scenarios -> {"settled", "in_use", "abandoned"}]
    BY <1>10, AdmissionAssumption DEF CancelWorking, Counted, LooseTypes, RetryLeft
  <2> QED BY <1>10, <2>1, StayKeepsCounted DEF CancelWorking, Counted, LooseTypes, RetryLeft
<1>11. ASSUME NEW t \in Trials, Unwind(t) PROVE Counted'
  BY <1>11, LeaveKeepsCounted DEF Unwind, Counted, LooseTypes, RetryLeft
<1>12. CASE UNCHANGED vars
  BY <1>12, StayKeepsCounted DEF vars, Counted, LooseTypes, RetryLeft
<1> QED BY <1>1, <1>2, <1>3, <1>4, <1>5, <1>6, <1>7, <1>8, <1>9, <1>10, <1>11, <1>12
        DEF Next, Progress

(* Counted is an invariant.                                                *)
THEOREM AlwaysCounted == Spec => []Counted
BY InitCounted, NextCounted, PTL DEF Spec

-----------------------------------------------------------------------------
(* The gate's counts are natural numbers and the semaphore's value stays   *)
(* between 0 and -n: type correctness of the queue.                        *)
THEOREM TypesCorrect == Spec => []TypeOK
<1>1. ASSUME Counted PROVE TypeOK
  <2>1. free \in 0..MaxConcurrent
    BY <1>1, HoldersFinite, AdmissionAssumption DEF Counted, LooseTypes, SlotsConserved
  <2>2. readers \in [Scenarios -> Nat]
    BY <1>1, HoldersFinite DEF Counted, LooseTypes, GateCountsHolders
  <2> QED BY <1>1, <2>1, <2>2 DEF Counted, LooseTypes, TypeOK
<1> QED BY <1>1, AlwaysCounted, PTL

(* No hold of a scenario leaks and none is dropped twice, whatever trials  *)
(* fail, raise or are cancelled.                                           *)
THEOREM HoldsNeverLeak == Spec => []GateCountsHolders
BY AlwaysCounted, PTL DEF Counted

(* No concurrency slot leaks and -n is never exceeded.                     *)
THEOREM SlotsNeverLeak == Spec => []SlotsConserved
BY AlwaysCounted, PTL DEF Counted

(* A mutating trial always has its scenario's account to itself.           *)
THEOREM MutatorsExcludeAll == Spec => []MutatorAlone
BY AlwaysCounted, PTL DEF Counted

-----------------------------------------------------------------------------
(* No wake-up of the gate's condition is lost.                             *)
LEMMA NextParked ==
  Counted /\ ParkedOnlyWhileRefused /\ [Next]_vars => ParkedOnlyWhileRefused'
<1> SUFFICES ASSUME Counted, ParkedOnlyWhileRefused, [Next]_vars,
                    NEW u \in Trials, pc'[u] = "parked"
             PROVE  ~Admits(u)'
  BY DEF ParkedOnlyWhileRefused
<1> USE AdmissionAssumption DEF Counted, LooseTypes, Holding, InSlot
<1>1. ASSUME NEW t \in Trials, EnterGate(t) PROVE ~Admits(u)'
  <2>1. pc[u] = "parked" /\ ~Admits(u)
    BY <1>1 DEF EnterGate, ParkedOnlyWhileRefused
  <2>2. ScenarioOf[u] \in writers \/ (Mode[u] = "mutating" /\ readers[ScenarioOf[u]] # 0)
    BY <2>1 DEF Admits
  <2>3. readers[ScenarioOf[u]] \in Nat
    BY HoldersFinite DEF GateCountsHolders
  <2> QED BY <1>1, <2>2, <2>3 DEF EnterGate, Entered, Admits
<1>2. ASSUME NEW t \in Trials, NEW res \in Results, Leave(t, res) PROVE ~Admits(u)'
  <2>1. u # t /\ pc[u] = "parked" /\ ScenarioOf[u] # ScenarioOf[t]
    BY <1>2 DEF Leave, Notified
  <2> QED BY <1>2, <2>1 DEF Leave, Released, Admits, ParkedOnlyWhileRefused
<1>3. ASSUME UNCHANGED <<readers, writers>>,
             pc[u] = "parked" \/ (pc[u] = "at_gate" /\ ~Admits(u))
      PROVE  ~Admits(u)'
  BY <1>3 DEF Admits, ParkedOnlyWhileRefused
<1> USE DEF Results, Settled
<1>4. ASSUME NEW t \in Trials, NEW res \in Results, Decide(t, res) PROVE ~Admits(u)'
  BY <1>2, <1>3, <1>4 DEF Decide
<1>5. ASSUME NEW t \in Trials, RunSettles(t) PROVE ~Admits(u)'
  BY <1>3, <1>4, <1>5 DEF RunSettles
<1>6. ASSUME NEW t \in Trials, ResetSettles(t) PROVE ~Admits(u)'
  BY <1>4, <1>6 DEF ResetSettles
<1>7. ASSUME NEW t \in Trials, CreateRaises(t) \/ Unwind(t) \/ CancelWaiting(t)
      PROVE  ~Admits(u)'
  BY <1>2, <1>3, <1>7 DEF CreateRaises, Unwind, CancelWaiting
<1>8. ASSUME NEW t \in Trials,
             Park(t) \/ TakeSlot(t) \/ StartRun(t) \/ Retry(t) \/ CancelWorking(t)
      PROVE  ~Admits(u)'
  BY <1>3, <1>8 DEF Park, TakeSlot, StartRun, Retry, CancelWorking
<1>9. CASE UNCHANGED vars
  BY <1>3, <1>9 DEF vars
<1> QED BY <1>1, <1>5, <1>6, <1>7, <1>8, <1>9 DEF Next, Progress

(* A trial sleeps in the gate's condition only while the gate refuses it.  *)
THEOREM NoLostWakeup == Spec => []ParkedOnlyWhileRefused
<1>1. Init => ParkedOnlyWhileRefused
  BY DEF Init, ParkedOnlyWhileRefused
<1> QED BY <1>1, NextParked, AlwaysCounted, PTL DEF Spec

-----------------------------------------------------------------------------
(* An account is in use exactly as long as a mutating attempt runs or      *)
(* resets on it; with the exclusion this gives the order the queue claims. *)
InUseHasUser ==
  \A s \in Scenarios : account[s] = "in_use" =>
    \E t \in Trials : /\ ScenarioOf[t] = s /\ Mode[t] = "mutating"
                      /\ pc[t] \in {"running", "resetting"}

(* The user stays until its reset settles or it is cancelled.              *)
LEMMA NextInUse == Counted /\ InUseHasUser /\ [Next]_vars => InUseHasUser'
<1> SUFFICES ASSUME Counted, InUseHasUser, [Next]_vars,
                    NEW s \in Scenarios, account'[s] = "in_use"
             PROVE  \E t \in Trials : /\ ScenarioOf[t] = s /\ Mode[t] = "mutating"
                                      /\ pc'[t] \in {"running", "resetting"}
  BY DEF InUseHasUser
<1> USE AdmissionAssumption DEF Counted, LooseTypes
<1>1. ASSUME NEW t \in Trials, StartRun(t), ScenarioOf[t] = s, Mode[t] = "mutating"
      PROVE  pc'[t] \in {"running", "resetting"}
  BY <1>1 DEF StartRun
<1>2. ASSUME account[s] = "in_use",
             \A u \in Trials :
               /\ pc[u] \in {"running", "resetting"}
               /\ ScenarioOf[u] = s /\ Mode[u] = "mutating"
               => pc'[u] \in {"running", "resetting"}
      PROVE  \E t \in Trials : /\ ScenarioOf[t] = s /\ Mode[t] = "mutating"
                               /\ pc'[t] \in {"running", "resetting"}
  BY <1>2 DEF InUseHasUser
<1>3. ASSUME NEW t \in Trials, NEW res \in Results, Decide(t, res), account' = account,
             ~(pc[t] \in {"running", "resetting"} /\ ScenarioOf[t] = s /\ Mode[t] = "mutating")
      PROVE  \E u \in Trials : /\ ScenarioOf[u] = s /\ Mode[u] = "mutating"
                               /\ pc'[u] \in {"running", "resetting"}
  BY <1>2, <1>3 DEF Decide, Leave, Notified
<1> USE DEF Results, Settled
<1>4. ASSUME NEW t \in Trials, RunSettles(t)
      PROVE  \E u \in Trials : /\ ScenarioOf[u] = s /\ Mode[u] = "mutating"
                               /\ pc'[u] \in {"running", "resetting"}
  BY <1>2, <1>3, <1>4 DEF RunSettles
<1>5. ASSUME NEW t \in Trials, ResetSettles(t)
      PROVE  \E u \in Trials : /\ ScenarioOf[u] = s /\ Mode[u] = "mutating"
                               /\ pc'[u] \in {"running", "resetting"}
  <2>1. ScenarioOf[t] # s /\ account[s] = "in_use"
    BY <1>5 DEF ResetSettles
  <2>2. \A u \in Trials : u # t /\ pc[u] \in {"running", "resetting"} => pc'[u] = pc[u]
    BY <1>5 DEF ResetSettles, Decide, Leave, Notified
  <2> QED BY <1>2, <2>1, <2>2
<1>6. ASSUME NEW t \in Trials, CancelWorking(t)
      PROVE  \E u \in Trials : /\ ScenarioOf[u] = s /\ Mode[u] = "mutating"
                               /\ pc'[u] \in {"running", "resetting"}
  BY <1>2, <1>6 DEF CancelWorking
<1>7. ASSUME NEW t \in Trials, CreateRaises(t) \/ Unwind(t) \/ CancelWaiting(t)
      PROVE  \E u \in Trials : /\ ScenarioOf[u] = s /\ Mode[u] = "mutating"
                               /\ pc'[u] \in {"running", "resetting"}
  BY <1>2, <1>7 DEF CreateRaises, Unwind, CancelWaiting, Leave, Notified
<1>8. ASSUME NEW t \in Trials,
             EnterGate(t) \/ Park(t) \/ TakeSlot(t) \/ StartRun(t) \/ Retry(t)
      PROVE  \E u \in Trials : /\ ScenarioOf[u] = s /\ Mode[u] = "mutating"
                               /\ pc'[u] \in {"running", "resetting"}
  BY <1>1, <1>2, <1>8 DEF EnterGate, Park, TakeSlot, StartRun, Retry
<1>9. CASE UNCHANGED vars
  BY <1>2, <1>9 DEF vars
<1> QED BY <1>4, <1>5, <1>6, <1>7, <1>8, <1>9 DEF Next, Progress

(* The reset of a mutating attempt settles before any next attempt on the  *)
(* account starts, unless it was cancelled.                                *)
THEOREM ResetComesFirst == Spec => []ResetBeforeNextAttempt
<1>1. Init => InUseHasUser
  BY DEF Init, InUseHasUser
<1>2. Counted /\ InUseHasUser => ResetBeforeNextAttempt
  BY AdmissionAssumption
     DEF Counted, InUseHasUser, ResetBeforeNextAttempt, MutatorAlone, Holding, InSlot
<1> QED BY <1>1, <1>2, NextInUse, AlwaysCounted, PTL DEF Spec

-----------------------------------------------------------------------------
(* A step of the queue is a step of AccountSharing or leaves the users of  *)
(* every account alone.                                                    *)
LEMMA StepShares ==
  ASSUME Counted, [Next]_vars
  PROVE  [Sharing!Next]_([s \in Scenarios |-> Holders(s)])
<1> DEFINE users == [s \in Scenarios |-> Holders(s)]
<1> USE AdmissionAssumption DEF Counted, LooseTypes, Holding, InSlot
<1>1. ASSUME NEW t \in Trials, EnterGate(t) PROVE Sharing!Next
  <2>1. \A s : Holders(s)' = IF s = ScenarioOf[t] THEN Holders(s) \cup {t} ELSE Holders(s)
    BY <1>1 DEF Holders, EnterGate
  <2>2. t \notin Holders(ScenarioOf[t])
    BY <1>1 DEF Holders, EnterGate
  <2>3. users' = [users EXCEPT ![ScenarioOf[t]] = @ \cup {t}]
    BY <2>1
  <2>4. \A u \in Holders(ScenarioOf[t]) : Mode[u] = "read_only"
    BY <1>1 DEF EnterGate, Admits, GateCountsHolders, Holders
  <2>5. Mode[t] = "mutating" => Holders(ScenarioOf[t]) = {}
    BY <1>1, <2>4, HoldersFinite, FS_EmptySet
       DEF EnterGate, Admits, GateCountsHolders, Readers
  <2>6. CASE Mode[t] = "read_only"
    BY <2>2, <2>3, <2>4, <2>6 DEF Sharing!Next, Sharing!JoinReader
  <2>7. CASE Mode[t] = "mutating"
    BY <2>3, <2>5, <2>7 DEF Sharing!Next, Sharing!TakeAlone
  <2> QED BY <2>6, <2>7
<1>2. ASSUME NEW t \in Trials, NEW res \in Results, Leave(t, res), pc[t] \in Holding
      PROVE  Sharing!Next
  <2>1. \A s : Holders(s)' = Holders(s) \ {t}
    BY <1>2, LeaveShape
  <2>2. t \in Holders(ScenarioOf[t]) /\ \A s : s # ScenarioOf[t] => t \notin Holders(s)
    BY <1>2 DEF Holders
  <2>3. \A s : Holders(s)' = IF s = ScenarioOf[t] THEN Holders(s) \ {t} ELSE Holders(s)
    <3> HIDE DEF Counted, LooseTypes, Holding, InSlot
    <3> QED BY <2>1, <2>2
  <2>4. users' = [users EXCEPT ![ScenarioOf[t]] = @ \ {t}]
    BY <2>3
  <2>5. t \in users[ScenarioOf[t]]
    BY <2>2
  <2>6. Sharing!Leave(t)
    BY <2>4, <2>5 DEF Sharing!Leave
  <2> QED BY <2>6 DEF Sharing!Next
<1>3. ASSUME \A u \in Trials : pc'[u] \in Holding <=> pc[u] \in Holding
      PROVE  users' = users
  BY <1>3 DEF Holders
<1> USE DEF Results, Settled
<1>4. ASSUME NEW t \in Trials, NEW res \in Results, Decide(t, res), pc[t] \in Holding
      PROVE  Sharing!Next \/ users' = users
  BY <1>2, <1>3, <1>4 DEF Decide
<1>5. ASSUME NEW t \in Trials, RunSettles(t) \/ ResetSettles(t)
      PROVE  Sharing!Next \/ users' = users
  BY <1>3, <1>4, <1>5 DEF RunSettles, ResetSettles
<1>6. ASSUME NEW t \in Trials, CreateRaises(t) \/ Unwind(t) \/ CancelWaiting(t)
      PROVE  Sharing!Next \/ users' = users
  BY <1>2, <1>3, <1>6 DEF CreateRaises, Unwind, CancelWaiting
<1>7. ASSUME NEW t \in Trials,
             Park(t) \/ TakeSlot(t) \/ StartRun(t) \/ Retry(t) \/ CancelWorking(t)
      PROVE  users' = users
  BY <1>3, <1>7 DEF Park, TakeSlot, StartRun, Retry, CancelWorking
<1>8. CASE UNCHANGED vars
  BY <1>3, <1>8 DEF vars
<1> QED BY <1>1, <1>5, <1>6, <1>7, <1>8 DEF Next, Progress

(* The queue implements the sharing a benchmark run promises.              *)
THEOREM ImplementsSharing == Spec => SharingSpec
<1>1. Init => Sharing!Init
  BY DEF Init, Sharing!Init, Holders, Holding, InSlot
<1> QED BY <1>1, StepShares, AlwaysCounted, PTL DEF Spec, SharingSpec, Sharing!Spec

=============================================================================
