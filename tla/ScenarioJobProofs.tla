-------------------------- MODULE ScenarioJobProofs --------------------------
(***************************************************************************)
(* Proofs about ScenarioJob for any number of trials, whatever their names,*)
(* slots, retries and faults.                                              *)
(***************************************************************************)
EXTENDS ScenarioJob, TLAPS

Steps(t) ==
    \/ Acquire(t) \/ Retry(t) \/ CreateFails(t) \/ Enter(t)
    \/ BuildFails(t) \/ Build(t) \/ DockerRun(t) \/ StartFails(t)
    \/ WriteConfig(t) \/ Refuse(t) \/ Exec(t) \/ ScriptTimesOut(t) \/ ScriptEnds(t)
    \/ Manage(t) \/ Redeploy(t)
    \/ Stop(t) \/ DockerStop(t) \/ Persist(t)

LEMMA StepCases ==
  ASSUME [Next]_vars
  PROVE  \/ \E t \in Trials : Steps(t)
         \/ LateScriptEnds \/ DetachedStop \/ DaemonRuns
         \/ CtrlC \/ JobEnds \/ UNCHANGED vars
BY DEF Next, Prompt, Steps

-----------------------------------------------------------------------------
(* Types.  An attempt is begun only while one is left, and a redeploy only *)
(* while one is.                                                           *)

Pcs == Waiting \cup InTry \cup {"stop", "docker", "persist", "done"}
Results == {"pending", "ok", "failed", "cancelled"}

PcOK == pc \in [Trials -> Pcs]
AttemptOK ==
    /\ attempt \in [Trials -> 0 .. MaxRetries + 1]
    /\ \A t \in Trials :
          /\ pc[t] = "queued" => attempt[t] = 0
          /\ pc[t] = "backoff" => attempt[t] <= MaxRetries
ObjectsOK ==
    /\ redeploy \in [Trials -> 0 .. MaxRedeploys]
    /\ \A t \in Trials : pc[t] = "redeploy" => redeploy[t] < MaxRedeploys
    /\ scriptErr \in [Trials -> BOOLEAN]
    /\ exc \in [Trials -> {"none", "error", "cancelled"}]
    /\ unwinding \in [Trials -> BOOLEAN]
    /\ started \in [Trials -> BOOLEAN]
OutOK ==
    /\ disk \in [Trials -> Nat]
    /\ result \in [Trials -> Results]
    /\ phase \in Phases
    /\ job \in {"running", "returned", "raised"}

Typed == PcOK /\ AttemptOK /\ ObjectsOK /\ OutOK

LEMMA AfterScriptTyped ==
  ASSUME Typed, NEW t \in Trials, NEW f \in BOOLEAN, AfterScript(t, f)
  PROVE  /\ PcOK' /\ AttemptOK'
         /\ \A u \in Trials \ {t} : pc'[u] = pc[u]
         /\ pc'[t] \in {"redeploy", "stop", "manage"}
         /\ redeploy' = redeploy /\ unwinding' = unwinding
         /\ \A u \in Trials : pc'[u] = "redeploy" => redeploy[u] < MaxRedeploys
         /\ scriptErr' \in [Trials -> BOOLEAN]
         /\ exc' \in [Trials -> {"none", "error", "cancelled"}]
<1>1. /\ \E to \in {"redeploy", "stop", "manage"} :
            Goto(t, to) /\ (to = "redeploy" => redeploy[t] < MaxRedeploys)
      /\ redeploy' = redeploy /\ unwinding' = unwinding /\ attempt' = attempt
      /\ scriptErr' \in [Trials -> BOOLEAN]
      /\ exc' \in [Trials -> {"none", "error", "cancelled"}]
  BY DEF AfterScript, Typed, ObjectsOK
<1>2. PICK to \in {"redeploy", "stop", "manage"} :
            Goto(t, to) /\ (to = "redeploy" => redeploy[t] < MaxRedeploys)
  BY <1>1
<1>3. PcOK' /\ pc'[t] = to /\ \A u \in Trials \ {t} : pc'[u] = pc[u]
  BY <1>2 DEF Goto, Typed, PcOK, Pcs, InTry
<1> QED BY <1>1, <1>2, <1>3 DEF Typed, AttemptOK, ObjectsOK

LEMMA SettleTyped ==
  ASSUME Typed, NEW t \in Trials, NEW info, NEW record \in Nat, Settle(t, info, record)
  PROVE  /\ PcOK'
         /\ \A u \in Trials \ {t} : pc'[u] = pc[u]
         /\ pc'[t] \in {"backoff", "done"}
         /\ pc'[t] = "backoff" => attempt[t] <= MaxRetries
         /\ disk' \in [Trials -> Nat] /\ result' \in [Trials -> Results]
<1>1. CASE info # "none" /\ attempt[t] <= MaxRetries
  <2>1. /\ Goto(t, "backoff") /\ result' = result
        /\ disk' = [disk EXCEPT ![t] = 0] \/ disk' = [disk EXCEPT ![t] = record]
    BY <1>1 DEF Settle
  <2> QED BY <1>1, <2>1 DEF Goto, Typed, PcOK, OutOK, Pcs, Waiting
<1>2. CASE ~(info # "none" /\ attempt[t] <= MaxRetries)
  BY <1>2 DEF Settle, Return, Goto, Typed, PcOK, OutOK, Pcs, Results
<1> QED BY <1>1, <1>2

LEMMA BeginAttemptTyped ==
  ASSUME Typed, NEW t \in Trials, pc[t] \in {"queued", "backoff"}, BeginAttempt(t)
  PROVE  Typed'
<1>1. attempt[t] + 1 \in 0 .. MaxRetries + 1
  BY JobAssumption DEF Typed, AttemptOK
<1>2. PcOK' /\ pc'[t] = "create" /\ \A u \in Trials \ {t} : pc'[u] = pc[u]
  BY DEF BeginAttempt, Goto, Typed, PcOK, Pcs, Waiting
<1>3. AttemptOK'
  BY <1>1, <1>2 DEF BeginAttempt, Typed, AttemptOK
<1>4. ObjectsOK' /\ OutOK'
  BY <1>2 DEF BeginAttempt, Typed, ObjectsOK, OutOK, objects, outVars, records
<1> QED BY <1>2, <1>3, <1>4 DEF Typed

(* The steps of the script part. *)
LEMMA ScriptPartTyped ==
  ASSUME Typed, NEW t \in Trials,
         BuildFails(t) \/ StartFails(t) \/ WriteConfig(t) \/ Refuse(t)
           \/ ScriptTimesOut(t) \/ ScriptEnds(t)
  PROVE  Typed'
<1>1. started' = started /\ OutOK'
  BY DEF BuildFails, StartFails, WriteConfig, Refuse, ScriptTimesOut, ScriptEnds, outVars,
         records, Typed, OutOK
<1>2. CASE \E f \in BOOLEAN : AfterScript(t, f)
  <2>1. PICK f \in BOOLEAN : AfterScript(t, f)
    BY <1>2
  <2> QED BY <1>1, <2>1, AfterScriptTyped DEF Typed, ObjectsOK
<1>3. CASE Goto(t, "exec") /\ UNCHANGED trialVars
  <2>1. PcOK' /\ pc'[t] = "exec" /\ \A u \in Trials \ {t} : pc'[u] = pc[u]
    BY <1>3 DEF Goto, Typed, PcOK, Pcs, InTry
  <2> QED BY <1>1, <1>3, <2>1 DEF Typed, AttemptOK, ObjectsOK, trialVars, objects
<1>4. (\E f \in BOOLEAN : AfterScript(t, f)) \/ (Goto(t, "exec") /\ UNCHANGED trialVars)
  BY DEF BuildFails, StartFails, WriteConfig, Refuse, ScriptTimesOut, ScriptEnds
<1> QED BY <1>2, <1>3, <1>4

LEMMA StepTyped ==
  ASSUME Typed, NEW t \in Trials, Steps(t)
  PROVE  Typed'
<1>1. CASE Acquire(t) \/ Retry(t)
  BY <1>1, BeginAttemptTyped DEF Acquire, Retry
<1>2. CASE CreateFails(t)
  <2>1. disk[t] \in Nat
    BY DEF Typed, OutOK
  <2> QED BY <1>2, <2>1, SettleTyped DEF CreateFails, trialVars, objects, Typed, AttemptOK,
        ObjectsOK, OutOK
<1>3. CASE \/ BuildFails(t) \/ StartFails(t) \/ WriteConfig(t) \/ Refuse(t)
           \/ ScriptTimesOut(t) \/ ScriptEnds(t)
  BY <1>3, ScriptPartTyped
<1>4. CASE Enter(t) \/ Build(t) \/ DockerRun(t) \/ Exec(t) \/ Stop(t) \/ DockerStop(t)
  <2>1. /\ \E to \in {"build", "manage", "run", "config", "script", "docker", "persist"} :
             Goto(t, to)
        /\ UNCHANGED <<attempt, redeploy, scriptErr, unwinding, outVars>>
        /\ started' \in [Trials -> BOOLEAN]
        /\ exc' \in [Trials -> {"none", "error", "cancelled"}]
    BY <1>4 DEF Enter, Build, DockerRun, Exec, Stop, DockerStop, First, trialVars, objects,
          Typed, ObjectsOK
  <2>2. PICK to \in {"build", "manage", "run", "config", "script", "docker", "persist"} :
             Goto(t, to)
    BY <2>1
  <2>3. PcOK' /\ pc'[t] = to /\ \A u \in Trials \ {t} : pc'[u] = pc[u]
    BY <2>2 DEF Goto, Typed, PcOK, Pcs, InTry
  <2> QED BY <2>1, <2>3 DEF Typed, AttemptOK, ObjectsOK, OutOK, outVars, records
<1>5. CASE Manage(t)
  <2>1. /\ \E to \in {"stop", "redeploy"} :
             Goto(t, to) /\ (to = "redeploy" => redeploy[t] = 0)
        /\ UNCHANGED <<attempt, redeploy, scriptErr, started, outVars>>
        /\ exc' \in [Trials -> {"none", "error", "cancelled"}]
        /\ unwinding' \in [Trials -> BOOLEAN]
    BY <1>5 DEF Manage, Typed, ObjectsOK
  <2>2. PICK to \in {"stop", "redeploy"} :
             Goto(t, to) /\ (to = "redeploy" => redeploy[t] = 0)
    BY <2>1
  <2>3. PcOK' /\ pc'[t] = to /\ \A u \in Trials \ {t} : pc'[u] = pc[u]
    BY <2>2 DEF Goto, Typed, PcOK, Pcs, InTry
  <2>4. 0 < MaxRedeploys
    BY JobAssumption
  <2> QED BY <2>1, <2>2, <2>3, <2>4 DEF Typed, AttemptOK, ObjectsOK, OutOK, outVars, records
<1>6. CASE Redeploy(t)
  <2>1. redeploy[t] + 1 \in 0 .. MaxRedeploys
    BY <1>6, JobAssumption DEF Redeploy, Typed, ObjectsOK
  <2>2. PcOK' /\ pc'[t] \in {"exec", "build"} /\ \A u \in Trials \ {t} : pc'[u] = pc[u]
    BY <1>6 DEF Redeploy, Goto, Typed, PcOK, Pcs, InTry
  <2> QED BY <1>6, <2>1, <2>2 DEF Redeploy, Typed, AttemptOK, ObjectsOK, OutOK, outVars,
        records
<1>7. CASE Persist(t)
  <2>1. PICK record \in {attempt[t], disk[t], 0} :
           \/ Settle(t, exc[t], record)
           \/ /\ Goto(t, "done")
              /\ disk' = [disk EXCEPT ![t] = record]
              /\ result' = [result EXCEPT ![t] = "cancelled"]
    BY <1>7 DEF Persist
  <2>2. /\ record \in Nat
        /\ Forget(t) /\ UNCHANGED <<phase, job>>
    BY <1>7, JobAssumption DEF Persist, Typed, AttemptOK, OutOK
  <2>3. /\ PcOK'
        /\ \A u \in Trials \ {t} : pc'[u] = pc[u]
        /\ pc'[t] \in {"backoff", "done"}
        /\ pc'[t] = "backoff" => attempt[t] <= MaxRetries
        /\ disk' \in [Trials -> Nat] /\ result' \in [Trials -> Results]
    <3>1. CASE Settle(t, exc[t], record)
      BY <2>2, <3>1, SettleTyped
    <3>2. CASE ~Settle(t, exc[t], record)
      BY <2>1, <2>2, <3>2 DEF Goto, Typed, PcOK, OutOK, Pcs, Results
    <3> QED BY <3>1, <3>2
  <2>4. ObjectsOK'
    BY <2>2, <2>3, JobAssumption DEF Forget, Typed, ObjectsOK
  <2> QED BY <2>2, <2>3, <2>4 DEF Forget, Typed, AttemptOK, OutOK
<1> QED BY <1>1, <1>2, <1>3, <1>4, <1>5, <1>6, <1>7 DEF Steps

LEMMA OthersTyped ==
  ASSUME Typed, LateScriptEnds \/ DetachedStop \/ DaemonRuns \/ JobEnds \/ UNCHANGED vars
  PROVE  Typed'
<1>1. UNCHANGED <<pc, trialVars, started, disk, result, phase>>
      /\ job' \in {job, "returned", "raised"}
  BY DEF LateScriptEnds, DetachedStop, DaemonRuns, JobEnds, outVars, records, vars
<1> QED BY <1>1 DEF Typed, PcOK, AttemptOK, ObjectsOK, OutOK, trialVars, objects

(* What Ctrl-C does to each task. *)
LEMMA CtrlCMoves ==
  ASSUME Typed, CtrlC, NEW t \in Trials
  PROVE  /\ pc[t] \in Waiting => pc'[t] = "done" /\ result'[t] = "cancelled"
         /\ pc[t] \notin Waiting => result'[t] = result[t]
         /\ pc[t] \in InTry => pc'[t] = "stop"
         /\ pc[t] \in {"stop", "docker"} => pc'[t] = "persist"
         /\ pc[t] \in {"persist", "done"} => pc'[t] = pc[t]
BY DEF CtrlC, Waiting, InTry

LEMMA CtrlCTyped ==
  ASSUME Typed, CtrlC
  PROVE  Typed'
<1>1. UNCHANGED <<attempt, redeploy, scriptErr, started, disk, phase, job>>
  BY DEF CtrlC, records
<1>2. PcOK'
  <2>1. DOMAIN pc' = Trials /\ pc' = [t \in Trials |-> pc'[t]]
    BY DEF CtrlC
  <2>2. ASSUME NEW t \in Trials PROVE pc'[t] \in Pcs
    BY CtrlCMoves DEF Typed, PcOK, Pcs
  <2> QED BY <2>1, <2>2 DEF PcOK
<1>3. AttemptOK'
  BY <1>1, CtrlCMoves DEF Typed, AttemptOK, PcOK, Pcs, Waiting, InTry
<1>4. ObjectsOK'
  <2>1. \A t \in Trials : pc'[t] # "redeploy"
    BY CtrlCMoves DEF Typed, PcOK, Pcs, Waiting, InTry
  <2>2. unwinding' \in [Trials -> BOOLEAN]
    BY DEF CtrlC, Typed, ObjectsOK
  <2>3. exc' \in [Trials -> {"none", "error", "cancelled"}]
    BY DEF CtrlC, First, Typed, ObjectsOK
  <2> QED BY <1>1, <2>1, <2>2, <2>3 DEF Typed, ObjectsOK
<1>5. OutOK'
  <2>1. result' \in [Trials -> Results]
    BY DEF CtrlC, Typed, OutOK, Results
  <2> QED BY <1>1, <2>1 DEF Typed, OutOK
<1> QED BY <1>2, <1>3, <1>4, <1>5 DEF Typed

LEMMA TypingInductive ==
  ASSUME Typed, [Next]_vars
  PROVE  Typed'
BY StepCases, StepTyped, OthersTyped, CtrlCTyped

LEMMA InitialTyped == Init => Typed
<1> SUFFICES ASSUME Init PROVE Typed
  OBVIOUS
<1>1. 0 \in 0 .. MaxRetries + 1 /\ 0 \in 0 .. MaxRedeploys
  BY JobAssumption
<1>2. PcOK /\ OutOK
  BY DEF Init, PcOK, OutOK, Pcs, Waiting, Results
<1>3. AttemptOK /\ ObjectsOK
  BY <1>1 DEF Init, AttemptOK, ObjectsOK
<1> QED BY <1>2, <1>3 DEF Typed

(* Every variable keeps its type: no trial has more attempts than the      *)
(* retries allow, and no reset more redeploys (RetryConfig.max_retries,    *)
(* _REDEPLOY_MAX_ATTEMPTS).                                                *)
THEOREM JobTypesCorrect == Spec => []TypeOK
<1>1. Typed /\ [Next]_vars => Typed'
  BY TypingInductive
<1>2. Typed => TypeOK
  BY DEF Typed, PcOK, AttemptOK, ObjectsOK, OutOK, TypeOK, Pcs, Results
<1> QED BY InitialTyped, <1>1, <1>2, PTL DEF Spec

-----------------------------------------------------------------------------
(* The record.  One that is older than the attempt under way was left by   *)
(* every removal since it was written; a back-off follows a removal.       *)

Older(t, upTo) == \A a \in disk[t] .. upTo : <<t, a>> \in unremoved

RecordInv ==
    \A t \in Trials :
        /\ pc[t] # "done" => result[t] = "pending"
        /\ disk[t] # 0 => disk[t] <= attempt[t] /\ Older(t, attempt[t] - 1)
        /\ pc[t] = "backoff" /\ disk[t] # 0 => <<t, attempt[t]>> \in unremoved
        /\ pc[t] = "done" /\ result[t] = "ok" /\ disk[t] # attempt[t] => t \in unwritten

(* A record that an attempt may leave fulfils what is asked of one. *)
LEMMA RecordHeld ==
  ASSUME RecordInv, NEW t \in Trials, attempt[t] \in Nat, disk[t] \in Nat,
         NEW record \in {attempt[t], disk[t], 0}, record # 0
  PROVE  record <= attempt[t] /\ \A a \in record .. attempt[t] - 1 : <<t, a>> \in unremoved
<1>1. CASE record = attempt[t]
  BY <1>1
<1>2. CASE record = disk[t]
  <2>1. disk[t] <= attempt[t] /\ Older(t, attempt[t] - 1)
    BY <1>2 DEF RecordInv
  <2> QED BY <1>2, <2>1 DEF Older
<1> QED BY <1>1, <1>2

(* What an attempt that ends does to the record of its trial. *)
LEMMA SettleRecord ==
  ASSUME Typed, RecordInv, NEW t \in Trials, pc[t] \notin {"queued", "backoff", "done"},
         NEW info, NEW record \in {attempt[t], disk[t], 0}, Settle(t, info, record),
         attempt' = attempt, info = "none" /\ record # attempt[t] => t \in unwritten',
         \A u \in Trials \ {t} : u \in unwritten => u \in unwritten'
  PROVE  RecordInv'
<1>1. \A u \in Trials \ {t} : pc'[u] = pc[u] /\ disk'[u] = disk[u] /\ result'[u] = result[u]
  BY DEF Settle, Return, Goto, Typed, PcOK, OutOK
<1>2. unremoved \subseteq unremoved'
  BY DEF Settle, Return
<1>3. ASSUME NEW u \in Trials \ {t}
      PROVE  /\ pc'[u] # "done" => result'[u] = "pending"
             /\ disk'[u] # 0 => disk'[u] <= attempt'[u] /\ Older(u, attempt[u] - 1)'
             /\ pc'[u] = "backoff" /\ disk'[u] # 0 => <<u, attempt'[u]>> \in unremoved'
             /\ pc'[u] = "done" /\ result'[u] = "ok" /\ disk'[u] # attempt'[u]
                  => u \in unwritten'
  BY <1>1, <1>2 DEF RecordInv, Older
<1>4. attempt[t] \in Nat /\ disk[t] \in Nat /\ result[t] = "pending"
  <2>1. attempt[t] \in Nat /\ disk[t] \in Nat
    BY JobAssumption DEF Typed, AttemptOK, OutOK
  <2> QED BY <2>1 DEF RecordInv
<1>5. record # 0 => /\ record <= attempt[t]
                    /\ \A a \in record .. attempt[t] - 1 : <<t, a>> \in unremoved
  BY <1>4, RecordHeld
<1>6. /\ disk'[t] \in {0, record}
      /\ pc'[t] \in {"backoff", "done"}
      /\ pc'[t] = "backoff" => result'[t] = "pending"
      /\ pc'[t] = "backoff" /\ disk'[t] # 0 => <<t, attempt[t]>> \in unremoved'
      /\ pc'[t] = "done" => disk'[t] = record /\ (result'[t] = "ok" => info = "none")
  <2>1. CASE info # "none" /\ attempt[t] <= MaxRetries
    BY <1>4, <2>1 DEF Settle, Goto, Cur, Typed, PcOK, OutOK
  <2>2. CASE ~(info # "none" /\ attempt[t] <= MaxRetries)
    BY <2>2 DEF Settle, Return, Goto, Typed, PcOK, OutOK
  <2> QED BY <2>1, <2>2
<1>7. /\ pc'[t] # "done" => result'[t] = "pending"
      /\ disk'[t] # 0 => disk'[t] <= attempt'[t] /\ Older(t, attempt[t] - 1)'
      /\ pc'[t] = "backoff" /\ disk'[t] # 0 => <<t, attempt'[t]>> \in unremoved'
      /\ pc'[t] = "done" /\ result'[t] = "ok" /\ disk'[t] # attempt'[t] => t \in unwritten'
  BY <1>2, <1>5, <1>6 DEF Older
<1> QED BY <1>3, <1>7 DEF RecordInv

LEMMA RecordInductive ==
  ASSUME Typed, RecordInv, [Next]_vars
  PROVE  RecordInv'
<1>1. ASSUME NEW t \in Trials, CreateFails(t)
      PROVE  RecordInv'
  <2>1. /\ pc[t] = "create" /\ attempt' = attempt /\ unwritten' = unwritten
        /\ Settle(t, "error", disk[t])
    BY <1>1 DEF CreateFails, trialVars
  <2> QED BY <2>1, SettleRecord
<1>2. ASSUME NEW t \in Trials, Persist(t)
      PROVE  RecordInv'
  <2>1. PICK record \in {attempt[t], disk[t], 0} :
          /\ Recorded(t, record)
          /\ \/ Settle(t, exc[t], record)
             \/ /\ Goto(t, "done")
                /\ disk' = [disk EXCEPT ![t] = record]
                /\ result' = [result EXCEPT ![t] = "cancelled"]
                /\ UNCHANGED unremoved
    BY <1>2 DEF Persist
  <2>2. /\ pc[t] = "persist" /\ attempt' = attempt
        /\ record # attempt[t] => t \in unwritten'
        /\ \A u \in Trials \ {t} : u \in unwritten => u \in unwritten'
    BY <1>2, <2>1 DEF Persist, Forget, Recorded
  <2>3. CASE Settle(t, exc[t], record)
    BY <2>2, <2>3, SettleRecord
  <2>4. CASE /\ Goto(t, "done")
             /\ disk' = [disk EXCEPT ![t] = record]
             /\ result' = [result EXCEPT ![t] = "cancelled"]
             /\ UNCHANGED unremoved
    <3>1. \A u \in Trials \ {t} :
            pc'[u] = pc[u] /\ disk'[u] = disk[u] /\ result'[u] = result[u]
      BY <2>4 DEF Goto, Typed, PcOK, OutOK
    <3>2. pc'[t] = "done" /\ disk'[t] = record /\ result'[t] = "cancelled"
      BY <2>4 DEF Goto, Typed, PcOK, OutOK
    <3>3. attempt[t] \in Nat /\ disk[t] \in Nat
      BY JobAssumption DEF Typed, AttemptOK, OutOK
    <3>4. record # 0 =>
            record <= attempt[t] /\ \A a \in record .. attempt[t] - 1 : <<t, a>> \in unremoved
      BY <3>3, RecordHeld
    <3>5. ASSUME NEW u \in Trials
          PROVE  disk'[u] # 0 => disk'[u] <= attempt'[u] /\ Older(u, attempt[u] - 1)'
      BY <2>2, <2>4, <3>1, <3>2, <3>4 DEF RecordInv, Older
    <3> QED BY <2>2, <2>4, <3>1, <3>2, <3>5 DEF RecordInv
  <2> QED BY <2>1, <2>3, <2>4
<1>3. ASSUME NEW t \in Trials, Acquire(t) \/ Retry(t)
      PROVE  RecordInv'
  <2>1. /\ pc[t] \in {"queued", "backoff"} /\ pc'[t] = "create"
        /\ UNCHANGED <<disk, result, unwritten, unremoved>>
        /\ attempt'[t] = attempt[t] + 1
        /\ \A u \in Trials \ {t} : pc'[u] = pc[u] /\ attempt'[u] = attempt[u]
    BY <1>3 DEF Acquire, Retry, BeginAttempt, Goto, outVars, records, Typed, PcOK, AttemptOK
  <2>2. attempt[t] \in Nat /\ disk[t] \in Nat /\ (pc[t] = "queued" => attempt[t] = 0)
    BY JobAssumption DEF Typed, AttemptOK, OutOK
  <2>3. disk[t] # 0 => /\ disk[t] <= attempt[t]
                       /\ \A a \in disk[t] .. attempt[t] : <<t, a>> \in unremoved
    <3>1. pc[t] = "queued" => disk[t] = 0
      <4>1. disk[t] # 0 => disk[t] <= attempt[t]
        BY DEF RecordInv
      <4> QED BY <2>2, <4>1
    <3>2. SUFFICES ASSUME disk[t] # 0, NEW a \in disk[t] .. attempt[t]
                   PROVE  disk[t] <= attempt[t] /\ <<t, a>> \in unremoved
      BY DEF RecordInv
    <3>3. /\ disk[t] <= attempt[t] /\ <<t, attempt[t]>> \in unremoved
          /\ \A b \in disk[t] .. attempt[t] - 1 : <<t, b>> \in unremoved
      BY <2>1, <3>1, <3>2 DEF RecordInv, Older
    <3>4. a = attempt[t] \/ a \in disk[t] .. attempt[t] - 1
      BY <2>2, <3>2
    <3> QED BY <3>3, <3>4
  <2>4. ASSUME NEW u \in Trials
        PROVE  disk'[u] # 0 => disk'[u] <= attempt'[u] /\ Older(u, attempt[u] - 1)'
    <3>1. CASE u = t
      BY <2>1, <2>2, <2>3, <3>1 DEF Older
    <3>2. CASE u # t
      BY <2>1, <3>2 DEF RecordInv, Older
    <3> QED BY <3>1, <3>2
  <2> QED BY <2>1, <2>4 DEF RecordInv
<1>4. ASSUME NEW t \in Trials, Steps(t),
             ~CreateFails(t), ~Persist(t), ~Acquire(t), ~Retry(t)
      PROVE  RecordInv'
  <2>1. /\ UNCHANGED <<disk, result, attempt, unwritten, unremoved>>
        /\ pc[t] # "done"
    BY <1>4 DEF Steps, Enter, BuildFails, Build, DockerRun, StartFails, WriteConfig, Refuse, Exec,
          ScriptTimesOut, ScriptEnds, Manage, Redeploy, Stop, DockerStop, AfterScript,
          outVars, records, trialVars
  <2>2. /\ pc'[t] \notin {"done", "backoff"}
        /\ \A u \in Trials \ {t} : pc'[u] = pc[u]
    <3>1. \E to \in Pcs \ {"done", "backoff"} : Goto(t, to)
      BY <1>4 DEF Steps, Enter, BuildFails, Build, DockerRun, StartFails, WriteConfig, Refuse,
            Exec, ScriptTimesOut, ScriptEnds, Manage, Redeploy, Stop, DockerStop, AfterScript,
            Pcs, InTry
    <3> QED BY <3>1 DEF Goto, Typed, PcOK
  <2> QED BY <2>1, <2>2 DEF RecordInv, Older
<1>5. CASE CtrlC
  <2>1. UNCHANGED <<disk, attempt, unwritten, unremoved>>
    BY <1>5 DEF CtrlC, records
  <2>2. \A t \in Trials :
          /\ pc'[t] # "backoff"
          /\ pc'[t] = "done" /\ pc[t] # "done" => result'[t] = "cancelled"
          /\ pc[t] = "done" \/ pc'[t] # "done" => result'[t] = result[t]
          /\ pc[t] = "done" => pc'[t] = "done"
    BY <1>5, CtrlCMoves DEF Typed, PcOK, Pcs, Waiting, InTry
  <2> QED BY <2>1, <2>2 DEF RecordInv, Older
<1>6. CASE LateScriptEnds \/ DetachedStop \/ DaemonRuns \/ JobEnds \/ UNCHANGED vars
  <2>1. UNCHANGED <<pc, disk, result, attempt, unwritten, unremoved>>
    BY <1>6 DEF LateScriptEnds, DetachedStop, DaemonRuns, JobEnds, outVars, records, vars, trialVars
  <2> QED BY <2>1 DEF RecordInv, Older
<1> QED BY StepCases, <1>1, <1>2, <1>3, <1>4, <1>5, <1>6

(* What is left in a trial's directory is the record of its last attempt,  *)
(* unless every removal of an earlier one's failed (_execute_with_retries  *)
(* ignores that), and one that is reported to have succeeded has left its  *)
(* record unless the write of it failed (_persist_result swallows that).   *)
THEOREM RecordIsOfLastAttempt == Spec => []RecordIsLastAttempts
<1>1. Init => Typed /\ RecordInv
  <2>1. Init => RecordInv
    BY DEF Init, RecordInv
  <2> QED BY <2>1, InitialTyped
<1>2. Typed /\ RecordInv /\ [Next]_vars => (Typed /\ RecordInv)'
  BY TypingInductive, RecordInductive
<1>3. RecordInv => RecordIsLastAttempts
  BY DEF RecordInv, Older, RecordIsLastAttempts
<1> QED BY <1>1, <1>2, <1>3, PTL DEF Spec

-----------------------------------------------------------------------------
(* Scripts and containers.  A script runs in a container of its attempt,   *)
(* and docker has at most one container of a name; all attempts of a trial *)
(* have one name.  So the scripts of a trial are all of one attempt.       *)

ScriptsOK == scripts \subseteq [by : Trials \X Nat, run : Nat]
Boxed == \A s \in scripts : \E b \in boxes : b.by = s.by /\ b.name = Name[s.by[1]]
OnePerName == \A b, c \in boxes : b.name = c.name => b = c

BoxInv == ScriptsOK /\ Boxed /\ OnePerName

LEMMA RemovalKeeps ==
  ASSUME BoxInv, NEW gone, NEW ended, InBoxes(gone) \subseteq ended,
         boxes' = boxes \ gone, scripts' = scripts \ ended
  PROVE  BoxInv'
<1>1. ASSUME NEW s \in scripts'
      PROVE  \E b \in boxes' : b.by = s.by /\ b.name = Name[s.by[1]]
  <2>1. s \in scripts /\ s \notin InBoxes(gone)
    OBVIOUS
  <2>2. PICK b \in boxes : b.by = s.by /\ b.name = Name[s.by[1]]
    BY <2>1 DEF BoxInv, Boxed
  <2>3. b \notin gone
    BY <2>1, <2>2 DEF InBoxes
  <2> QED BY <2>2, <2>3
<1>2. OnePerName'
  BY DEF BoxInv, OnePerName
<1>3. ScriptsOK'
  BY DEF BoxInv, ScriptsOK
<1> QED BY <1>1, <1>2, <1>3 DEF BoxInv, Boxed

LEMMA AdditionKeeps ==
  ASSUME BoxInv, NEW b, Named(b.name) = {},
         boxes' = boxes \cup {b}, scripts' = scripts
  PROVE  BoxInv'
<1>1. Boxed' /\ ScriptsOK'
  BY DEF BoxInv, Boxed, ScriptsOK
<1>2. OnePerName'
  BY DEF BoxInv, OnePerName, Named
<1> QED BY <1>1, <1>2 DEF BoxInv

LEMMA StopByNameKeeps ==
  ASSUME BoxInv, NEW n, StopByName(n)
  PROVE  BoxInv'
<1>1. CASE boxes' = boxes \ Named(n) /\ EndScripts(InBoxes(Named(n)))
  BY <1>1, RemovalKeeps DEF EndScripts
<1>2. CASE boxes' = boxes /\ EndScripts(InBoxes(Named(n)))
  <2>1. boxes' = boxes \ {} /\ InBoxes({}) \subseteq InBoxes(Named(n))
    BY <1>2 DEF InBoxes
  <2> QED BY <1>2, <2>1, RemovalKeeps DEF EndScripts
<1>3. CASE UNCHANGED <<boxes, scripts>>
  BY <1>3 DEF BoxInv, Boxed, ScriptsOK, OnePerName
<1> QED BY <1>1, <1>2, <1>3 DEF StopByName

LEMMA BoxInvInductive ==
  ASSUME Typed, BoxInv, [Next]_vars
  PROVE  BoxInv'
<1>1. ASSUME NEW t \in Trials, Build(t)
      PROVE  BoxInv'
  <2>1. CASE /\ boxes' = boxes \ Named(NameOf(t, attempt[t]))
             /\ EndScripts(InBoxes(Named(NameOf(t, attempt[t]))))
    BY <2>1, RemovalKeeps DEF EndScripts
  <2>2. CASE UNCHANGED <<boxes, scripts>>
    BY <2>2 DEF BoxInv, Boxed, ScriptsOK, OnePerName
  <2> QED BY <1>1, <2>1, <2>2 DEF Build
<1>2. ASSUME NEW t \in Trials, DockerRun(t) \/ StartFails(t)
      PROVE  BoxInv'
  <2>1. CASE UNCHANGED <<boxes, scripts>>
    BY <2>1 DEF BoxInv, Boxed, ScriptsOK, OnePerName
  <2>2. CASE boxes' = boxes \cup {BoxOf(t)} /\ Named(NameOf(t, attempt[t])) = {}
             /\ scripts' = scripts
    BY <2>2, AdditionKeeps DEF BoxOf
  <2> QED BY <1>2, <2>1, <2>2 DEF DockerRun, StartFails
<1>3. ASSUME NEW t \in Trials, Exec(t)
      PROVE  BoxInv'
  <2>1. BoxOf(t) \in boxes /\ boxes' = boxes /\ scripts' = scripts \cup {Script(t)}
    BY <1>3 DEF Exec
  <2>2. Script(t) \in [by : Trials \X Nat, run : Nat]
    <3>1. attempt[t] \in Nat /\ redeploy[t] \in Nat
      BY JobAssumption DEF Typed, AttemptOK, ObjectsOK
    <3> QED BY <3>1 DEF Script, Cur
  <2>3. BoxOf(t).by = Script(t).by /\ BoxOf(t).name = Name[Script(t).by[1]]
    BY DEF BoxOf, Script, NameOf, Cur
  <2> QED BY <2>1, <2>2, <2>3 DEF BoxInv, Boxed, ScriptsOK, OnePerName
<1>4. ASSUME NEW t \in Trials, ScriptEnds(t)
      PROVE  BoxInv'
  <2>1. boxes' = boxes \ {} /\ InBoxes({}) \subseteq {Script(t)}
    BY <1>4 DEF ScriptEnds, InBoxes
  <2> QED BY <1>4, <2>1, RemovalKeeps DEF ScriptEnds, EndScripts
<1>5. ASSUME NEW t \in Trials, DockerStop(t)
      PROVE  BoxInv'
  BY <1>5, StopByNameKeeps DEF DockerStop
<1>6. ASSUME NEW t \in Trials, Steps(t),
             ~Build(t), ~DockerRun(t), ~StartFails(t), ~Exec(t), ~ScriptEnds(t), ~DockerStop(t)
      PROVE  BoxInv'
  <2>1. UNCHANGED <<boxes, scripts>>
    BY <1>6 DEF Steps, Acquire, Retry, BeginAttempt, CreateFails, Enter, BuildFails, WriteConfig,
          Refuse, ScriptTimesOut, Manage, Redeploy, Stop, Persist, docker
  <2> QED BY <2>1 DEF BoxInv, Boxed, ScriptsOK, OnePerName
<1>7. CASE LateScriptEnds
  <2>1. PICK s \in scripts : EndScripts({s})
    BY <1>7 DEF LateScriptEnds
  <2>2. boxes' = boxes \ {} /\ InBoxes({}) \subseteq {s}
    BY <1>7 DEF LateScriptEnds, InBoxes
  <2> QED BY <2>1, <2>2, RemovalKeeps DEF EndScripts
<1>8. CASE DetachedStop
  BY <1>8, StopByNameKeeps DEF DetachedStop
<1>9. CASE DaemonRuns
  <2>1. scripts' = scripts
    BY <1>9 DEF DaemonRuns
  <2>2. PICK d \in launching :
          boxes' = IF Named(NameOf(d[1], d[2])) = {}
                   THEN boxes \cup {[name |-> NameOf(d[1], d[2]), by |-> d]} ELSE boxes
    BY <1>9 DEF DaemonRuns
  <2>3. CASE boxes' = boxes
    BY <2>1, <2>3 DEF BoxInv, Boxed, ScriptsOK, OnePerName
  <2>4. CASE Named(NameOf(d[1], d[2])) = {}
    BY <2>1, <2>2, <2>4, AdditionKeeps
  <2> QED BY <2>2, <2>3, <2>4
<1>10. CASE CtrlC
  <2>1. PICK gone, more :
          /\ boxes' = boxes \ gone
          /\ EndScripts(InBoxes(more)) /\ gone \subseteq more
    <3>1. \E gone, halted :
            boxes' = boxes \ BoxesOf(gone) /\ EndScripts(InBoxes(BoxesOf(gone \cup halted)))
      BY <1>10 DEF CtrlC
    <3>2. \A gone, halted : BoxesOf(gone) \subseteq BoxesOf(gone \cup halted)
      BY DEF BoxesOf
    <3> QED BY <3>1, <3>2
  <2>2. InBoxes(gone) \subseteq InBoxes(more)
    BY <2>1 DEF InBoxes
  <2> QED BY <2>1, <2>2, RemovalKeeps DEF EndScripts
<1>11. CASE JobEnds \/ UNCHANGED vars
  BY <1>11 DEF JobEnds, vars, docker, BoxInv, Boxed, ScriptsOK, OnePerName
<1> QED BY StepCases, <1>1, <1>2, <1>3, <1>4, <1>5, <1>6, <1>7, <1>8, <1>9, <1>10, <1>11

LEMMA OneAttemptPerTrial ==
  ASSUME BoxInv
  PROVE  \A s, u \in scripts : s.by[1] = u.by[1] => s.by = u.by
<1> SUFFICES ASSUME NEW s \in scripts, NEW u \in scripts, s.by[1] = u.by[1]
             PROVE  s.by = u.by
  OBVIOUS
<1>1. PICK b \in boxes : b.by = s.by /\ b.name = Name[s.by[1]]
  BY DEF BoxInv, Boxed
<1>2. PICK c \in boxes : c.by = u.by /\ c.name = Name[u.by[1]]
  BY DEF BoxInv, Boxed
<1>3. b = c
  BY <1>1, <1>2 DEF BoxInv, OnePerName
<1> QED BY <1>1, <1>2, <1>3

-----------------------------------------------------------------------------
(* Scripts that overlap.  While an attempt works, all its scripts were     *)
(* given up but the one it waits for, and none is of a later run.          *)

LateInv ==
    /\ \A s \in scripts : LET t == s.by[1] IN
          /\ s.by[2] <= attempt[t]
          /\ s.by[2] = attempt[t] => pc[t] # "create"
          /\ s.by[2] = attempt[t] /\ pc[t] \in InTry =>
                /\ s.run <= redeploy[t]
                /\ s \in late \/ (pc[t] = "script" /\ s.run = redeploy[t])
    /\ \A s, u \in scripts : s.by = u.by /\ s.run < u.run => s \in late

(* Scripts may end, and are forgotten then. *)
Fewer ==
    /\ scripts' \subseteq scripts
    /\ scripts' \cap late \subseteq late'
    /\ scripts' \cap kept \subseteq kept'

LEMMA EndScriptsFewer == ASSUME NEW e, EndScripts(e) PROVE Fewer
BY DEF EndScripts, Fewer

LEMMA StopByNameFewer ==
  ASSUME NEW n, StopByName(n)
  PROVE  Fewer
BY EndScriptsFewer DEF StopByName, Fewer

(* Which steps let scripts end only, and where they take the trial. *)
LEMMA StepFewer ==
  ASSUME Typed, NEW t \in Trials, Steps(t), ~Exec(t)
  PROVE  Fewer
<1>1. CASE Build(t) \/ ScriptEnds(t)
  BY <1>1, EndScriptsFewer DEF Build, ScriptEnds, Fewer
<1>2. CASE DockerStop(t)
  BY <1>2, StopByNameFewer DEF DockerStop
<1>3. CASE ~Build(t) /\ ~ScriptEnds(t) /\ ~DockerStop(t)
  <2>1. scripts' = scripts /\ late \subseteq late' /\ kept' = kept
    BY <1>3 DEF Steps, Acquire, Retry, BeginAttempt, CreateFails, Enter, BuildFails, DockerRun,
          StartFails, WriteConfig, Refuse, ScriptTimesOut, Manage, Redeploy, Stop, Persist, docker
  <2> QED BY <2>1 DEF Fewer
<1> QED BY <1>1, <1>2, <1>3

LEMMA StepMoves ==
  ASSUME Typed, NEW t \in Trials, Steps(t)
  PROVE  /\ \A u \in Trials \ {t} :
               pc'[u] = pc[u] /\ attempt'[u] = attempt[u] /\ redeploy'[u] = redeploy[u]
                 /\ started'[u] = started[u]
         /\ pc[t] \in InTry \ {"script"} =>
               /\ attempt'[t] = attempt[t] /\ pc'[t] # "create"
               /\ redeploy'[t] \in {redeploy[t], redeploy[t] + 1}
         /\ pc[t] \in {"stop", "docker", "persist"} =>
               attempt'[t] = attempt[t] /\ pc'[t] \notin InTry \cup {"create"}
         /\ pc[t] = "create" => attempt'[t] = attempt[t] /\ pc'[t] # "create"
         /\ pc[t] \in {"queued", "backoff"} =>
               attempt'[t] = attempt[t] + 1 /\ pc'[t] = "create"
         /\ pc[t] = "script" =>
               attempt'[t] = attempt[t] /\ redeploy'[t] = redeploy[t]
                 /\ pc'[t] \notin {"script", "create"}
         /\ pc[t] # "done"
<1> USE DEF Typed, PcOK, AttemptOK, ObjectsOK
<1>1. CASE Acquire(t) \/ Retry(t)
  BY <1>1 DEF Acquire, Retry, BeginAttempt, Goto, objects, InTry
<1>2. CASE CreateFails(t)
  <2>1. disk[t] \in Nat
    BY DEF OutOK
  <2>2. /\ \A u \in Trials \ {t} : pc'[u] = pc[u]
        /\ pc'[t] \in {"backoff", "done"}
    BY <1>2, <2>1, SettleTyped DEF CreateFails
  <2> QED BY <1>2, <2>2 DEF CreateFails, trialVars, objects, InTry
<1>3. CASE Enter(t) \/ Build(t) \/ DockerRun(t) \/ Exec(t) \/ Stop(t)
  BY <1>3 DEF Enter, Build, DockerRun, Exec, Stop, Goto, trialVars, objects, InTry
<1>4. CASE DockerStop(t)
  BY <1>4 DEF DockerStop, Goto, trialVars, objects, InTry
<1>5. CASE Manage(t)
  BY <1>5 DEF Manage, Goto, InTry
<1>6. CASE Redeploy(t)
  BY <1>6 DEF Redeploy, Goto, InTry
<1>7. CASE \/ BuildFails(t) \/ StartFails(t) \/ WriteConfig(t) \/ Refuse(t)
           \/ ScriptTimesOut(t) \/ ScriptEnds(t)
  <2>1. /\ started' = started
        /\ pc[t] \in {"build", "run", "config", "exec", "script"}
    BY <1>7 DEF BuildFails, StartFails, WriteConfig, Refuse, ScriptTimesOut, ScriptEnds
  <2>2. CASE \E f \in BOOLEAN : AfterScript(t, f)
    <3>1. PICK f \in BOOLEAN : AfterScript(t, f)
      BY <2>2
    <3>2. /\ \A u \in Trials \ {t} : pc'[u] = pc[u]
          /\ pc'[t] \in {"redeploy", "stop", "manage"}
          /\ redeploy' = redeploy
      BY <3>1, AfterScriptTyped
    <3>3. attempt' = attempt
      BY <3>1 DEF AfterScript
    <3> QED BY <2>1, <3>2, <3>3 DEF InTry
  <2>3. CASE pc[t] = "config" /\ Goto(t, "exec") /\ UNCHANGED trialVars
    BY <2>1, <2>3 DEF Goto, trialVars, objects, InTry
  <2>4. \/ \E f \in BOOLEAN : AfterScript(t, f)
        \/ pc[t] = "config" /\ Goto(t, "exec") /\ UNCHANGED trialVars
    BY <1>7 DEF BuildFails, StartFails, WriteConfig, Refuse, ScriptTimesOut, ScriptEnds
  <2> QED BY <2>2, <2>3, <2>4
<1>8. CASE Persist(t)
  <2>1. attempt' = attempt /\ pc[t] = "persist"
        /\ \A u \in Trials \ {t} : redeploy'[u] = redeploy[u] /\ started'[u] = started[u]
    BY <1>8 DEF Persist, Forget
  <2>2. /\ \A u \in Trials \ {t} : pc'[u] = pc[u]
        /\ pc'[t] \in {"backoff", "done"}
    <3>1. PICK record \in {attempt[t], disk[t], 0} :
             Settle(t, exc[t], record) \/ Goto(t, "done")
      BY <1>8 DEF Persist
    <3>2. record \in Nat
      BY JobAssumption DEF OutOK
    <3>3. CASE Settle(t, exc[t], record)
      BY <3>2, <3>3, SettleTyped
    <3>4. CASE Goto(t, "done")
      BY <3>4 DEF Goto
    <3> QED BY <3>1, <3>3, <3>4
  <2> QED BY <2>1, <2>2 DEF InTry
<1> QED BY <1>1, <1>2, <1>3, <1>4, <1>5, <1>6, <1>7, <1>8 DEF Steps

LEMMA StepKeepsLate ==
  ASSUME Typed, BoxInv, LateInv, NEW t \in Trials, Steps(t), ~Exec(t)
  PROVE  LateInv'
<1>1. Fewer
  BY StepFewer
<1>2. \A s, u \in scripts' : s.by = u.by /\ s.run < u.run => s \in late'
  BY <1>1 DEF Fewer, LateInv
<1>3. ASSUME NEW s \in scripts'
      PROVE  LET v == s.by[1] IN
             /\ s.by[2] <= attempt'[v]
             /\ s.by[2] = attempt'[v] => pc'[v] # "create"
             /\ s.by[2] = attempt'[v] /\ pc'[v] \in InTry =>
                   /\ s.run <= redeploy'[v]
                   /\ s \in late' \/ (pc'[v] = "script" /\ s.run = redeploy'[v])
  <2> DEFINE v == s.by[1]
  <2>1. /\ s \in scripts /\ (s \in late => s \in late')
        /\ s \in [by : Trials \X Nat, run : Nat]
    BY <1>1 DEF Fewer, BoxInv, ScriptsOK
  <2>2. /\ v \in Trials /\ s.by[2] \in Nat /\ s.run \in Nat
        /\ attempt[v] \in Nat /\ redeploy[v] \in Nat
        /\ s = [by |-> <<v, s.by[2]>>, run |-> s.run]
    BY <2>1, JobAssumption DEF Typed, AttemptOK, ObjectsOK
  <2>3. /\ s.by[2] <= attempt[v]
        /\ s.by[2] = attempt[v] => pc[v] # "create"
        /\ s.by[2] = attempt[v] /\ pc[v] \in InTry =>
              /\ s.run <= redeploy[v]
              /\ s \in late \/ (pc[v] = "script" /\ s.run = redeploy[v])
    BY <2>1 DEF LateInv
  <2>4. CASE v # t
    BY <2>1, <2>2, <2>3, <2>4, StepMoves
  <2>5. CASE v = t
    <3>1. CASE pc[t] \in {"queued", "backoff"}
      BY <2>2, <2>3, <2>5, <3>1, StepMoves DEF InTry
    <3>2. CASE pc[t] = "create"
      BY <2>2, <2>3, <2>5, <3>2, StepMoves
    <3>3. CASE pc[t] \in InTry \ {"script"}
      BY <2>1, <2>2, <2>3, <2>5, <3>3, StepMoves
    <3>4. CASE pc[t] = "script"
      <4>1. ScriptTimesOut(t) \/ ScriptEnds(t)
        BY <3>4 DEF Steps, Acquire, Retry, CreateFails, Enter, BuildFails, Build, DockerRun,
              StartFails, WriteConfig, Refuse, Exec, Manage, Redeploy, Stop, DockerStop, Persist
      <4>2. s.by[2] = attempt[v] /\ s.run = redeploy[v] => s = Script(t)
        BY <2>2, <2>5 DEF Script, Cur
      <4>3. s = Script(t) => s \in late'
        BY <2>1, <4>1 DEF ScriptTimesOut, ScriptEnds, EndScripts
      <4> QED BY <2>1, <2>2, <2>3, <2>5, <3>4, <4>2, <4>3, StepMoves DEF InTry
    <3>5. CASE pc[t] \in {"stop", "docker", "persist"}
      BY <2>2, <2>3, <2>5, <3>5, StepMoves
    <3> QED BY <3>1, <3>2, <3>3, <3>4, <3>5, StepMoves DEF Typed, PcOK, Pcs, Waiting
  <2> QED BY <2>4, <2>5
<1> QED BY <1>2, <1>3 DEF LateInv

LEMMA ExecKeepsLate ==
  ASSUME Typed, BoxInv, LateInv, NEW t \in Trials, Exec(t)
  PROVE  LateInv'
<1>1. /\ pc[t] = "exec" /\ pc'[t] = "script"
      /\ \A v \in Trials \ {t} : pc'[v] = pc[v]
      /\ scripts' = scripts \cup {Script(t)}
      /\ UNCHANGED <<attempt, redeploy, late>>
  BY DEF Exec, Goto, Typed, PcOK, trialVars, objects
<1>2. Script(t).by = <<t, attempt[t]>> /\ Script(t).run = redeploy[t]
  BY DEF Script, Cur
<1>3. attempt[t] \in Nat /\ redeploy[t] \in Nat
  BY JobAssumption DEF Typed, AttemptOK, ObjectsOK
<1>4. \A s \in scripts : s \in [by : Trials \X Nat, run : Nat]
  BY DEF BoxInv, ScriptsOK
<1>5. \A s \in scripts :
        s.by = <<t, attempt[t]>> => s \in late /\ s.run <= redeploy[t]
  BY <1>1 DEF LateInv, InTry
<1>6. ASSUME NEW s \in scripts', NEW u \in scripts', s.by = u.by, s.run < u.run
      PROVE  s \in late'
  <2>1. CASE s = Script(t)
    BY <1>1, <1>2, <1>3, <1>4, <1>5, <1>6, <2>1
  <2>2. CASE s \in scripts /\ u = Script(t)
    BY <1>1, <1>2, <1>5, <1>6, <2>2
  <2>3. CASE s \in scripts /\ u \in scripts
    BY <1>1, <1>6, <2>3 DEF LateInv
  <2> QED BY <1>1, <2>1, <2>2, <2>3
<1>7. ASSUME NEW s \in scripts'
      PROVE  LET v == s.by[1] IN
             /\ s.by[2] <= attempt'[v]
             /\ s.by[2] = attempt'[v] => pc'[v] # "create"
             /\ s.by[2] = attempt'[v] /\ pc'[v] \in InTry =>
                   /\ s.run <= redeploy'[v]
                   /\ s \in late' \/ (pc'[v] = "script" /\ s.run = redeploy'[v])
  <2>1. CASE s = Script(t)
    BY <1>1, <1>2, <1>3, <2>1
  <2>2. CASE s \in scripts /\ s.by[1] # t
    <3>1. s.by[1] \in Trials
      BY <1>4, <2>2
    <3> QED BY <1>1, <2>2, <3>1 DEF LateInv
  <2>3. CASE s \in scripts /\ s.by[1] = t
    <3>1. s.by = <<t, s.by[2]>>
      BY <1>4, <2>3
    <3>2. s.by[2] <= attempt[t]
      BY <2>3 DEF LateInv
    <3>3. s.by[2] = attempt[t] => s \in late /\ s.run <= redeploy[t]
      BY <1>5, <2>3, <3>1
    <3> QED BY <1>1, <2>3, <3>2, <3>3
  <2> QED BY <1>1, <2>1, <2>2, <2>3
<1> QED BY <1>6, <1>7 DEF LateInv

LEMMA LateInvInductive ==
  ASSUME Typed, BoxInv, LateInv, [Next]_vars
  PROVE  LateInv'
<1>1. ASSUME NEW t \in Trials, Steps(t)
      PROVE  LateInv'
  BY <1>1, StepKeepsLate, ExecKeepsLate
<1>2. CASE LateScriptEnds \/ DetachedStop \/ DaemonRuns \/ JobEnds \/ UNCHANGED vars
  <2>1. UNCHANGED <<pc, attempt, redeploy>>
    BY <1>2 DEF LateScriptEnds, DetachedStop, DaemonRuns, JobEnds, vars, trialVars, objects
  <2>2. Fewer
    <3>1. CASE LateScriptEnds
      BY <3>1, EndScriptsFewer DEF LateScriptEnds
    <3>2. CASE DetachedStop
      BY <3>2, StopByNameFewer DEF DetachedStop
    <3>3. CASE DaemonRuns \/ JobEnds \/ UNCHANGED vars
      BY <3>3 DEF DaemonRuns, JobEnds, vars, docker, Fewer
    <3> QED BY <1>2, <3>1, <3>2, <3>3
  <2> QED BY <2>1, <2>2 DEF LateInv, Fewer
<1>3. CASE CtrlC
  <2>1. UNCHANGED <<attempt, redeploy>>
    BY <1>3 DEF CtrlC
  <2>2. Fewer
    BY <1>3, EndScriptsFewer DEF CtrlC
  <2>3. \A t \in Trials : pc'[t] \notin InTry \cup {"create"}
    BY <1>3, CtrlCMoves DEF Typed, PcOK, Pcs, Waiting, InTry
  <2>4. \A s \in scripts' : s \in scripts /\ s.by[1] \in Trials
    BY <2>2 DEF Fewer, BoxInv, ScriptsOK
  <2> QED BY <2>1, <2>2, <2>3, <2>4 DEF LateInv, Fewer
<1> QED BY StepCases, <1>1, <1>2, <1>3

LEMMA InitialBoxes == Init => BoxInv /\ LateInv
BY DEF Init, BoxInv, ScriptsOK, Boxed, OnePerName, LateInv

(* Two scripts of one trial run at the same time only if they belong to    *)
(* one attempt and all but the newest were given up after a time-out, even *)
(* when docker refused to stop a container: start() takes no name that is  *)
(* taken.                                                                  *)
THEOREM ScriptsOverlapOnlyAfterTimeout == Spec => []OverlapOnlyAfterTimeout
<1>1. Typed /\ BoxInv /\ LateInv /\ [Next]_vars => (Typed /\ BoxInv /\ LateInv)'
  BY TypingInductive, BoxInvInductive, LateInvInductive
<1>2. BoxInv /\ LateInv => OverlapOnlyAfterTimeout
  BY OneAttemptPerTrial DEF LateInv, OverlapOnlyAfterTimeout
<1> QED BY InitialTyped, InitialBoxes, <1>1, <1>2, PTL DEF Spec

-----------------------------------------------------------------------------
(* What works on after a trial.  Until Ctrl-C is pressed a script that     *)
(* docker was not asked in vain to stop is of the attempt under way, whose *)
(* container counts as started, so that it will be stopped.                *)

InBox == {"config", "exec", "script"}

StartedInv == \A t \in Trials : pc[t] \in InBox => started[t]

QuietInv ==
    ~ctrlC => \A s \in scripts : LET t == s.by[1] IN
        \/ s \in kept
        \/ /\ s.by[2] = attempt[t] /\ started[t]
           /\ pc[t] \in InTry \cup {"stop", "docker"}

LEMMA StepStarted ==
  ASSUME Typed, NEW t \in Trials, Steps(t), pc[t] \in InBox => started[t]
  PROVE  /\ pc'[t] \in InBox => started'[t]
         /\ pc[t] \in InTry /\ started[t] => pc'[t] \in InTry \cup {"stop"} /\ started'[t]
         /\ pc[t] = "stop" /\ started[t] => pc'[t] = "docker" /\ started'[t]
<1> USE DEF Typed, PcOK, AttemptOK, ObjectsOK, InBox
<1>1. CASE Acquire(t) \/ Retry(t)
  BY <1>1 DEF Acquire, Retry, BeginAttempt, Goto, InTry
<1>2. CASE CreateFails(t)
  <2>1. disk[t] \in Nat
    BY DEF OutOK
  <2>2. pc'[t] \in {"backoff", "done"}
    BY <1>2, <2>1, SettleTyped DEF CreateFails
  <2> QED BY <1>2, <2>2 DEF CreateFails, InTry
<1>3. CASE Enter(t) \/ Build(t) \/ DockerRun(t) \/ Exec(t) \/ Stop(t)
  BY <1>3 DEF Enter, Build, DockerRun, Exec, Stop, Goto, InTry
<1>4. CASE DockerStop(t)
  BY <1>4 DEF DockerStop, Goto, InTry
<1>5. CASE Manage(t)
  BY <1>5 DEF Manage, Goto, InTry
<1>6. CASE Redeploy(t)
  BY <1>6 DEF Redeploy, Goto, InTry
<1>7. CASE \/ BuildFails(t) \/ StartFails(t) \/ WriteConfig(t) \/ Refuse(t)
           \/ ScriptTimesOut(t) \/ ScriptEnds(t)
  <2>1. started' = started
    BY <1>7 DEF BuildFails, StartFails, WriteConfig, Refuse, ScriptTimesOut, ScriptEnds
  <2>2. CASE \E f \in BOOLEAN : AfterScript(t, f)
    <3>1. pc'[t] \in {"redeploy", "stop", "manage"}
      BY <2>2, AfterScriptTyped
    <3> QED BY <1>7, <2>1, <3>1 DEF InTry, BuildFails, StartFails, WriteConfig, Refuse,
          ScriptTimesOut, ScriptEnds
  <2>3. CASE pc[t] = "config" /\ Goto(t, "exec")
    BY <2>1, <2>3 DEF Goto, InTry
  <2>4. (\E f \in BOOLEAN : AfterScript(t, f)) \/ (pc[t] = "config" /\ Goto(t, "exec"))
    BY <1>7 DEF BuildFails, StartFails, WriteConfig, Refuse, ScriptTimesOut, ScriptEnds
  <2> QED BY <2>2, <2>3, <2>4
<1>8. CASE Persist(t)
  <2>1. pc[t] = "persist"
    BY <1>8 DEF Persist
  <2>2. pc'[t] \notin InTry \cup {"create"}
    BY <1>8, <2>1, StepMoves
  <2> QED BY <2>1, <2>2 DEF InTry
<1> QED BY <1>1, <1>2, <1>3, <1>4, <1>5, <1>6, <1>7, <1>8 DEF Steps

LEMMA StartedInvInductive ==
  ASSUME Typed, StartedInv, [Next]_vars
  PROVE  StartedInv'
<1>1. ASSUME NEW t \in Trials, Steps(t)
      PROVE  StartedInv'
  BY <1>1, StepStarted, StepMoves DEF StartedInv
<1>2. CASE LateScriptEnds \/ DetachedStop \/ DaemonRuns \/ JobEnds \/ UNCHANGED vars
  <2>1. UNCHANGED <<pc, started>>
    BY <1>2 DEF LateScriptEnds, DetachedStop, DaemonRuns, JobEnds, vars
  <2> QED BY <2>1 DEF StartedInv
<1>3. CASE CtrlC
  BY <1>3, CtrlCMoves DEF StartedInv, Typed, PcOK, Pcs, Waiting, InTry, InBox
<1> QED BY StepCases, <1>1, <1>2, <1>3

LEMMA QuietInvInductive ==
  ASSUME Typed, BoxInv, StartedInv, QuietInv, [Next]_vars
  PROVE  QuietInv'
<1>1. ASSUME NEW t \in Trials, Steps(t)
      PROVE  QuietInv'
  <2>1. ctrlC' = ctrlC
    BY <1>1 DEF Steps, Acquire, Retry, BeginAttempt, CreateFails, Enter, BuildFails, Build,
          DockerRun, StartFails, WriteConfig, Refuse, Exec, ScriptTimesOut, ScriptEnds, Manage,
          Redeploy, Stop, DockerStop, Persist, outVars
  <2> SUFFICES ASSUME ~ctrlC, NEW s \in scripts', s \notin kept'
               PROVE  LET v == s.by[1] IN
                        /\ s.by[2] = attempt'[v] /\ started'[v]
                        /\ pc'[v] \in InTry \cup {"stop", "docker"}
    BY <2>1 DEF QuietInv
  <2>2. CASE Exec(t) /\ s = Script(t)
    <3>1. attempt' = attempt /\ started' = started /\ pc[t] = "exec"
      BY <2>2 DEF Exec, trialVars
    <3>2. pc'[t] = "script"
      BY <2>2 DEF Exec, Goto, Typed, PcOK
    <3>3. s.by = <<t, attempt[t]>>
      BY <2>2 DEF Script, Cur
    <3> QED BY <3>1, <3>2, <3>3 DEF StartedInv, InBox, InTry
  <2>3. CASE ~(Exec(t) /\ s = Script(t))
    <3>1. s \in scripts /\ s \notin kept
      <4>1. CASE Exec(t)
        BY <2>3, <4>1 DEF Exec
      <4>2. CASE ~Exec(t)
        BY <1>1, <4>2, StepFewer DEF Fewer
      <4> QED BY <4>1, <4>2
    <3> DEFINE v == s.by[1]
    <3>2. /\ v \in Trials /\ s.by = <<v, s.by[2]>>
          /\ s.by[2] = attempt[v] /\ started[v]
          /\ pc[v] \in InTry \cup {"stop", "docker"}
      BY <3>1 DEF QuietInv, BoxInv, ScriptsOK
    <3>3. CASE v # t
      BY <1>1, <3>2, <3>3, StepMoves
    <3>4. CASE v = t /\ pc[t] \in InTry \cup {"stop"}
      <4>1. attempt'[t] = attempt[t]
        BY <1>1, <3>4, StepMoves
      <4>2. pc[t] \in InBox => started[t]
        BY DEF StartedInv
      <4> QED BY <1>1, <3>2, <3>4, <4>1, <4>2, StepStarted
    <3>5. CASE v = t /\ pc[t] = "docker"
      <4>1. DockerStop(t)
        BY <1>1, <3>5 DEF Steps, Acquire, Retry, CreateFails, Enter, BuildFails, Build, DockerRun,
              StartFails, WriteConfig, Refuse, Exec, ScriptTimesOut, ScriptEnds, Manage, Redeploy,
              Stop, Persist
      <4>2. PICK b \in boxes : b.by = s.by /\ b.name = Name[t]
        BY <3>1, <3>5 DEF BoxInv, Boxed
      <4>3. s \in InBoxes(Named(NameOf(t, attempt[t])))
        BY <3>1, <4>2 DEF InBoxes, Named, NameOf
      <4>4. s \notin scripts' \/ s \in kept'
        BY <4>1, <4>3 DEF DockerStop, StopByName, EndScripts
      <4> QED BY <4>4
    <3> QED BY <3>2, <3>3, <3>4, <3>5
  <2> QED BY <2>2, <2>3
<1>2. CASE LateScriptEnds \/ DetachedStop \/ DaemonRuns \/ JobEnds \/ UNCHANGED vars
  <2>1. UNCHANGED <<pc, attempt, started, ctrlC>>
    BY <1>2 DEF LateScriptEnds, DetachedStop, DaemonRuns, JobEnds, vars, trialVars, outVars
  <2>2. Fewer
    <3>1. CASE LateScriptEnds
      BY <3>1, EndScriptsFewer DEF LateScriptEnds
    <3>2. CASE DetachedStop
      BY <3>2, StopByNameFewer DEF DetachedStop
    <3>3. CASE DaemonRuns \/ JobEnds \/ UNCHANGED vars
      BY <3>3 DEF DaemonRuns, JobEnds, vars, docker, Fewer
    <3> QED BY <1>2, <3>1, <3>2, <3>3
  <2> QED BY <2>1, <2>2 DEF QuietInv, Fewer
<1>3. CASE CtrlC
  BY <1>3 DEF CtrlC, QuietInv
<1> QED BY StepCases, <1>1, <1>2, <1>3

(* When a trial is over none of its scripts works on in its accounts, not  *)
(* even one that was timed out, unless docker refused to stop the          *)
(* container or Ctrl-C was pressed (_cleanup_container runs after every    *)
(* attempt, and a script runs only in a container that counts as started). *)
THEOREM TrialsEndQuiet == Spec => []QuietWhenDone
<1>1. Init => Typed /\ BoxInv /\ StartedInv /\ QuietInv
  <2>1. Init => StartedInv /\ QuietInv
    BY DEF Init, StartedInv, QuietInv, InBox
  <2> QED BY <2>1, InitialTyped, InitialBoxes
<1>2. Typed /\ BoxInv /\ StartedInv /\ QuietInv /\ [Next]_vars
        => (Typed /\ BoxInv /\ StartedInv /\ QuietInv)'
  BY TypingInductive, BoxInvInductive, StartedInvInductive, QuietInvInductive
<1>3. QuietInv => QuietWhenDone
  BY DEF QuietInv, QuietWhenDone, InTry
<1> QED BY <1>1, <1>2, <1>3, PTL DEF Spec
==============================================================================
