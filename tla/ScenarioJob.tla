---------------------------- MODULE ScenarioJob ----------------------------
(***************************************************************************)
(* One environment command: ScenarioJob.run starts a task per scenario, a  *)
(* semaphore lets NConcurrent of them work, each runs its phase in a       *)
(* container of its own, is tried again after a failure, and is counted    *)
(* once.  The resets that follow concurrent benchmark trials are the same  *)
(* machinery without retries and under one name.  A container is followed  *)
(* from docker run to docker rm, with the scripts that run in it, but      *)
(* without its credential files; Ctrl-C may come at any moment.            *)
(*                                                                         *)
(* Ctrl-C is what asyncio.run makes of KeyboardInterrupt: every task alive *)
(* is cancelled once, the task behind asyncio.shield included, and the     *)
(* loop runs on until all have ended.  A second Ctrl-C is not modelled.    *)
(* A docker client or a thread whose awaiter is cancelled keeps going.     *)
(***************************************************************************)
EXTENDS Naturals, FiniteSets

CONSTANTS
    Trials,        \* the scenarios of the job, one trial each
    Name,          \* the trials' names, from which their containers' are made
    Phases,        \* the phases the command may be
    NConcurrent,   \* n_concurrent
    MaxRetries,    \* RetryConfig.max_retries
    MaxRedeploys,  \* _REDEPLOY_MAX_ATTEMPTS
    Faults         \* the calls that may fail: docker's "run", "rm" and "stop",
                   \* the "write" of a record, the "rmtree" before a retry

ASSUME JobAssumption ==
    /\ Phases \subseteq {"deploy", "verify", "reset", "cleanup"}
    /\ NConcurrent \in Nat \ {0}
    /\ MaxRetries \in Nat
    /\ MaxRedeploys \in Nat \ {0}
    /\ Faults \subseteq {"run", "rm", "stop", "write", "rmtree"}

VARIABLES
    phase,      \* the phase of the command
    pc,         \* what each trial's task is doing
    attempt,    \* the attempt it is at, 0 while it is queued
    redeploy,   \* the redeploys that this attempt has begun
    scriptErr,  \* has the phase script of this attempt failed?
    exc,        \* ScenarioTrialResult.exception_info of this attempt
    unwinding,  \* is a cancellation propagating through run()?
    started,    \* ScenarioContainer._started
    boxes,      \* the containers docker has: [name, by], by an attempt
    launching,  \* the attempts whose docker run outlived the cancelled caller
    scripts,    \* the scripts running: [by, run]
    late,       \* the running scripts that were given up after a time-out
    disk,       \* the attempt whose result.json is in the trial's directory
    unwritten,  \* history: trials whose last write of result.json failed
    unremoved,  \* history: attempts whose directory outlived its removal
    detached,   \* attempts whose stop() goes on though its awaiter has left
    kept,       \* the running scripts whose container docker refused to stop
    result,     \* what the trial's task came to
    ctrlC,      \* has Ctrl-C been pressed?
    job         \* "running", "returned" or "raised"

docker == <<boxes, launching, scripts, late, kept>>
objects == <<redeploy, scriptErr, exc, unwinding>>
trialVars == <<attempt, objects>>
records == <<disk, unwritten, unremoved>>
outVars == <<records, result, phase, ctrlC, job>>
vars == <<pc, trialVars, started, docker, detached, outVars>>

Cur(t) == <<t, attempt[t]>>
Script(t) == [by |-> Cur(t), run |-> redeploy[t]]
Waiting == {"queued", "create", "backoff"}
InTry == {"build", "run", "config", "exec", "script",
          "manage", "redeploy"}

(* Mutant: every attempt names its container afresh. *)
NameOfAttempt(t, a) == <<t, a>>

(* The container's name is made of the trial's name, which all attempts of *)
(* the trial share.  An environment command makes up a name per trial; the *)
(* reset that follows each benchmark trial is called "scenario-reset".     *)
NameOf(t, a) == Name[t]
BoxOf(t) == [name |-> NameOf(t, attempt[t]), by |-> Cur(t)]
Named(n) == {b \in boxes : b.name = n}
BoxesOf(ts) == UNION {Named(NameOf(t, attempt[t])) : t \in ts}

InBoxes(bs) == {s \in scripts : \E b \in bs : s.by = b.by}

EndScripts(ended) ==
    /\ scripts' = scripts \ ended
    /\ late' = late \ ended
    /\ kept' = kept \ ended

Init ==
    /\ phase \in Phases
    /\ pc = [t \in Trials |-> "queued"]
    /\ attempt = [t \in Trials |-> 0]
    /\ redeploy = [t \in Trials |-> 0]
    /\ scriptErr = [t \in Trials |-> FALSE]
    /\ exc = [t \in Trials |-> "none"]
    /\ unwinding = [t \in Trials |-> FALSE]
    /\ started = [t \in Trials |-> FALSE]
    /\ boxes = {} /\ launching = {} /\ scripts = {} /\ late = {} /\ kept = {}
    /\ detached = {}
    /\ disk = [t \in Trials |-> 0]
    /\ unwritten = {} /\ unremoved = {}
    /\ result = [t \in Trials |-> "pending"]
    /\ ctrlC = FALSE
    /\ job = "running"

Goto(t, where) == pc' = [pc EXCEPT ![t] = where]
First(old, new) == IF old = "none" THEN new ELSE old

-----------------------------------------------------------------------------
(* The queue. *)

(* A slot of the semaphore is held through all attempts and back-offs. *)
Slots == {t \in Trials : pc[t] \notin {"queued", "done"}}

(* A new attempt is a new ScenarioTrial with a container object of its own. *)
BeginAttempt(t) ==
    /\ Goto(t, "create")
    /\ attempt' = [attempt EXCEPT ![t] = @ + 1]
    /\ UNCHANGED <<objects, started, docker, detached, outVars>>

(* With the end of an attempt its trial and container objects are dropped. *)
Forget(t) ==
    /\ redeploy' = [redeploy EXCEPT ![t] = 0]
    /\ scriptErr' = [scriptErr EXCEPT ![t] = FALSE]
    /\ exc' = [exc EXCEPT ![t] = "none"]
    /\ unwinding' = [unwinding EXCEPT ![t] = FALSE]
    /\ started' = [started EXCEPT ![t] = FALSE]
    /\ UNCHANGED attempt

Acquire(t) ==
    /\ pc[t] = "queued"
    /\ Cardinality(Slots) < NConcurrent
    /\ BeginAttempt(t)

Retry(t) ==
    /\ pc[t] = "backoff"
    /\ BeginAttempt(t)

(* An attempt ended and is not repeated. *)
Return(t, info, record) ==
    /\ Goto(t, "done")
    /\ disk' = [disk EXCEPT ![t] = record]
    /\ result' = [result EXCEPT ![t] = IF info = "none" THEN "ok" ELSE "failed"]
    /\ UNCHANGED unremoved

(* Mutant: the directory of a failed attempt is left for the next one. *)
SettleInPlace(t, info, record) ==
    IF info # "none" /\ attempt[t] <= MaxRetries
    THEN /\ Goto(t, "backoff")
         /\ disk' = [disk EXCEPT ![t] = record]
         /\ UNCHANGED <<unremoved, result>>
    ELSE Return(t, info, record)

(* What _execute_with_retries does with the result of an attempt, of which *)
(* `record' is on disk: return it, or remove the directory and try again.  *)
(* A removal that fails is not noticed (rmtree ignores errors).            *)
Settle(t, info, record) ==
    IF info # "none" /\ attempt[t] <= MaxRetries
    THEN /\ Goto(t, "backoff")
         /\ \/ disk' = [disk EXCEPT ![t] = 0] /\ UNCHANGED unremoved
            \/ /\ "rmtree" \in Faults /\ record # 0
               /\ disk' = [disk EXCEPT ![t] = record]
               /\ unremoved' = unremoved \cup {Cur(t)}
         /\ UNCHANGED result
    ELSE Return(t, info, record)

(* ScenarioTrial.create fails, or run() cannot write the trial's config: a *)
(* result is made up, and none is written.                                 *)
CreateFails(t) ==
    /\ pc[t] = "create"
    /\ Settle(t, "error", disk[t])
    /\ UNCHANGED <<trialVars, started, docker, detached, unwritten, phase, ctrlC, job>>

(* run() begins.  The best-effort sweep before a cleanup only touches the  *)
(* account.  A phase other than deploy may have no script.                 *)
Enter(t) ==
    /\ pc[t] = "create"
    /\ \/ Goto(t, "build")
       \/ phase # "deploy" /\ Goto(t, "manage")
    /\ UNCHANGED <<trialVars, started, docker, detached, outVars>>

-----------------------------------------------------------------------------
(* The phase script in its container. *)

(* The script part is over.  In run() a failure is kept until resource     *)
(* management is through, which after a failed deploy is not run at all;   *)
(* in _redeploy_with_retry it is followed by another try or given up.      *)
AfterScript(t, failed) ==
    /\ IF redeploy[t] > 0
       THEN /\ \/ failed /\ redeploy[t] < MaxRedeploys /\ Goto(t, "redeploy") /\ UNCHANGED exc
               \/ failed /\ redeploy[t] = MaxRedeploys
                  /\ Goto(t, "stop") /\ exc' = [exc EXCEPT ![t] = "error"]
               \/ ~failed /\ Goto(t, "manage") /\ UNCHANGED exc
            /\ UNCHANGED scriptErr
       ELSE /\ scriptErr' = [scriptErr EXCEPT ![t] = failed]
            /\ IF failed /\ phase = "deploy"
               THEN Goto(t, "stop") /\ exc' = [exc EXCEPT ![t] = "error"]
               ELSE Goto(t, "manage") /\ UNCHANGED exc
    /\ UNCHANGED <<attempt, redeploy, unwinding>>

(* docker build fails or takes too long. *)
BuildFails(t) ==
    /\ pc[t] = "build"
    /\ AfterScript(t, TRUE)
    /\ UNCHANGED <<started, docker, detached, outVars>>

(* build() succeeds and start() removes a container of this name.  A       *)
(* refused removal is only logged.                                         *)
Build(t) ==
    /\ pc[t] = "build"
    /\ Goto(t, "run")
    /\ LET gone == Named(NameOf(t, attempt[t])) IN
       \/ boxes' = boxes \ gone /\ EndScripts(InBoxes(gone))
       \/ "rm" \in Faults /\ gone # {} /\ UNCHANGED <<boxes, scripts, late, kept>>
    /\ UNCHANGED <<trialVars, started, launching, detached, outVars>>

DockerRun(t) ==
    /\ pc[t] = "run"
    /\ Named(NameOf(t, attempt[t])) = {}
    /\ boxes' = boxes \cup {BoxOf(t)}
    /\ started' = [started EXCEPT ![t] = TRUE]
    /\ Goto(t, "config")
    /\ UNCHANGED <<trialVars, launching, scripts, late, kept, detached, outVars>>

(* Credentials cannot be minted, the name is taken, or docker created the  *)
(* container and could not start it.  The object is not marked as started. *)
StartFails(t) ==
    /\ pc[t] = "run"
    /\ \/ UNCHANGED boxes
       \/ "run" \in Faults /\ Named(NameOf(t, attempt[t])) = {}
          /\ boxes' = boxes \cup {BoxOf(t)}
    /\ AfterScript(t, TRUE)
    /\ UNCHANGED <<started, launching, scripts, late, kept, detached, outVars>>

(* ~/.aws/config is written and the refresher started. *)
WriteConfig(t) ==
    /\ pc[t] = "config"
    /\ \/ Goto(t, "exec") /\ UNCHANGED trialVars
       \/ AfterScript(t, TRUE)
    /\ UNCHANGED <<started, docker, detached, outVars>>

(* The guardrails of a deploy, the upload and mkdir/chmod may each fail.   *)
Refuse(t) ==
    /\ pc[t] = "exec"
    /\ AfterScript(t, TRUE)
    /\ UNCHANGED <<started, docker, detached, outVars>>

Exec(t) ==
    /\ pc[t] = "exec"
    /\ BoxOf(t) \in boxes
    /\ scripts' = scripts \cup {Script(t)}
    /\ Goto(t, "script")
    /\ UNCHANGED <<trialVars, started, boxes, launching, late, kept, detached, outVars>>

(* docker exec answers: the script has ended, or its container is gone.    *)
ScriptEnds(t) ==
    /\ pc[t] = "script"
    /\ EndScripts({Script(t)})
    /\ \E failed \in BOOLEAN :
          /\ Script(t) \notin scripts => failed
          /\ AfterScript(t, failed)
    /\ UNCHANGED <<started, boxes, launching, detached, outVars>>

(* Mutant: docker exec is awaited without a time-out. *)
ScriptNeverTimesOut(t) == FALSE /\ UNCHANGED vars

(* asyncio.wait_for gives up; the script runs on inside the container.     *)
ScriptTimesOut(t) ==
    /\ pc[t] = "script"
    /\ late' = late \cup ({Script(t)} \cap scripts)
    /\ AfterScript(t, TRUE)
    /\ UNCHANGED <<started, boxes, launching, scripts, kept, detached, outVars>>

(* A script nobody waits for any more ends by itself. *)
LateScriptEnds ==
    /\ \E s \in scripts :
          /\ ~ \E t \in Trials : pc[t] = "script" /\ s = Script(t)
          /\ EndScripts({s})
    /\ UNCHANGED <<pc, trialVars, started, boxes, launching, detached, outVars>>

-----------------------------------------------------------------------------
(* Resource management on the host, after the script. *)

(* It succeeds (then a script failure is raised), fails, or, in a reset    *)
(* that had to delete stacks, asks for a redeploy.  After Ctrl-C its       *)
(* threads raise OperationCancelled.                                       *)
Manage(t) ==
    /\ pc[t] = "manage"
    /\ \/ \E failed \in BOOLEAN :
             /\ exc' = [exc EXCEPT ![t] = IF failed \/ scriptErr[t] THEN "error" ELSE "none"]
             /\ Goto(t, "stop")
             /\ UNCHANGED unwinding
       \/ /\ phase = "reset" /\ redeploy[t] = 0
          /\ Goto(t, "redeploy")
          /\ UNCHANGED <<exc, unwinding>>
       \/ /\ ctrlC
          /\ exc' = [exc EXCEPT ![t] = "cancelled"]
          /\ unwinding' = [unwinding EXCEPT ![t] = TRUE]
          /\ Goto(t, "stop")
    /\ UNCHANGED <<attempt, redeploy, scriptErr, started, docker, detached, outVars>>

(* The container of the reset script is used again when there is one. *)
Redeploy(t) ==
    /\ pc[t] = "redeploy"
    /\ redeploy' = [redeploy EXCEPT ![t] = @ + 1]
    /\ Goto(t, IF started[t] THEN "exec" ELSE "build")
    /\ UNCHANGED <<attempt, scriptErr, exc, unwinding, started, docker, detached, outVars>>

-----------------------------------------------------------------------------
(* _cleanup_container and the end of run(). *)

(* Mutant: only an attempt that succeeded stops its container. *)
StopAfterSuccess(t) ==
    /\ pc[t] = "stop"
    /\ Goto(t, IF started[t] /\ exc[t] = "none" THEN "docker" ELSE "persist")
    /\ UNCHANGED <<trialVars, started, docker, detached, outVars>>

(* stop() returns at once unless the container counts as started. *)
Stop(t) ==
    /\ pc[t] = "stop"
    /\ Goto(t, IF started[t] THEN "docker" ELSE "persist")
    /\ UNCHANGED <<trialVars, started, docker, detached, outVars>>

(* docker stop and docker rm -f by name: the containers are removed, only  *)
(* stopped, or kept as they are.                                           *)
StopByName(n) ==
    LET hit == Named(n) IN
    \/ boxes' = boxes \ hit /\ EndScripts(InBoxes(hit))
    \/ "rm" \in Faults /\ EndScripts(InBoxes(hit)) /\ UNCHANGED boxes
    \/ "stop" \in Faults /\ kept' = kept \cup InBoxes(hit)
       /\ UNCHANGED <<boxes, scripts, late>>

(* A call of stop() that raises is recorded as the attempt's failure, if   *)
(* it is the first; the container still counts as started.                 *)
DockerStop(t) ==
    /\ pc[t] = "docker"
    /\ StopByName(NameOf(t, attempt[t]))
    /\ \/ started' = [started EXCEPT ![t] = FALSE] /\ UNCHANGED exc
       \/ /\ Faults \cap {"rm", "stop"} # {}
          /\ exc' = [exc EXCEPT ![t] = First(exc[t], "error")]
          /\ UNCHANGED <<boxes, started>>
    /\ Goto(t, "persist")
    /\ UNCHANGED <<attempt, redeploy, scriptErr, unwinding, launching, detached,
                   outVars>>

(* What _persist_result leaves on disk: the record of this attempt, or, by *)
(* a failure that is logged and swallowed, what was there (making the      *)
(* directory or serializing failed) or no whole record (writing did).      *)
Recorded(t, record) ==
    \/ record = attempt[t] /\ unwritten' = unwritten \ {t}
    \/ /\ "write" \in Faults /\ record \in {disk[t], 0}
       /\ unwritten' = unwritten \cup {t}

(* The result is written, then run() re-raises a cancellation of its body  *)
(* or returns the result it has in memory to the retry loop.               *)
Persist(t) ==
    /\ pc[t] = "persist"
    /\ \E record \in {attempt[t], disk[t], 0} :
          /\ Recorded(t, record)
          /\ IF unwinding[t]
             THEN /\ Goto(t, "done")
                  /\ disk' = [disk EXCEPT ![t] = record]
                  /\ result' = [result EXCEPT ![t] = "cancelled"]
                  /\ UNCHANGED unremoved
             ELSE Settle(t, exc[t], record)
    /\ Forget(t)
    /\ UNCHANGED <<docker, detached, phase, ctrlC, job>>

-----------------------------------------------------------------------------
(* Ctrl-C, and what goes on without its caller. *)

(* Every task is cancelled where it waits.  In run()'s body the            *)
(* cancellation is recorded and propagates; one that arrives while the     *)
(* container is being stopped is recorded and swallowed, and the shielded  *)
(* stop, cancelled with the rest, either never begins, goes on because it  *)
(* took the cancellation for the refresher's (`astray'), or is left with   *)
(* the docker call it was at (`gone', `halted').                           *)
CtrlC ==
    /\ ~ctrlC /\ job = "running"
    /\ ctrlC' = TRUE
    /\ LET body == {t \in Trials : pc[t] \in InTry}
           calling == {t \in Trials : pc[t] = "docker"}
           stopping == {t \in Trials : pc[t] = "stop"} \cup calling IN
       /\ pc' = [t \in Trials |->
                    CASE pc[t] \in Waiting -> "done"
                      [] t \in body -> "stop"
                      [] t \in stopping -> "persist"
                      [] OTHER -> pc[t]]
       /\ result' = [t \in Trials |-> IF pc[t] \in Waiting THEN "cancelled" ELSE result[t]]
       /\ unwinding' = [t \in Trials |-> unwinding[t] \/ t \in body]
       /\ exc' = [t \in Trials |-> IF t \in body \cup stopping
                                    THEN First(exc[t], "cancelled") ELSE exc[t]]
       /\ \E sent \in SUBSET {t \in body : pc[t] = "run"} :
             launching' = launching \cup {Cur(t) : t \in sent}
       /\ \E astray \in SUBSET {t \in stopping : pc[t] = "stop" /\ started[t]} :
             detached' = detached \cup {Cur(t) : t \in astray}
       /\ \E gone \in SUBSET calling, halted \in SUBSET calling :
             /\ boxes' = boxes \ BoxesOf(gone)
             /\ EndScripts(InBoxes(BoxesOf(gone \cup halted)))
    /\ UNCHANGED <<attempt, redeploy, scriptErr, started, records, phase, job>>

(* A stop() that was taken for ended goes on, by the container's name. *)
DetachedStop ==
    /\ \E d \in detached :
          /\ StopByName(NameOf(d[1], d[2]))
          /\ detached' = detached \ {d}
    /\ UNCHANGED <<pc, trialVars, started, launching, outVars>>

(* docker carries out a run whose caller was cancelled. *)
DaemonRuns ==
    /\ \E d \in launching :
          /\ launching' = launching \ {d}
          /\ boxes' = IF Named(NameOf(d[1], d[2])) = {}
                      THEN boxes \cup {[name |-> NameOf(d[1], d[2]), by |-> d]} ELSE boxes
    /\ UNCHANGED <<pc, trialVars, started, scripts, late, kept, detached, outVars>>

(* gather has settled every task: the results are aggregated, and a        *)
(* cancellation, of the job or of one trial, is raised again.              *)
JobEnds ==
    /\ job = "running"
    /\ \A t \in Trials : pc[t] = "done"
    /\ job' = IF ctrlC \/ \E t \in Trials : result[t] = "cancelled"
              THEN "raised" ELSE "returned"
    /\ UNCHANGED <<pc, trialVars, started, docker, detached, records, result, phase, ctrlC>>

-----------------------------------------------------------------------------
(* What comes back in any case. *)
Prompt(t) ==
    \/ Acquire(t) \/ Retry(t) \/ CreateFails(t) \/ Enter(t)
    \/ BuildFails(t) \/ Build(t) \/ DockerRun(t) \/ StartFails(t)
    \/ WriteConfig(t) \/ Refuse(t) \/ Exec(t) \/ ScriptTimesOut(t)
    \/ Manage(t) \/ Redeploy(t)
    \/ Stop(t) \/ DockerStop(t) \/ Persist(t)

Next ==
    \/ \E t \in Trials : Prompt(t) \/ ScriptEnds(t)
    \/ LateScriptEnds \/ DetachedStop \/ DaemonRuns
    \/ CtrlC \/ JobEnds

(* The loop goes on while some task can: docker and AWS answer, and a      *)
(* script is timed out.  A script need not end by itself, and nobody has   *)
(* to press Ctrl-C.                                                        *)
Fairness == WF_vars(JobEnds \/ \E t \in Trials : Prompt(t))

Spec == Init /\ [][Next]_vars /\ Fairness

-----------------------------------------------------------------------------
(* Properties. *)

TypeOK ==
    /\ phase \in Phases
    /\ pc \in [Trials -> Waiting \cup InTry \cup {"stop", "docker", "persist", "done"}]
    /\ attempt \in [Trials -> 0 .. MaxRetries + 1]
    /\ redeploy \in [Trials -> 0 .. MaxRedeploys]
    /\ exc \in [Trials -> {"none", "error", "cancelled"}]
    /\ started \in [Trials -> BOOLEAN]
    /\ unwinding \in [Trials -> BOOLEAN]
    /\ result \in [Trials -> {"pending", "ok", "failed", "cancelled"}]
    /\ job \in {"running", "returned", "raised"}

(* Two scripts of one trial work on its accounts at the same time only if  *)
(* they belong to one attempt and all but the newest were given up after a *)
(* time-out: a new attempt never starts beside a script of an old one,     *)
(* even when docker refused to stop the old container.                     *)
OverlapOnlyAfterTimeout ==
    \A s, u \in scripts :
        s.by[1] = u.by[1] =>
            /\ s.by = u.by
            /\ s.run < u.run => s \in late

(* What is left in a trial's directory at its end is the record of its     *)
(* last attempt, unless the file system refused: an earlier attempt's      *)
(* record is there only when every removal since has failed, and a trial   *)
(* that is reported to have succeeded lacks its own only when the write of *)
(* it has failed (both failures are swallowed, and the result reported).   *)
RecordIsLastAttempts ==
    \A t \in Trials :
        pc[t] = "done" =>
            /\ disk[t] # 0 =>
                  /\ disk[t] <= attempt[t]
                  /\ \A a \in disk[t] .. attempt[t] - 1 : <<t, a>> \in unremoved
            /\ result[t] = "ok" /\ disk[t] # attempt[t] => t \in unwritten

(* When a trial is over none of its scripts works on in its accounts, not  *)
(* even one that was timed out or abandoned, unless docker refused to stop *)
(* the container or Ctrl-C was pressed.                                    *)
QuietWhenDone ==
    \A s \in scripts :
        pc[s.by[1]] \in {"done", "backoff"} => ctrlC \/ s \in kept

(* _remove_existing's docstring: what it removes is a stale container of   *)
(* the same name.  So the container a script runs in is not taken away     *)
(* while its trial waits for the script.                                   *)
ContainerStaysUnderScript ==
    [][\A t \in Trials :
          pc[t] = "script" /\ pc'[t] = "script" /\ BoxOf(t) \in boxes
              => BoxOf(t) \in boxes']_vars

(* Every job comes to an end, with or without Ctrl-C. *)
JobEventuallyEnds == <>(job # "running")

=============================================================================
