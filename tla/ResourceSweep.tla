---------------------------- MODULE ResourceSweep ----------------------------
(***************************************************************************)
(* ResourceSweeper.delete: deleting a set of resources in one account and  *)
(* region.                                                                 *)
(*                                                                         *)
(* ResourceCleaner prepares them, deletes those whose type has a handler   *)
(* of its own, in parallel threads, and leaves the others to the Deleter,  *)
(* which goes through Cloud Control level by level, highest first, two     *)
(* passes of submitting and polling each.                                  *)
(*                                                                         *)
(* A deletion takes its time in the cloud.  It is refused while a resource *)
(* that depends on the one deleted is there (Needs), and cannot finish     *)
(* once a resource it works with, a role, is gone (Uses).                  *)
(***************************************************************************)
EXTENDS FiniteSets, Naturals

CONSTANTS
  Items,     \* the resources asked for
  Level,     \* the level of a resource in the deleter's order
  Handler,   \* how its type is deleted
  Needs,     \* what must be gone before it can be deleted
  Uses,      \* what must be there until its deletion ends
  Excluded,  \* of types Cloud Control cannot delete, and protected roles
  Others,    \* what other operations may be deleting when the sweep starts
  Faults,    \* what else may go wrong: "submit", "status", "slow", "refuse",
             \* "custom", "describe", "exists", "prepare"
  MaxStruck  \* how many resources faults other than timeouts strike

Kinds == {"cloud control",  \* no handler
          "service",        \* one call (service_delete)
          "replicated",     \* one call that may be put off for hours (Lambda@Edge)
          "instance",       \* accepted, not waited for (AWS::RDS::DBInstance)
          "cluster",        \* read, deleted, waited for (database clusters)
          "environment"}    \* deletion begun by the prepare step (AWS::Batch)

ASSUME SweepAssumption ==
  /\ Level \in [Items -> Nat]
  /\ MaxStruck \in Nat
  /\ Handler \in [Items -> Kinds]
  /\ Needs \in [Items -> SUBSET Items]
  /\ Uses \in [Items -> SUBSET Items]
  /\ Excluded \cup Others \subseteq {i \in Items : Handler[i] = "cloud control"}

VARIABLES
  live,       \* the resources that exist
  deleting,   \* those of them with a deletion going on
  verdict,    \* what became of the last Cloud Control request for one
  foreign,    \* those another operation was deleting from the start
  deferred,   \* the registry of deferred_scope
  phase,
  todo,       \* what the phase has still to take up
  waiting,    \* handlers that wait for a deletion to end
  queue,      \* what the deleter has not come to yet
  pass,       \* of the current batch
  remaining,  \* of the current batch, for the next pass
  tokens,     \* pending request tokens
  failed,     \* failures of the batch
  failures,   \* the result
  struck      \* resources something went wrong with (not part of the code's state)

cloud == <<live, deleting, verdict>>
batch == <<queue, pass, remaining, tokens, failed>>
vars == <<cloud, foreign, deferred, phase, todo, waiting, batch, failures, struck>>

Strike(i) == struck' = struck \cup {i} /\ Cardinality(struck') <= MaxStruck

By(kind) == {i \in Items : Handler[i] = kind}

-----------------------------------------------------------------------------
(* The cloud *)

Free(i) == Needs[i] \cap live = {}

Settle(i, what) ==
  verdict' = IF verdict[i] = "running" THEN [verdict EXCEPT ![i] = what] ELSE verdict

Goes(i) ==
  /\ i \in deleting
  /\ Free(i) /\ Uses[i] \subseteq live
  /\ live' = live \ {i}
  /\ deleting' = deleting \ {i}
  /\ Settle(i, "ok")
  /\ UNCHANGED <<foreign, deferred, phase, todo, waiting, batch, failures, struck>>

Stays(i) ==
  /\ i \in deleting
  /\ ~Free(i) \/ "refuse" \in Faults
  /\ deleting' = deleting \ {i}
  /\ Settle(i, "failed")
  /\ IF Free(i) THEN Strike(i) ELSE UNCHANGED struck
  /\ UNCHANGED <<live, foreign, deferred, phase, todo, waiting, batch, failures>>

-----------------------------------------------------------------------------
(* ResourceCleaner.cleanup *)

Init ==
  /\ live = Items
  /\ foreign \in SUBSET Others
  /\ deleting = foreign
  /\ verdict = [i \in Items |-> "none"]
  /\ deferred = {}
  /\ phase = "prepare"
  /\ todo = By("environment")
  /\ waiting = {}
  /\ queue = {} /\ pass = 1 /\ remaining = {} /\ tokens = {} /\ failed = {}
  /\ failures = {}
  /\ struck = {}

(* Of the prepare handlers only this one begins a deletion.  What it       *)
(* returns is not looked at.                                               *)
Prepare(i) ==
  /\ phase = "prepare" /\ i \in todo
  /\ todo' = todo \ {i}
  /\ \/ /\ deleting' = deleting \cup {i}
        /\ UNCHANGED struck
     \/ /\ "prepare" \in Faults
        /\ Strike(i)
        /\ UNCHANGED deleting
  /\ UNCHANGED <<live, verdict, foreign, deferred, phase, waiting, batch, failures>>

Prepared ==
  /\ phase = "prepare" /\ todo = {}
  /\ phase' = "custom"
  /\ todo' = Items \ By("cloud control")
  /\ UNCHANGED <<cloud, foreign, deferred, waiting, batch, failures, struck>>

(* The handlers run in threads, each deleting one resource; a failure is a *)
(* result FAILED or an exception.                                          *)
Handles(i) ==
  /\ phase = "custom" /\ i \in todo
  /\ todo' = todo \ {i}
  /\ UNCHANGED <<verdict, foreign, phase, batch>>

(* mutant of Fails: the failure is only logged *)
FailsQuietly(i) ==
  /\ Handles(i)
  /\ i \in live
  /\ ~Free(i) \/ "custom" \in Faults
  /\ struck' = IF Free(i) THEN struck \cup {i} ELSE struck
  /\ UNCHANGED <<live, deleting, deferred, waiting, failures>>

Fails(i) ==
  /\ Handles(i)
  /\ i \in live
  /\ Handler[i] = "environment" => i \notin deleting
  /\ ~Free(i) \/ "custom" \in Faults
  /\ failures' = failures \cup {i}
  /\ IF Free(i) THEN Strike(i) ELSE UNCHANGED struck
  /\ UNCHANGED <<live, deleting, deferred, waiting>>

DeletesAtOnce(i) ==
  /\ Handles(i)
  /\ Handler[i] \in {"service", "replicated"}
  /\ Free(i)
  /\ live' = live \ {i}
  /\ UNCHANGED <<deleting, deferred, waiting, failures, struck>>

Defers(i) ==
  /\ Handles(i)
  /\ Handler[i] = "replicated"
  /\ deferred' = deferred \cup {i}
  /\ UNCHANGED <<live, deleting, waiting, failures, struck>>

(* delete_db_instance is accepted, and the handler is done. *)
Accepted(i) ==
  /\ Handles(i)
  /\ Handler[i] = "instance"
  /\ deleting' = deleting \cup {i}
  /\ UNCHANGED <<live, deferred, waiting, failures, struck>>

(* _prepare_cluster takes any error of the describe call for a cluster     *)
(* that is not there: SKIPPED, which _full_delete passes on and            *)
(* _custom_delete takes for success.                                       *)
Misreads(i) ==
  /\ Handles(i)
  /\ Handler[i] = "cluster"
  /\ "describe" \in Faults
  /\ Strike(i)
  /\ UNCHANGED <<live, deleting, deferred, waiting, failures>>

(* The delete handler runs the prepare step once more.  An environment     *)
(* that is already deleting, by the first prepare step, makes it return    *)
(* SKIPPED, and the handler's own wait is never reached.                   *)
AlreadyDeleting(i) ==
  /\ Handles(i)
  /\ Handler[i] = "environment"
  /\ i \in deleting \/ i \notin live
  /\ UNCHANGED <<live, deleting, deferred, waiting, failures, struck>>

DeletesAndWaits(i) ==
  /\ Handles(i)
  /\ Handler[i] \in {"cluster", "environment"}
  /\ i \in live \ deleting
  /\ deleting' = deleting \cup {i}
  /\ waiting' = waiting \cup {i}
  /\ UNCHANGED <<live, deferred, failures, struck>>

Waits(i) ==
  /\ i \in waiting
  /\ waiting' = waiting \ {i}
  /\ \/ /\ i \notin live
        /\ UNCHANGED <<failures, struck>>
     \/ /\ i \in live
        /\ "slow" \in Faults
        /\ failures' = failures \cup {i}
        /\ struck' = struck \cup {i}
  /\ UNCHANGED <<cloud, foreign, deferred, phase, todo, batch>>

-----------------------------------------------------------------------------
(* Deleter.delete_resources *)

(* mutant of Batch: lowest level first *)
BatchLowest(set) == {i \in set : \A j \in set : Level[i] <= Level[j]}

(* _order_batches: the level to delete next *)
Batch(set) == {i \in set : \A j \in set : Level[i] >= Level[j]}

Takes(set) ==
  /\ remaining' = Batch(set) /\ todo' = Batch(set)
  /\ queue' = set \ Batch(set)
  /\ pass' = 1
  /\ phase' = IF set = {} THEN "done" ELSE "submit"

(* _filter_deletable: what is gone is left out; a resource whose check     *)
(* fails is kept.                                                          *)
Filter ==
  /\ phase = "custom" /\ todo = {} /\ waiting = {}
  /\ \E unverified \in IF "exists" \in Faults THEN SUBSET By("cloud control") ELSE {{}} :
       Takes((By("cloud control") \ Excluded) \cap (live \cup unverified))
  /\ UNCHANGED <<cloud, foreign, deferred, waiting, tokens, failed, failures, struck>>

(* _submit_deletions, one resource after the other *)
Submit(i) ==
  /\ phase = "submit" /\ i \in todo
  /\ todo' = todo \ {i}
  /\ UNCHANGED <<live, foreign, deferred, phase, waiting, queue, pass, failures>>

Accepts(i) ==
  /\ Submit(i)
  /\ i \in live \ deleting
  /\ deleting' = deleting \cup {i}
  /\ verdict' = [verdict EXCEPT ![i] = "running"]
  /\ tokens' = tokens \cup {i}
  /\ UNCHANGED <<remaining, failed, struck>>

(* Gone, or another operation is at it: not tried again. *)
AlreadyHandled(i) ==
  /\ Submit(i)
  /\ i \notin live \/ i \in deleting
  /\ remaining' = remaining \ {i}
  /\ UNCHANGED <<deleting, verdict, tokens, failed, struck>>

Rejects(i) ==
  /\ Submit(i)
  /\ "submit" \in Faults
  /\ failed' = failed \cup {i}
  /\ Strike(i)
  /\ UNCHANGED <<deleting, verdict, remaining, tokens>>

Submitted ==
  /\ phase = "submit" /\ todo = {}
  /\ phase' = "poll"
  /\ UNCHANGED <<cloud, foreign, deferred, todo, waiting, batch, failures, struck>>

(* _check_token_status *)
Polls(i) ==
  /\ phase = "poll" /\ i \in tokens
  /\ tokens' = tokens \ {i}
  /\ UNCHANGED <<cloud, foreign, deferred, phase, todo, waiting, queue, pass, failures>>

Succeeded(i) ==
  /\ Polls(i)
  /\ verdict[i] = "ok"
  /\ failed' = failed \ {i}
  /\ remaining' = remaining \ {i}
  /\ UNCHANGED struck

Failed(i) ==
  /\ Polls(i)
  /\ verdict[i] = "failed"
  /\ failed' = failed \cup {i}
  /\ UNCHANGED <<remaining, struck>>

StatusUnknown(i) ==
  /\ Polls(i)
  /\ "status" \in Faults
  /\ failed' = failed \cup {i}
  /\ Strike(i)
  /\ UNCHANGED remaining

(* mutant of Passes: no second pass *)
PassesOne == 1

Passes == 2

(* The next pass over what is left, or the next level. *)
EndPass(left, bad) ==
  IF pass < Passes /\ left # {}
  THEN /\ pass' = pass + 1
       /\ todo' = left /\ remaining' = left
       /\ phase' = "submit" /\ failed' = bad
       /\ UNCHANGED <<queue, tokens, failures>>
  ELSE /\ failures' = failures \cup tokens \cup bad
       /\ tokens' = {} /\ failed' = {}
       /\ Takes(queue)

Polled ==
  /\ phase = "poll" /\ tokens = {}
  /\ EndPass(remaining, failed)
  /\ UNCHANGED <<cloud, foreign, deferred, waiting, struck>>

(* mutant of TimesOut: the loop polls until nothing is pending *)
TimesOutNever == tokens # tokens /\ UNCHANGED vars

(* After _TIMEOUT what is pending is not tried again, only polled again if *)
(* there is another pass.                                                  *)
TimesOut ==
  /\ phase = "poll" /\ tokens # {}
  /\ "slow" \in Faults
  /\ struck' = struck \cup tokens
  /\ EndPass(remaining \ tokens, failed \ tokens)
  /\ UNCHANGED <<cloud, foreign, deferred, waiting>>

(* The executors and the polling loop look at the shutdown event. *)
Shutdown ==
  /\ phase \in {"prepare", "custom", "poll"}
  /\ phase' = "cancelled"
  /\ UNCHANGED <<cloud, foreign, deferred, todo, waiting, batch, failures, struck>>

Cloud == \E i \in Items : Goes(i) \/ Stays(i)

Sweep ==
  \/ Prepared \/ Filter \/ Submitted \/ Polled \/ TimesOut
  \/ \E i \in Items :
       \/ Prepare(i)
       \/ Fails(i) \/ DeletesAtOnce(i) \/ Defers(i) \/ Accepted(i) \/ Misreads(i)
       \/ AlreadyDeleting(i) \/ DeletesAndWaits(i) \/ Waits(i)
       \/ Accepts(i) \/ AlreadyHandled(i) \/ Rejects(i)
       \/ Succeeded(i) \/ Failed(i) \/ StatusUnknown(i)

Next == Cloud \/ Sweep \/ Shutdown

Spec == Init /\ [][Next]_vars /\ WF_vars(Sweep)

-----------------------------------------------------------------------------
(* Properties *)

TypeOK ==
  /\ live \subseteq Items /\ deleting \subseteq live
  /\ verdict \in [Items -> {"none", "running", "ok", "failed"}]
  /\ foreign \subseteq Items /\ deferred \subseteq Items
  /\ phase \in {"prepare", "custom", "submit", "poll", "done", "cancelled"}
  /\ todo \subseteq Items /\ waiting \subseteq Items
  /\ queue \subseteq Items /\ pass \in {1, 2} /\ remaining \subseteq Items
  /\ tokens \subseteq Items /\ failed \subseteq Items
  /\ failures \subseteq Items /\ struck \subseteq Items

(* Those whose deletion the sweep does not follow to its end: handed to    *)
(* another operation, accepted and not waited for, or misread.             *)
Unfollowed ==
  foreign \cup By("instance") \cup By("environment") \cup (By("cluster") \cap struck)

(* What the sweep was asked to delete and does not report as a failure is  *)
(* gone, unless it was deferred, cannot be deleted through Cloud Control,  *)
(* or its deletion is one the code does not follow                         *)
(* (Deleter._execute_batches: a request still pending counts as a failure).*)
SilenceMeansGone ==
  phase = "done" =>
    \A i \in (Items \cap live) \ failures : i \in deferred \cup Excluded \cup Unfollowed

(* A resource goes while one that still works with it is being deleted     *)
(* only if that deletion has been given up, or is not followed: roles go   *)
(* last (_order_batches).                                                  *)
UsersGoFirst ==
  [][\A r \in (live \ live') \ foreign : \A u \in live :
       r \in Uses[u] => u \in failures \cup deferred \cup Excluded \cup Unfollowed]_vars

(* What the sweep has been through with when it comes to the level of i.   *)
Before(j, i) == Handler[j] # "cloud control" \/ Level[j] > Level[i]
Beside(i) == {j \in Needs[i] : ~Before(j, i)}

(* What i waits for: itself of its level at most, and waiting for nothing  *)
(* of that level in turn.                                                  *)
Direct(i) ==
  \A j \in Beside(i) : Level[j] = Level[i] /\ \A k \in Needs[j] : Before(k, j)
Chain(i) == Needs[i] \cup UNION {Needs[j] : j \in Beside(i)}

(* A resource left to Cloud Control whose dependents are in its own level  *)
(* or were deleted before it goes within the two passes: when it fails,    *)
(* something went wrong with it, with one of them, or with what one of     *)
(* them was waiting for (_PASSES_PER_BATCH).                               *)
TwoPassesSuffice ==
  phase = "done" =>
    \A i \in failures \cap live :
      Handler[i] = "cloud control" /\ Direct(i) =>
        \/ i \in struck \cup foreign
        \/ Chain(i) \cap (struck \cup failures \cup Unfollowed \cup deferred \cup Excluded) # {}

(* The sweep comes to an end: every wait is bounded (_TIMEOUT, and those   *)
(* of the handlers).                                                       *)
SweepEnds == <>(phase \in {"done", "cancelled"})

(* deleter.py and handlers/batch.py: an environment tears down while Batch *)
(* can still assume its role, which the deleter takes last.                *)
RoleOutlivesEnvironment ==
  [][\A r \in live \ live' : \A u \in deleting :
       Handler[u] = "environment" /\ r \in Uses[u] => u \in failures]_vars
=============================================================================
