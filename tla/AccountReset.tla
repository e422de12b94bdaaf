--------------------------- MODULE AccountReset ---------------------------
(***************************************************************************)
(* ResetManager.reset_account: returning one account to the baseline that  *)
(* its last deployment left, after a trial changed it.                     *)
(*                                                                         *)
(* Every region of the baseline is reset by its own asyncio task:          *)
(* diagnose, delete what is new in the region, delete the stacks that      *)
(* cannot be repaired, revert the drifted ones, verify.  Account-wide      *)
(* resources appear in every region's scan; they are set aside and deleted *)
(* once all regions are through.  A region in which a stack was deleted    *)
(* skips its verification, because the caller deploys again and takes the  *)
(* result as the new baseline.                                             *)
(***************************************************************************)
EXTENDS FiniteSets

CONSTANTS
  Regions,       \* the baseline's regions
  Stacks,        \* its stacks
  StackRegion,   \* the region of a stack
  Created,       \* the stacks whose baseline status is CREATE_COMPLETE
  Regional,      \* regional resources a trial may leave behind
  HomeOf,        \* the region of each
  Lingering,     \* those whose handler may report the deletion as deferred
  Globals,       \* account-wide resources (GLOBAL_RESOURCE_TYPES) it may leave
  Needs,         \* the globals a regional resource needs to be deleted
  Damage,        \* what a trial may do to a stack
  Faults         \* which calls may fail: "scan", "read", "delete", "lookup"

ASSUME ResetAssumption ==
  /\ StackRegion \in [Stacks -> Regions]
  /\ HomeOf \in [Regional -> Regions]
  /\ Needs \in [Regional -> SUBSET Globals]
  /\ Created \subseteq Stacks
  /\ Lingering \subseteq Regional
  /\ Regional \cap Globals = {}
  /\ Faults \subseteq {"scan", "read", "delete", "lookup"}

New == Regional \cup Globals
Missing == {"missing"}
Differences == (SUBSET {"status", "template", "undetectable", "drift"}) \cup {Missing}

ASSUME DamageAssumption == Damage \subseteq Differences

VARIABLES
  sameVersion,  \* the scenario folder still has the baseline's hash
  stack,        \* how a stack differs from the baseline; {} if it does not
  live,         \* the new resources that exist
  step,         \* where a region's task is
  found,        \* the diagnosis a region acts on
  deferred,     \* a region's deferred_scope
  todo,         \* the stacks the current phase of a region has left to handle
  gone,         \* the stacks a region reports as deleted
  bad,          \* the stacks a region could not handle
  phase,        \* where the account's task is
  outcome,      \* the ResetResult
  shutdown      \* the process-wide shutdown event

account == <<stack, live>>
vars == <<sameVersion, stack, live, step, found, deferred, todo, gone, bad,
          phase, outcome, shutdown>>

Settled == {"ok", "failed", "cancelled"}
RegionSteps == Settled \cup {"waiting", "resources", "stacks", "drift", "verify"}

StacksIn(r) == {s \in Stacks : StackRegion[s] = r}
VisibleIn(r) == Globals \cup {x \in Regional : HomeOf[x] = r}

(* A fault is a set of calls that fail; without the toggle none does.      *)
Failing(kind, calls) == IF kind \in Faults THEN SUBSET calls ELSE {{}}

-----------------------------------------------------------------------------
(* verify_account_state(skip_early=False) *)

NoReport == [new |-> {}, status |-> {}, template |-> {}, undetectable |-> {},
             drift |-> {}, other |-> FALSE]

StatusReport(r, unread) ==
  IF "status" \in unread THEN {}
  ELSE {s \in StacksIn(r) : stack[s] \cap {"status", "missing"} # {}}

(* Reading the template or the status of a stack that is not there is an   *)
(* error, and the first error ends a check with no stack named.            *)
Aborts(r, check, unread) ==
  check \in unread \/ \E s \in StacksIn(r) : stack[s] = Missing

ReportOfOneCheckUnread(r, check, fault, unread) ==  \* mutant of ReportOfOneCheck:
  IF check \in unread THEN StacksIn(r)               \* what cannot be read has changed
  ELSE {s \in StacksIn(r) : fault \in stack[s]}

ReportOfOneCheck(r, check, fault, unread) ==
  IF Aborts(r, check, unread) THEN {}
  ELSE {s \in StacksIn(r) : fault \in stack[s]}

(* Drift is detected stack by stack: one whose detection fails is named in *)
(* neither list, and the others' drift is kept.  A status that cannot be   *)
(* read ends the check before any detection, as if all of them failed.     *)
DriftReport(r, fault, unread) == ReportOfOneCheck(r, "drift", fault, unread) \ unread

(* blind: the resources whose type failed to scan.  find_new_resources     *)
(* leaves such a type out of the comparison.                               *)
NewReport(r, blind) == ((live \cap VisibleIn(r)) \ blind) \ deferred[r]

ReportWithoutErrors(r, blind, unread) ==  \* mutant of Report: a read error is no failure
  [new          |-> NewReport(r, blind),
   status       |-> StatusReport(r, unread),
   template     |-> ReportOfOneCheck(r, "template", "template", unread),
   undetectable |-> DriftReport(r, "undetectable", unread),
   drift        |-> DriftReport(r, "drift", unread),
   other        |-> FALSE]

Report(r, blind, unread) ==
  [new          |-> NewReport(r, blind),
   status       |-> StatusReport(r, unread),
   template     |-> ReportOfOneCheck(r, "template", "template", unread),
   undetectable |-> DriftReport(r, "undetectable", unread),
   drift        |-> DriftReport(r, "drift", unread),
   other        |-> "status" \in unread \/ Aborts(r, "template", unread)
                                        \/ Aborts(r, "drift", unread)
                                        \/ StacksIn(r) \cap unread # {}]

Reports(r) ==
  {Report(r, blind, unread) :
     blind \in Failing("scan", live \cap VisibleIn(r)),
     unread \in Failing("read", {"status", "template"} \cup StacksIn(r))}

-----------------------------------------------------------------------------
(* One region: _reset_region *)

Init ==
  /\ sameVersion \in BOOLEAN
  /\ stack \in [Stacks -> Damage]
  /\ live \in SUBSET New
  /\ step = [r \in Regions |-> "waiting"]
  /\ found = [r \in Regions |-> NoReport]
  /\ deferred = [r \in Regions |-> {}]
  /\ todo = [r \in Regions |-> {}]
  /\ gone = [r \in Regions |-> {}]
  /\ bad = [r \in Regions |-> {}]
  /\ phase = "regions"
  /\ outcome = "none"
  /\ shutdown = FALSE

To(r, where) == step' = [step EXCEPT ![r] = where]

(* The first verification, _check_recoverable, and the split of the new    *)
(* resources into those to delete here and those to defer.                 *)
Diagnose(r) ==
  /\ step[r] = "waiting"
  /\ ~shutdown
  /\ \/ /\ ~sameVersion
        /\ To(r, "failed")
        /\ UNCHANGED <<found, deferred>>
     \/ /\ sameVersion
        /\ \E report \in Reports(r) :
             \/ /\ report = NoReport
                /\ To(r, "ok")
                /\ UNCHANGED <<found, deferred>>
             \/ /\ report # NoReport
                /\ found' = [found EXCEPT ![r] = report]
                /\ deferred' = [deferred EXCEPT ![r] = report.new \cap Globals]
                /\ To(r, "resources")
  /\ UNCHANGED <<sameVersion, account, todo, gone, bad, phase, outcome, shutdown>>

Unrecoverable(r) == found[r].status \cup found[r].template \cup found[r].undetectable

DeleteNewWithGlobals(r) ==  \* mutant of DeleteNew: the region deletes the globals it saw
  /\ step[r] = "resources"
  /\ live' = live \ found[r].new
  /\ deferred' = [deferred EXCEPT ![r] = {}]
  /\ LET missing == {s \in found[r].status : stack[s] = Missing}
     IN  /\ gone' = [gone EXCEPT ![r] = missing]
         /\ todo' = [todo EXCEPT ![r] = Unrecoverable(r) \ missing]
  /\ To(r, "stacks")
  /\ UNCHANGED <<sameVersion, stack, found, bad, phase, outcome, shutdown>>

(* _delete_new_resources, and the head of _delete_unrecoverable_stacks.    *)
(* A resource whose global is already gone cannot be deleted any more.     *)
DeleteNew(r) ==
  /\ step[r] = "resources"
  /\ LET regional == found[r].new \cap Regional
         able == {x \in regional : Needs[x] \subseteq live}
         missing == {s \in found[r].status : stack[s] = Missing}
     IN  /\ \E late \in SUBSET (able \cap Lingering) :
            \E failing \in Failing("delete", able \ late) :
              /\ live' = live \ (able \ (late \cup failing))
              /\ deferred' = [deferred EXCEPT ![r] = @ \cup late]
         /\ gone' = [gone EXCEPT ![r] = missing]
         /\ todo' = [todo EXCEPT ![r] = Unrecoverable(r) \ missing]
  /\ To(r, "stacks")
  /\ UNCHANGED <<sameVersion, stack, found, bad, phase, outcome, shutdown>>

-----------------------------------------------------------------------------
(* Stacks *)

(* _delete_for_resetup.  cleanup_stack first looks the stack up in every   *)
(* region; a lookup that fails counts as "not found in any region", and a  *)
(* stack not found as deleted.  A deletion that fails leaves DELETE_FAILED,*)
(* and one that is deferred counts as failed here: its status stays FAILED.*)
DeletedForResetup(r, s) ==
  \/ /\ stack' = [stack EXCEPT ![s] = Missing]
     /\ gone' = [gone EXCEPT ![r] = @ \cup {s}]
     /\ UNCHANGED bad
  \/ /\ "delete" \in Faults
     /\ stack[s] # Missing
     /\ stack' = [stack EXCEPT ![s] = {"status"}]
     /\ bad' = [bad EXCEPT ![r] = @ \cup {s}]
     /\ UNCHANGED gone
  \/ /\ "lookup" \in Faults
     /\ gone' = [gone EXCEPT ![r] = @ \cup {s}]
     /\ UNCHANGED <<stack, bad>>

DeleteStack(r, s) ==
  /\ step[r] = "stacks"
  /\ ~shutdown
  /\ s \in todo[r]
  /\ DeletedForResetup(r, s)
  /\ todo' = [todo EXCEPT ![r] = @ \ {s}]
  /\ UNCHANGED <<sameVersion, live, step, found, deferred, phase, outcome, shutdown>>

(* The end of _delete_unrecoverable_stacks, the head of the drift phase.   *)
StacksDone(r) ==
  /\ step[r] = "stacks"
  /\ todo[r] = {}
  /\ \/ /\ bad[r] # {}
        /\ To(r, "failed")
        /\ UNCHANGED todo
     \/ /\ bad[r] = {}
        /\ todo' = [todo EXCEPT ![r] = found[r].drift \ gone[r]]
        /\ To(r, "drift")
  /\ UNCHANGED <<sameVersion, account, found, deferred, gone, bad, phase, outcome, shutdown>>

(* A revert is an UPDATE change set that must end in UPDATE_COMPLETE and   *)
(* be confirmed by a new drift detection; the status stays what it is.     *)
Reverted(r, s) ==
  /\ "drift" \in stack[s]
  /\ stack' = [stack EXCEPT ![s] =
                 (@ \ {"drift"}) \cup (IF s \in Created THEN {"status"} ELSE {})]
  /\ UNCHANGED <<gone, bad>>

(* restore_stack: revert in place, else delete.  The tasks of a region's   *)
(* stacks run concurrently.                                                *)
RestoreStack(r, s) ==
  /\ step[r] = "drift"
  /\ ~shutdown
  /\ s \in todo[r]
  /\ Reverted(r, s) \/ DeletedForResetup(r, s)
  /\ todo' = [todo EXCEPT ![r] = @ \ {s}]
  /\ UNCHANGED <<sameVersion, live, step, found, deferred, phase, outcome, shutdown>>

DriftDoneUnverified(r) ==  \* mutant of DriftDone: the reverted stacks are believed
  /\ step[r] = "drift"
  /\ todo[r] = {}
  /\ To(r, IF bad[r] # {} THEN "failed" ELSE "ok")
  /\ UNCHANGED <<sameVersion, account, found, deferred, todo, gone, bad, phase, outcome, shutdown>>

DriftDoneWaiting(r) ==  \* mutant of DriftDone: a failed stack is waited for
  /\ step[r] = "drift"
  /\ todo[r] = {}
  /\ bad[r] = {}
  /\ To(r, IF gone[r] # {} THEN "ok" ELSE "verify")
  /\ UNCHANGED <<sameVersion, account, found, deferred, todo, gone, bad, phase, outcome, shutdown>>

DriftDone(r) ==
  /\ step[r] = "drift"
  /\ todo[r] = {}
  /\ To(r, IF bad[r] # {} THEN "failed" ELSE IF gone[r] # {} THEN "ok" ELSE "verify")
  /\ UNCHANGED <<sameVersion, account, found, deferred, todo, gone, bad, phase, outcome, shutdown>>

Verify(r) ==
  /\ step[r] = "verify"
  /\ ~shutdown
  /\ \E report \in Reports(r) : To(r, IF report = NoReport THEN "ok" ELSE "failed")
  /\ UNCHANGED <<sameVersion, account, found, deferred, todo, gone, bad, phase, outcome, shutdown>>

(* raise_if_shutdown, at the head of each of the long operations.          *)
Unwind(r) ==
  /\ shutdown
  /\ step[r] \in {"waiting", "verify"} \/ (step[r] \in {"stacks", "drift"} /\ todo[r] # {})
  /\ To(r, "cancelled")
  /\ UNCHANGED <<sameVersion, account, found, deferred, todo, gone, bad, phase, outcome, shutdown>>

-----------------------------------------------------------------------------
(* The account: reset_account *)

SetAside == UNION {found[r].new \cap Globals : r \in Regions}
DeletedStacks == UNION {gone[r] : r \in Regions}
VerdictWithoutDeletions == "success"  \* mutant of Verdict: a region's deleted stacks are dropped

Verdict == IF DeletedStacks # {} THEN "redeploy" ELSE "success"
AllSettled == \A r \in Regions : step[r] \in Settled

(* gather waits for every region; a cancelled one unwinds the reset, any   *)
(* failed one fails it before the globals are touched.                     *)
RegionsDone ==
  /\ phase = "regions"
  /\ AllSettled
  /\ \/ /\ \E r \in Regions : step[r] = "cancelled"
        /\ phase' = "done"
        /\ outcome' = "cancelled"
     \/ /\ \A r \in Regions : step[r] # "cancelled"
        /\ \E r \in Regions : step[r] = "failed"
        /\ phase' = "done"
        /\ outcome' = "failed"
     \/ /\ \A r \in Regions : step[r] = "ok"
        /\ phase' = "globals"
        /\ UNCHANGED outcome
  /\ UNCHANGED <<sameVersion, account, step, found, deferred, todo, gone, bad, shutdown>>

(* The deletion is best effort: what fails to be deleted stays.            *)
DeleteGlobals ==
  /\ phase = "globals"
  /\ \E failing \in Failing("delete", SetAside) : live' = live \ (SetAside \ failing)
  /\ phase' = "recheck"
  /\ UNCHANGED <<sameVersion, stack, step, found, deferred, todo, gone, bad, outcome, shutdown>>

RecheckTrustingErrors ==  \* mutant of Recheck: an existence check that fails says "gone"
  /\ phase = "recheck"
  /\ \E unread \in Failing("read", SetAside) :
       outcome' = IF (SetAside \cap live) \ unread # {} THEN "failed" ELSE Verdict
  /\ phase' = "done"
  /\ UNCHANGED <<sameVersion, account, step, found, deferred, todo, gone, bad, shutdown>>

(* _surviving_globals, and the result.                                     *)
Recheck ==
  /\ phase = "recheck"
  /\ \E unread \in Failing("read", SetAside) :
       outcome' = IF (SetAside \cap live) \cup unread # {} THEN "failed" ELSE Verdict
  /\ phase' = "done"
  /\ UNCHANGED <<sameVersion, account, step, found, deferred, todo, gone, bad, shutdown>>

-----------------------------------------------------------------------------
Shutdown ==
  /\ phase # "done"
  /\ ~shutdown
  /\ shutdown' = TRUE
  /\ UNCHANGED <<sameVersion, account, step, found, deferred, todo, gone, bad, phase, outcome>>

Done == phase = "done" /\ UNCHANGED vars

RegionNext(r) ==
  \/ Diagnose(r)
  \/ DeleteNew(r)
  \/ \E s \in StacksIn(r) : DeleteStack(r, s) \/ RestoreStack(r, s)
  \/ StacksDone(r)
  \/ DriftDone(r)
  \/ Verify(r)
  \/ Unwind(r)

AccountNext == RegionsDone \/ DeleteGlobals \/ Recheck

Next == (\E r \in Regions : RegionNext(r)) \/ AccountNext \/ Shutdown \/ Done

Fairness == (\A r \in Regions : WF_vars(RegionNext(r))) /\ WF_vars(AccountNext)

Spec == Init /\ [][Next]_vars /\ Fairness

-----------------------------------------------------------------------------
(* Properties *)

(* What the code assigns: the domains of reset_account's and               *)
(* _reset_region's locals and of the account they act on.                  *)
TypeOK ==
  /\ sameVersion \in BOOLEAN
  /\ stack \in [Stacks -> Differences]
  /\ live \subseteq New
  /\ step \in [Regions -> RegionSteps]
  /\ found \in [Regions -> [new : SUBSET New, status : SUBSET Stacks,
                            template : SUBSET Stacks, undetectable : SUBSET Stacks,
                            drift : SUBSET Stacks, other : BOOLEAN]]
  /\ deferred \in [Regions -> SUBSET New]
  /\ todo \in [Regions -> SUBSET Stacks]
  /\ gone \in [Regions -> SUBSET Stacks]
  /\ bad \in [Regions -> SUBSET Stacks]
  /\ phase \in {"regions", "globals", "recheck", "done"}
  /\ outcome \in {"none", "success", "redeploy", "failed", "cancelled"}
  /\ shutdown \in BOOLEAN

(* "Account successfully reset to baseline state": no stack differs from   *)
(* the baseline, whichever of the calls failed on the way.                 *)
SuccessIsBaseline == outcome = "success" => \A s \in Stacks : stack[s] = {}

(* A reset that calls for no new deployment leaves nothing a trial made,   *)
(* but what a handler reported as deferred.                                *)
SuccessLeavesNothing == outcome = "success" => live \subseteq Lingering

(* _surviving_globals fails closed: no account-wide resource that a region *)
(* set aside outlives a reset that did not fail.                           *)
GlobalsGone == outcome \in {"success", "redeploy"} => SetAside \cap live = {}

(* The reason for the account-level pass: a global goes only when no       *)
(* resource that needs it is left.  In a region that skipped its           *)
(* verification nobody looked, so nothing is claimed there.                *)
GlobalsOutliveDependents ==
  [][\A g \in live \ live' : \A x \in Regional \cap live' :
       g \in Needs[x] => gone[HomeOf[x]] # {}]_vars

(* A stack that is at its baseline is left alone: nothing is deleted       *)
(* because it could not be inspected, or in the place of another stack.    *)
BaselineStacksStay == [][\A s \in Stacks : stack[s] = {} => stack'[s] = {}]_vars

(* Whatever could not be read, a reset that did not fail has reported      *)
(* every stack that is not there.                                          *)
NoAbsentStackOverlooked ==
  outcome \in {"success", "redeploy"} =>
    {s \in Stacks : stack[s] = Missing} \subseteq DeletedStacks

(* What the commands see of a reset: the baseline's stacks as a whole, and *)
(* whether anything new is left that no handler reported as deferred.      *)
Deployment ==
  IF \A s \in Stacks : stack[s] = {} THEN "full"
  ELSE IF \A s \in Stacks : stack[s] = Missing THEN "none"
  ELSE "part"

Restoration ==
  INSTANCE AccountRestoration
  WITH ScansAnswer <- "scan" \notin Faults,
       stacks <- Deployment,
       extra <- (live \ Lingering # {})

(* A reset is a restoration, whichever calls fail and wherever it is shut  *)
(* down (reset_account's three results): this is what EnvironmentLifecycle *)
(* counts on where it takes the reset of an account as one step.           *)
RestorationSpec == Restoration!Spec

(* Every reset comes to an end.                                            *)
ResetEnds == <>(phase = "done")

-----------------------------------------------------------------------------
(* A statement of the code's comments that a run of its own checks *)

(* RestoreOutcome.RESTORED: "Drift reverted in place; stack matches        *)
(* baseline".                                                              *)
RestoredMatchesBaseline ==
  [][\A r \in Regions : step[r] = "drift" =>
       \A s \in todo[r] \ todo'[r] : s \in gone'[r] \cup bad'[r] \/ stack'[s] = {}]_vars
=============================================================================
