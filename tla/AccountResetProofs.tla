------------------------ MODULE AccountResetProofs ------------------------
(***************************************************************************)
(* What a reset that reports no failure guarantees, for any baseline, any  *)
(* damage and any calls that fail, and when a global may be deleted.       *)
(*                                                                         *)
(* The argument is that of the code: a region is through either because a  *)
(* verification found nothing, or because it deleted stacks; what such a   *)
(* verification saw stays true, because no other region touches it and     *)
(* new resources only disappear.                                           *)
(***************************************************************************)
EXTENDS AccountReset, TLAPS

(* A region that is through without having deleted a stack was verified.   *)
ThroughIsBaseline ==
  \A r \in Regions :
    step[r] = "ok" => gone[r] # {} \/ \A s \in StacksIn(r) : stack[s] = {}

GlobalsWaitForAll ==
  phase \in {"globals", "recheck"} \/ outcome \in {"success", "redeploy"} =>
    \A r \in Regions : step[r] = "ok"

SuccessDeletedNone == outcome = "success" => DeletedStacks = {}

Inv == TypeOK /\ ThroughIsBaseline /\ GlobalsWaitForAll /\ SuccessDeletedNone /\ GlobalsGone

(* A report that names nothing is about a region at its baseline: a check  *)
(* that was aborted would have set "other".                                *)
LEMMA CleanReport ==
  ASSUME stack \in [Stacks -> Differences], NEW r \in Regions, NEW blind, NEW unread,
         Report(r, blind, unread) = NoReport
  PROVE  /\ \A s \in StacksIn(r) : stack[s] = {}
         /\ NewReport(r, blind) = {}
<1> DEFINE rep == Report(r, blind, unread)
<1>1. /\ rep.new = {} /\ rep.status = {} /\ rep.template = {}
      /\ rep.undetectable = {} /\ rep.drift = {} /\ rep.other = FALSE
  BY DEF NoReport
<1>2. /\ "status" \notin unread
      /\ ~Aborts(r, "template", unread)
      /\ ~Aborts(r, "drift", unread)
      /\ StacksIn(r) \cap unread = {}
  BY <1>1 DEF Report
<1>3. /\ {s \in StacksIn(r) : stack[s] \cap {"status", "missing"} # {}} = {}
      /\ {s \in StacksIn(r) : "template" \in stack[s]} = {}
      /\ {s \in StacksIn(r) : "undetectable" \in stack[s]} = {}
      /\ {s \in StacksIn(r) : "drift" \in stack[s]} = {}
  BY <1>1, <1>2 DEF Report, StatusReport, DriftReport, ReportOfOneCheck
<1>4. ASSUME NEW s \in StacksIn(r) PROVE stack[s] = {}
  <2>1. stack[s] \in Differences  BY DEF StacksIn
  <2>2. stack[s] \cap {"status", "missing"} = {} /\ "template" \notin stack[s]
        /\ "undetectable" \notin stack[s] /\ "drift" \notin stack[s]
    BY <1>3
  <2> QED BY <2>1, <2>2 DEF Differences, Missing
<1> QED BY <1>1, <1>4 DEF Report

LEMMA ReportType ==
  ASSUME live \subseteq New, NEW r \in Regions, NEW report \in Reports(r)
  PROVE  report \in [new : SUBSET New, status : SUBSET Stacks,
                     template : SUBSET Stacks, undetectable : SUBSET Stacks,
                     drift : SUBSET Stacks, other : BOOLEAN]
<1>1. PICK blind, unread : report = Report(r, blind, unread)
  BY DEF Reports
<1>2. NewReport(r, blind) \subseteq New  BY DEF NewReport
<1>3. StatusReport(r, unread) \subseteq Stacks  BY DEF StatusReport, StacksIn
<1>4. \A check, fault : ReportOfOneCheck(r, check, fault, unread) \subseteq Stacks
  BY DEF ReportOfOneCheck, StacksIn
<1>5. \A fault : DriftReport(r, fault, unread) \subseteq Stacks
  BY <1>4 DEF DriftReport
<1> QED BY <1>1, <1>2, <1>3, <1>4, <1>5 DEF Report

-----------------------------------------------------------------------------
(* TypeOK *)

LEMMA InitType == Init => TypeOK
<1> SUFFICES ASSUME Init PROVE TypeOK  OBVIOUS
<1> USE DEF Init
<1>1. stack \in [Stacks -> Differences]  BY DamageAssumption
<1>2. NoReport \in [new : SUBSET New, status : SUBSET Stacks,
                    template : SUBSET Stacks, undetectable : SUBSET Stacks,
                    drift : SUBSET Stacks, other : BOOLEAN]
  BY DEF NoReport
<1> QED BY <1>1, <1>2 DEF TypeOK, RegionSteps, Settled

LEMMA ResetupType ==
  ASSUME TypeOK, NEW r \in Regions, NEW s \in StacksIn(r), DeletedForResetup(r, s)
  PROVE  /\ stack' \in [Stacks -> Differences]
         /\ gone' \in [Regions -> SUBSET Stacks]
         /\ bad' \in [Regions -> SUBSET Stacks]
<1>1. Missing \in Differences /\ {"status"} \in Differences  BY DEF Differences
<1>2. s \in Stacks  BY DEF StacksIn
<1>3. gone[r] \cup {s} \in SUBSET Stacks /\ bad[r] \cup {s} \in SUBSET Stacks
  BY <1>2 DEF TypeOK
<1>4. /\ stack' = stack \/ \E d \in Differences : stack' = [stack EXCEPT ![s] = d]
      /\ gone' = gone \/ gone' = [gone EXCEPT ![r] = gone[r] \cup {s}]
      /\ bad' = bad \/ bad' = [bad EXCEPT ![r] = bad[r] \cup {s}]
  <2>1. CASE stack' = [stack EXCEPT ![s] = Missing] /\ UNCHANGED bad
                /\ gone' = [gone EXCEPT ![r] = gone[r] \cup {s}]
    BY <1>1, <2>1
  <2>2. CASE stack' = [stack EXCEPT ![s] = {"status"}] /\ UNCHANGED gone
                /\ bad' = [bad EXCEPT ![r] = bad[r] \cup {s}]
    BY <1>1, <2>2
  <2>3. CASE UNCHANGED <<stack, bad>> /\ gone' = [gone EXCEPT ![r] = gone[r] \cup {s}]
    BY <2>3
  <2> QED BY <2>1, <2>2, <2>3 DEF DeletedForResetup
<1>5. stack' \in [Stacks -> Differences]  BY <1>2, <1>4 DEF TypeOK
<1>6. gone' \in [Regions -> SUBSET Stacks]  BY <1>3, <1>4 DEF TypeOK
<1>7. bad' \in [Regions -> SUBSET Stacks]  BY <1>3, <1>4 DEF TypeOK
<1> QED BY <1>5, <1>6, <1>7

LEMMA RevertType ==
  ASSUME TypeOK, NEW r \in Regions, NEW s \in StacksIn(r), Reverted(r, s)
  PROVE  /\ stack' \in [Stacks -> Differences]
         /\ gone' \in [Regions -> SUBSET Stacks]
         /\ bad' \in [Regions -> SUBSET Stacks]
<1>1. s \in Stacks  BY DEF StacksIn
<1>2. stack[s] \in Differences /\ "drift" \in stack[s]  BY <1>1 DEF TypeOK, Reverted
<1>3. (stack[s] \ {"drift"}) \cup (IF s \in Created THEN {"status"} ELSE {}) \in Differences
  BY <1>2 DEF Differences, Missing
<1> QED BY <1>1, <1>3 DEF TypeOK, Reverted

LEMMA TypeStep == TypeOK /\ [Next]_vars => TypeOK'
<1> SUFFICES ASSUME TypeOK, [Next]_vars PROVE TypeOK'  OBVIOUS
<1> USE DEF account, To, RegionSteps, Settled
<1>1. ASSUME NEW r \in Regions, Diagnose(r) PROVE TypeOK'
  <2>1. \A report \in Reports(r) :
          /\ report \in [new : SUBSET New, status : SUBSET Stacks, template : SUBSET Stacks,
                         undetectable : SUBSET Stacks, drift : SUBSET Stacks, other : BOOLEAN]
          /\ report.new \cap Globals \in SUBSET New
    BY ReportType DEF TypeOK, New
  <2>2. CASE ~sameVersion
    BY <1>1, <2>2 DEF Diagnose, TypeOK
  <2>3. CASE sameVersion
    <3>1. PICK report \in Reports(r) :
            \/ To(r, "ok") /\ UNCHANGED <<found, deferred>>
            \/ /\ found' = [found EXCEPT ![r] = report]
               /\ deferred' = [deferred EXCEPT ![r] = report.new \cap Globals]
               /\ To(r, "resources")
      BY <1>1, <2>3 DEF Diagnose
    <3>2. found' \in [Regions -> [new : SUBSET New, status : SUBSET Stacks,
                template : SUBSET Stacks, undetectable : SUBSET Stacks,
                drift : SUBSET Stacks, other : BOOLEAN]]
      BY <2>1, <3>1 DEF TypeOK
    <3>3. deferred' \in [Regions -> SUBSET New]
      BY <2>1, <3>1 DEF TypeOK
    <3>4. step' \in [Regions -> RegionSteps]
      BY <3>1 DEF TypeOK
    <3> QED BY <1>1, <3>2, <3>3, <3>4 DEF Diagnose, TypeOK
  <2> QED BY <2>2, <2>3
<1>2. ASSUME NEW r \in Regions, DeleteNew(r) PROVE TypeOK'
  <2>1. /\ found[r].status \in SUBSET Stacks /\ found[r].template \in SUBSET Stacks
        /\ found[r].undetectable \in SUBSET Stacks
    BY DEF TypeOK
  <2>2. /\ live' \subseteq New
        /\ deferred' \in [Regions -> SUBSET New]
    BY <1>2 DEF DeleteNew, TypeOK, New
  <2>3. /\ gone' \in [Regions -> SUBSET Stacks]
        /\ todo' \in [Regions -> SUBSET Stacks]
    BY <1>2, <2>1 DEF DeleteNew, TypeOK, Unrecoverable
  <2> QED BY <1>2, <2>2, <2>3 DEF DeleteNew, TypeOK
<1>3. ASSUME NEW r \in Regions, NEW s \in StacksIn(r), DeleteStack(r, s) PROVE TypeOK'
  BY <1>3, ResetupType DEF DeleteStack, TypeOK
<1>4. ASSUME NEW r \in Regions, NEW s \in StacksIn(r), RestoreStack(r, s) PROVE TypeOK'
  BY <1>4, ResetupType, RevertType DEF RestoreStack, TypeOK
<1>5. ASSUME NEW r \in Regions, StacksDone(r) PROVE TypeOK'
  <2>1. found[r].drift \in SUBSET Stacks  BY DEF TypeOK
  <2> QED BY <1>5, <2>1 DEF StacksDone, TypeOK
<1>6. ASSUME NEW r \in Regions, DriftDone(r) \/ Verify(r) \/ Unwind(r) PROVE TypeOK'
  BY <1>6 DEF DriftDone, Verify, Unwind, TypeOK
<1>7. CASE RegionsDone
  BY <1>7 DEF RegionsDone, TypeOK
<1>8. CASE DeleteGlobals
  BY <1>8 DEF DeleteGlobals, TypeOK
<1>9. CASE Recheck
  BY <1>9 DEF Recheck, TypeOK, Verdict
<1>10. CASE Shutdown
  BY <1>10 DEF Shutdown, TypeOK
<1>11. CASE UNCHANGED vars
  BY <1>11 DEF vars, TypeOK
<1> QED BY <1>1, <1>2, <1>3, <1>4, <1>5, <1>6, <1>7, <1>8, <1>9, <1>10, <1>11
        DEF Next, RegionNext, AccountNext, Done

-----------------------------------------------------------------------------
(* The steps of a region *)

(* A region's task leaves the other regions alone, acts only while it is   *)
(* unsettled, and makes no new resource.                                   *)
LEMMA RegionFrame ==
  ASSUME TypeOK, NEW r0 \in Regions, RegionNext(r0)
  PROVE  /\ \A r \in Regions \ {r0} :
              /\ step'[r] = step[r] /\ gone'[r] = gone[r]
              /\ deferred'[r] = deferred[r] /\ found'[r] = found[r]
              /\ \A s \in StacksIn(r) : stack'[s] = stack[s]
         /\ step[r0] \notin Settled
         /\ UNCHANGED <<phase, outcome>>
         /\ live' \subseteq live
<1> USE DEF account, To, Settled
<1>1. CASE Diagnose(r0)  BY <1>1 DEF Diagnose, TypeOK
<1>2. CASE DeleteNew(r0)  BY <1>2 DEF DeleteNew, TypeOK
<1>3. ASSUME NEW s \in StacksIn(r0), DeleteStack(r0, s) \/ RestoreStack(r0, s)
      PROVE  /\ step' = step /\ step[r0] \notin Settled
             /\ deferred' = deferred /\ found' = found
             /\ UNCHANGED <<phase, outcome>> /\ live' = live
             /\ \A r \in Regions \ {r0} :
                  gone'[r] = gone[r] /\ \A t \in StacksIn(r) : stack'[t] = stack[t]
  <2>1. DeletedForResetup(r0, s) \/ Reverted(r0, s)
    BY <1>3 DEF DeleteStack, RestoreStack
  <2>2. \A r \in Regions \ {r0} : gone'[r] = gone[r]
    BY <2>1 DEF DeletedForResetup, Reverted, TypeOK
  <2>3. \A t \in Stacks \ {s} : stack'[t] = stack[t]
    BY <2>1 DEF DeletedForResetup, Reverted, TypeOK
  <2>4. \A r \in Regions \ {r0} : \A t \in StacksIn(r) : t \in Stacks \ {s}
    BY DEF StacksIn
  <2>5. /\ step' = step /\ step[r0] \notin Settled
        /\ deferred' = deferred /\ found' = found
        /\ UNCHANGED <<phase, outcome>> /\ live' = live
    BY <1>3 DEF DeleteStack, RestoreStack
  <2> QED BY <2>2, <2>3, <2>4, <2>5
<1>4. CASE StacksDone(r0)  BY <1>4 DEF StacksDone, TypeOK
<1>5. CASE DriftDone(r0)  BY <1>5 DEF DriftDone, TypeOK
<1>6. CASE Verify(r0)  BY <1>6 DEF Verify, TypeOK
<1>7. CASE Unwind(r0)  BY <1>7 DEF Unwind, TypeOK
<1> QED BY <1>1, <1>2, <1>3, <1>4, <1>5, <1>6, <1>7 DEF RegionNext

(* A region becomes "ok" by a clean report or by having deleted stacks.    *)
LEMMA BecomesOk ==
  ASSUME TypeOK, NEW r \in Regions, RegionNext(r), step'[r] = "ok"
  PROVE  /\ UNCHANGED <<stack, live, gone, deferred>>
         /\ \/ gone[r] # {}
            \/ \E report \in Reports(r) : report = NoReport
<1> USE DEF account, To
<1>1. step[r] # "ok"  BY RegionFrame DEF Settled
<1>2. CASE Diagnose(r)  BY <1>2 DEF Diagnose, TypeOK
<1>3. CASE DeleteNew(r)  BY <1>3 DEF DeleteNew, TypeOK
<1>4. CASE \E s \in StacksIn(r) : DeleteStack(r, s) \/ RestoreStack(r, s)
  BY <1>1, <1>4 DEF DeleteStack, RestoreStack
<1>5. CASE StacksDone(r)  BY <1>5 DEF StacksDone, TypeOK
<1>6. CASE DriftDone(r)  BY <1>6 DEF DriftDone, TypeOK
<1>7. CASE Verify(r)  BY <1>7 DEF Verify, TypeOK
<1>8. CASE Unwind(r)  BY <1>8 DEF Unwind, TypeOK
<1> QED BY <1>2, <1>3, <1>4, <1>5, <1>6, <1>7, <1>8 DEF RegionNext

-----------------------------------------------------------------------------
(* The invariant *)

LEMMA InitInv == Init => Inv
<1> SUFFICES ASSUME Init PROVE Inv  OBVIOUS
<1>1. TypeOK  BY InitType
<1> QED BY <1>1 DEF Init, Inv, ThroughIsBaseline, GlobalsWaitForAll, SuccessDeletedNone,
           GlobalsGone

LEMMA RegionKeepsInv ==
  ASSUME Inv, NEW r0 \in Regions, RegionNext(r0)
  PROVE  Inv'
<1> USE DEF Inv
<1>1. TypeOK'  BY TypeStep DEF Next
<1>2. step[r0] \notin Settled /\ UNCHANGED <<phase, outcome>>  BY RegionFrame
<1>3. ThroughIsBaseline'
  <2> SUFFICES ASSUME NEW r \in Regions, step'[r] = "ok"
               PROVE  gone'[r] # {} \/ \A s \in StacksIn(r) : stack'[s] = {}
    BY DEF ThroughIsBaseline, StacksIn
  <2>1. CASE r # r0
    BY <2>1, RegionFrame DEF ThroughIsBaseline
  <2>2. CASE r = r0
    <3>1. UNCHANGED <<stack, gone>>
      BY <2>2, BecomesOk
    <3>2. CASE gone[r] # {}  BY <3>1, <3>2
    <3>3. CASE gone[r] = {}
      <4>0. PICK report \in Reports(r) : report = NoReport
        BY <2>2, <3>3, BecomesOk
      <4>1. PICK blind, unread : Report(r, blind, unread) = NoReport
        BY <4>0 DEF Reports
      <4>2. \A s \in StacksIn(r) : stack[s] = {}
        BY <4>1, CleanReport DEF TypeOK
      <4> QED BY <3>1, <4>2
    <3> QED BY <3>2, <3>3
  <2> QED BY <2>1, <2>2
<1>4. phase \notin {"globals", "recheck"} /\ outcome \notin {"success", "redeploy"}
  BY <1>2 DEF GlobalsWaitForAll, Settled
<1>5. GlobalsWaitForAll' /\ SuccessDeletedNone' /\ GlobalsGone'
  BY <1>2, <1>4 DEF GlobalsWaitForAll, SuccessDeletedNone, GlobalsGone
<1> QED BY <1>1, <1>3, <1>5

LEMMA AccountKeepsInv ==
  ASSUME Inv, AccountNext \/ Shutdown \/ UNCHANGED vars
  PROVE  Inv'
<1> USE DEF Inv, account
<1>1. TypeOK'  BY TypeStep DEF Next
<1>2. CASE RegionsDone
  BY <1>1, <1>2 DEF RegionsDone, ThroughIsBaseline, GlobalsWaitForAll, SuccessDeletedNone,
     GlobalsGone, DeletedStacks, SetAside, StacksIn
<1>3. CASE DeleteGlobals
  <2>1. UNCHANGED <<stack, step, gone, found, outcome>> /\ live' \subseteq live
        /\ phase = "globals" /\ phase' = "recheck"
    BY <1>3 DEF DeleteGlobals
  <2> QED BY <1>1, <2>1 DEF ThroughIsBaseline, GlobalsWaitForAll, SuccessDeletedNone,
          GlobalsGone, DeletedStacks, SetAside, StacksIn
<1>4. CASE Recheck
  <2>1. PICK unread : outcome' = IF (SetAside \cap live) \cup unread # {} THEN "failed" ELSE Verdict
    BY <1>4 DEF Recheck
  <2>2. UNCHANGED <<stack, live, step, gone, found>> /\ phase = "recheck" /\ phase' = "done"
    BY <1>4 DEF Recheck
  <2>3. outcome' \in {"success", "redeploy"} => SetAside \cap live = {}
    BY <2>1
  <2>4. outcome' = "success" => DeletedStacks = {}
    BY <2>1 DEF Verdict
  <2>5. SetAside' = SetAside /\ DeletedStacks' = DeletedStacks
    BY <2>2 DEF SetAside, DeletedStacks
  <2>6. ThroughIsBaseline' /\ GlobalsWaitForAll'
    BY <2>2 DEF ThroughIsBaseline, GlobalsWaitForAll, StacksIn
  <2>7. SuccessDeletedNone' /\ GlobalsGone'
    BY <2>2, <2>3, <2>4, <2>5 DEF SuccessDeletedNone, GlobalsGone
  <2> QED BY <1>1, <2>6, <2>7
<1>5. CASE Shutdown \/ UNCHANGED vars
  <2>1. UNCHANGED <<stack, live, step, gone, found, phase, outcome>>
    BY <1>5 DEF Shutdown, vars
  <2> QED BY <1>1, <2>1 DEF ThroughIsBaseline, GlobalsWaitForAll, SuccessDeletedNone,
          GlobalsGone, DeletedStacks, SetAside, StacksIn
<1> QED BY <1>2, <1>3, <1>4, <1>5 DEF AccountNext

LEMMA InvStep == Inv /\ [Next]_vars => Inv'
  BY RegionKeepsInv, AccountKeepsInv DEF Next, Done

(* TypeOK holds for every baseline, damage and set of faults.              *)
THEOREM AccountTypesCorrect == Spec => []TypeOK
<1>1. Init => TypeOK  BY InitType
<1>2. TypeOK /\ [Next]_vars => TypeOK'  BY TypeStep
<1> QED BY <1>1, <1>2, PTL DEF Spec

THEOREM AlwaysInv == Spec => []Inv
<1> QED BY InitInv, InvStep, PTL DEF Spec

(* A reset that reports success leaves every stack of every region at its  *)
(* baseline, whichever scans, reads, deletions and lookups failed.         *)
THEOREM SuccessMeansBaseline == Spec => []SuccessIsBaseline
<1>1. Inv => SuccessIsBaseline
  <2> SUFFICES ASSUME Inv, outcome = "success", NEW s \in Stacks PROVE stack[s] = {}
    BY DEF SuccessIsBaseline
  <2>1. StackRegion[s] \in Regions /\ s \in StacksIn(StackRegion[s])
    BY ResetAssumption DEF StacksIn
  <2>2. gone[StackRegion[s]] = {}
    BY <2>1 DEF Inv, SuccessDeletedNone, DeletedStacks
  <2>3. step[StackRegion[s]] = "ok"
    BY <2>1 DEF Inv, GlobalsWaitForAll
  <2> QED BY <2>1, <2>2, <2>3 DEF Inv, ThroughIsBaseline
<1> QED BY <1>1, AlwaysInv, PTL

(* No account-wide resource that a region set aside outlives a reset that  *)
(* did not fail.                                                           *)
THEOREM NoGlobalOutlivesReset == Spec => []GlobalsGone
<1>1. Inv => GlobalsGone  BY DEF Inv
<1> QED BY <1>1, AlwaysInv, PTL

-----------------------------------------------------------------------------
(* Globals outlive what needs them, if every type can be scanned *)

(* A region that is through without having deleted a stack holds no new    *)
(* regional resource but those a handler deferred.                         *)
ThroughIsSwept ==
  \A r \in Regions :
    step[r] = "ok" => gone[r] # {} \/ live \cap VisibleIn(r) \subseteq deferred[r]

OnlyLateDeferred == \A r \in Regions : deferred[r] \cap Regional \subseteq Lingering

SweptInv == Inv /\ ThroughIsSwept /\ OnlyLateDeferred

LEMMA SweptInit == Init => SweptInv
<1> SUFFICES ASSUME Init PROVE SweptInv  OBVIOUS
<1>1. Inv  BY InitInv
<1> QED BY <1>1 DEF Init, SweptInv, ThroughIsSwept, OnlyLateDeferred

LEMMA DeferredGrows ==
  ASSUME Inv, OnlyLateDeferred, [Next]_vars
  PROVE  OnlyLateDeferred'
<1> USE DEF Inv, TypeOK, account, To
<1>1. ASSUME NEW r \in Regions, Diagnose(r) PROVE OnlyLateDeferred'
  <2>1. deferred' = deferred \/ \E set \in SUBSET Globals : deferred' = [deferred EXCEPT ![r] = set]
    BY <1>1 DEF Diagnose
  <2> QED BY <2>1, ResetAssumption DEF OnlyLateDeferred
<1>2. ASSUME NEW r \in Regions, DeleteNew(r) PROVE OnlyLateDeferred'
  <2>1. PICK late \in SUBSET Lingering : deferred' = [deferred EXCEPT ![r] = deferred[r] \cup late]
    BY <1>2 DEF DeleteNew
  <2> QED BY <2>1 DEF OnlyLateDeferred
<1>3. CASE UNCHANGED deferred
  BY <1>3 DEF OnlyLateDeferred
<1> QED BY <1>1, <1>2, <1>3 DEF Next, RegionNext, AccountNext, Done, vars, DeleteStack, RestoreStack,
        StacksDone, DriftDone, Verify, Unwind, RegionsDone, DeleteGlobals, Recheck, Shutdown

LEMMA SweptStep ==
  ASSUME "scan" \notin Faults, SweptInv, [Next]_vars
  PROVE  SweptInv'
<1> USE DEF SweptInv
<1>1. Inv'  BY InvStep
<1>2. OnlyLateDeferred'  BY DeferredGrows
<1>3. ASSUME NEW r0 \in Regions, RegionNext(r0) PROVE ThroughIsSwept'
  <2> SUFFICES ASSUME NEW r \in Regions, step'[r] = "ok"
               PROVE  gone'[r] # {} \/ live' \cap VisibleIn(r) \subseteq deferred'[r]
    BY DEF ThroughIsSwept, VisibleIn
  <2>0. TypeOK  BY DEF Inv
  <2>1. CASE r # r0
    BY <1>3, <2>0, <2>1, RegionFrame DEF ThroughIsSwept
  <2>2. CASE r = r0
    <3>1. UNCHANGED <<live, gone, deferred>>
      BY <1>3, <2>0, <2>2, BecomesOk
    <3>2. CASE gone[r] # {}  BY <3>1, <3>2
    <3>3. CASE gone[r] = {}
      <4>1. PICK report \in Reports(r) : report = NoReport
        BY <1>3, <2>0, <2>2, <3>3, BecomesOk
      <4>2. PICK blind \in Failing("scan", live \cap VisibleIn(r)),
                 unread \in Failing("read", {"status", "template"} \cup StacksIn(r)) :
              Report(r, blind, unread) = NoReport
        BY <4>1 DEF Reports
      <4>3. blind = {}  BY <4>2 DEF Failing
      <4>4. NewReport(r, blind) = {}
        BY <2>0, <4>2, CleanReport DEF TypeOK
      <4> QED BY <3>1, <4>3, <4>4 DEF NewReport
    <3> QED BY <3>2, <3>3
  <2> QED BY <2>1, <2>2
<1>4. ASSUME UNCHANGED <<step, gone, deferred>>, live' \subseteq live PROVE ThroughIsSwept'
  BY <1>4 DEF ThroughIsSwept, VisibleIn
<1>5. CASE AccountNext \/ Shutdown \/ Done \/ UNCHANGED vars
  <2>1. UNCHANGED <<step, gone, deferred>>
    BY <1>5 DEF AccountNext, RegionsDone, DeleteGlobals, Recheck, Shutdown, Done, vars
  <2>2. live' \subseteq live
    <3>1. CASE DeleteGlobals  BY <3>1 DEF DeleteGlobals
    <3>2. CASE RegionsDone \/ Recheck \/ Shutdown \/ Done \/ UNCHANGED vars
      BY <3>2 DEF RegionsDone, Recheck, Shutdown, Done, vars, account
    <3> QED BY <1>5, <3>1, <3>2 DEF AccountNext
  <2> QED BY <1>1, <1>2, <1>4, <2>1, <2>2
<1> QED BY <1>1, <1>2, <1>3, <1>5 DEF Next

(* In a step that deletes a global, every resource that needs it is gone.  *)
LEMMA GlobalsLast ==
  ASSUME \A x \in Lingering : Needs[x] = {}, SweptInv, [Next]_vars,
         NEW g \in live \ live', NEW x \in Regional \cap live', g \in Needs[x]
  PROVE  gone[HomeOf[x]] # {}
<1> USE DEF SweptInv, account
<1>0. g \in Globals /\ g \notin Regional /\ HomeOf[x] \in Regions
  BY ResetAssumption
<1>1. phase = "globals" /\ live' \subseteq live
  <2>1. ASSUME NEW r \in Regions, RegionNext(r) PROVE FALSE
    <3>1. CASE DeleteNew(r)
      <4>1. \E late, failing :
              live' = live \ ({y \in found[r].new \cap Regional : Needs[y] \subseteq live}
                               \ (late \cup failing))
        BY <3>1 DEF DeleteNew
      <4> QED BY <1>0, <4>1
    <3>2. CASE UNCHANGED live  BY <3>2
    <3> QED BY <2>1, <3>1, <3>2 DEF RegionNext, Diagnose, DeleteStack, RestoreStack, StacksDone,
            DriftDone, Verify, Unwind
  <2>2. CASE DeleteGlobals  BY <2>2 DEF DeleteGlobals
  <2>3. CASE UNCHANGED live  BY <2>3
  <2> QED BY <2>1, <2>2, <2>3 DEF Next, AccountNext, RegionsDone, Recheck, Shutdown, Done, vars
<1>2. step[HomeOf[x]] = "ok"
  BY <1>0, <1>1 DEF Inv, GlobalsWaitForAll
<1>3. x \in live \cap VisibleIn(HomeOf[x])
  BY <1>1 DEF VisibleIn
<1>4. x \notin Lingering
  OBVIOUS
<1>5. x \notin deferred[HomeOf[x]]
  BY <1>0, <1>4 DEF OnlyLateDeferred
<1> QED BY <1>0, <1>2, <1>3, <1>5 DEF ThroughIsSwept

(* If every type can be scanned, and a handler defers only resources that  *)
(* need no global, a global is deleted only after everything that needs    *)
(* it, in every region that verified its result.                           *)
THEOREM GlobalsAreDeletedLast ==
  ASSUME "scan" \notin Faults, \A x \in Lingering : Needs[x] = {}
  PROVE  Spec => GlobalsOutliveDependents
<1> DEFINE Last == \A g \in live \ live' : \A x \in Regional \cap live' :
                     g \in Needs[x] => gone[HomeOf[x]] # {}
<1>1. Init => SweptInv  BY SweptInit
<1>2. SweptInv /\ [Next]_vars => SweptInv'  BY SweptStep
<1>3. SweptInv /\ [Next]_vars => [Last]_vars
  BY GlobalsLast
<1> QED BY <1>1, <1>2, <1>3, PTL DEF Spec, GlobalsOutliveDependents

-----------------------------------------------------------------------------
(* Nothing a trial made is left, if every type can be scanned *)

(* What a region puts off until the account-level pass is set aside for it. *)
PutOffIsSetAside == \A r \in Regions : deferred[r] \cap Globals \subseteq found[r].new

LEMMA PutOffStep ==
  ASSUME TypeOK, PutOffIsSetAside, [Next]_vars
  PROVE  PutOffIsSetAside'
<1> USE DEF TypeOK, account
<1>1. ASSUME NEW r \in Regions, Diagnose(r) PROVE PutOffIsSetAside'
  <2>1. CASE UNCHANGED <<found, deferred>>
    BY <2>1 DEF PutOffIsSetAside
  <2>2. CASE \E report \in Reports(r) :
               /\ found' = [found EXCEPT ![r] = report]
               /\ deferred' = [deferred EXCEPT ![r] = report.new \cap Globals]
    BY <2>2 DEF PutOffIsSetAside
  <2> QED BY <1>1, <2>1, <2>2 DEF Diagnose
<1>2. ASSUME NEW r \in Regions, DeleteNew(r) PROVE PutOffIsSetAside'
  <2>1. PICK late \in SUBSET Regional : deferred' = [deferred EXCEPT ![r] = deferred[r] \cup late]
    BY <1>2 DEF DeleteNew
  <2>2. found' = found
    BY <1>2 DEF DeleteNew
  <2> QED BY <2>1, <2>2, ResetAssumption DEF PutOffIsSetAside
<1>3. CASE UNCHANGED <<found, deferred>>
  BY <1>3 DEF PutOffIsSetAside
<1> QED BY <1>1, <1>2, <1>3 DEF Next, RegionNext, AccountNext, Done, vars, DeleteStack,
        RestoreStack, StacksDone, DriftDone, Verify, Unwind, RegionsDone, DeleteGlobals,
        Recheck, Shutdown

(* If every type can be scanned, a reset that reports success leaves       *)
(* nothing a trial made but what a handler reported as deferred: each      *)
(* region's verification saw the rest gone, and a global that any of them  *)
(* saw was set aside and seen gone by the account-level check.  An account *)
(* with no region would be verified by nobody.                             *)
THEOREM SuccessSweepsAll ==
  ASSUME "scan" \notin Faults, Regions # {}
  PROVE  Spec => []SuccessLeavesNothing
<1>1. Init => SweptInv /\ PutOffIsSetAside
  <2>1. Init => PutOffIsSetAside
    BY DEF Init, PutOffIsSetAside
  <2> QED BY <2>1, SweptInit
<1>2. SweptInv /\ PutOffIsSetAside /\ [Next]_vars => (SweptInv /\ PutOffIsSetAside)'
  BY SweptStep, PutOffStep DEF SweptInv, Inv
<1>3. SweptInv /\ PutOffIsSetAside => SuccessLeavesNothing
  <2> SUFFICES ASSUME SweptInv, PutOffIsSetAside, outcome = "success", NEW x \in live
               PROVE  x \in Lingering
    BY DEF SuccessLeavesNothing
  <2>1. x \in Regional \cup Globals
    BY DEF SweptInv, Inv, TypeOK, New
  <2>2. ASSUME NEW r \in Regions, x \in VisibleIn(r)
        PROVE  x \in deferred[r]
    <3>1. gone[r] = {}
      BY DEF SweptInv, Inv, SuccessDeletedNone, DeletedStacks
    <3>2. step[r] = "ok"
      BY DEF SweptInv, Inv, GlobalsWaitForAll
    <3> QED BY <2>2, <3>1, <3>2 DEF SweptInv, ThroughIsSwept
  <2>3. CASE x \in Regional
    <3>1. HomeOf[x] \in Regions /\ x \in VisibleIn(HomeOf[x])
      BY <2>3, ResetAssumption DEF VisibleIn
    <3>2. x \in deferred[HomeOf[x]]
      BY <2>2, <3>1
    <3> QED BY <2>3, <3>1, <3>2 DEF SweptInv, OnlyLateDeferred
  <2>4. CASE x \in Globals
    <3>1. PICK r \in Regions : x \in VisibleIn(r)
      BY <2>4 DEF VisibleIn
    <3>2. x \in found[r].new \cap Globals
      BY <2>2, <2>4, <3>1 DEF PutOffIsSetAside
    <3>3. SetAside \cap live = {}
      BY DEF SweptInv, Inv, GlobalsGone
    <3> QED BY <3>2, <3>3 DEF SetAside
  <2> QED BY <2>1, <2>3, <2>4
<1> QED BY <1>1, <1>2, <1>3, PTL DEF Spec

-----------------------------------------------------------------------------
(* Stacks that are not there, and stacks that nothing is wrong with *)

Named(r) == found[r].status \cup found[r].template \cup found[r].undetectable \cup found[r].drift

AbsentIn(r) == {s \in StacksIn(r) : stack[s] = Missing}

(* What a diagnosis names is of its region and at fault, until the region  *)
(* has dealt with it.                                                      *)
NamedAtFault(r) ==
  /\ step[r] \in {"resources", "stacks", "drift"} => Named(r) \subseteq StacksIn(r)
  /\ step[r] \in {"resources", "stacks"} => \A s \in Named(r) : stack[s] # {}
  /\ step[r] \in {"stacks", "drift"} => todo[r] \subseteq Named(r)
  /\ step[r] = "drift" => \A s \in todo[r] : stack[s] # {}

(* A diagnosis that misses an absent stack names none at all: the status   *)
(* could not be read, and the other checks stop at a stack that is not     *)
(* there.  So the region deletes nothing and comes to its verification.    *)
AbsentKnown(r) ==
  /\ step[r] = "resources" => AbsentIn(r) \subseteq found[r].status \/ Named(r) = {}
  /\ step[r] \in {"stacks", "drift"} =>
       \/ AbsentIn(r) \subseteq gone[r]
       \/ Named(r) = {} /\ gone[r] = {}
  /\ step[r] = "ok" => AbsentIn(r) \subseteq gone[r]

StacksInv == TypeOK /\ \A r \in Regions : NamedAtFault(r) /\ AbsentKnown(r)

LEMMA ReportNames ==
  ASSUME stack \in [Stacks -> Differences], NEW r \in Regions, NEW report \in Reports(r)
  PROVE  LET named == report.status \cup report.template \cup report.undetectable
                        \cup report.drift
         IN  /\ named \subseteq StacksIn(r)
             /\ \A s \in named : stack[s] # {}
             /\ AbsentIn(r) \subseteq report.status \/ named = {}
<1>1. PICK blind, unread : report = Report(r, blind, unread)
  BY DEF Reports
<1>2. /\ report.status = StatusReport(r, unread)
      /\ report.template = ReportOfOneCheck(r, "template", "template", unread)
      /\ report.undetectable \subseteq ReportOfOneCheck(r, "drift", "undetectable", unread)
      /\ report.drift \subseteq ReportOfOneCheck(r, "drift", "drift", unread)
  BY <1>1 DEF Report, DriftReport
<1>3. /\ report.status \subseteq StacksIn(r)
      /\ \A s \in report.status : stack[s] # {}
  BY <1>2 DEF StatusReport
<1>4. ASSUME NEW check, NEW fault
      PROVE  /\ ReportOfOneCheck(r, check, fault, unread) \subseteq StacksIn(r)
             /\ \A s \in ReportOfOneCheck(r, check, fault, unread) : stack[s] # {}
             /\ AbsentIn(r) # {} => ReportOfOneCheck(r, check, fault, unread) = {}
  BY DEF ReportOfOneCheck, Aborts, AbsentIn
<1>5. CASE "status" \in unread
  BY <1>2, <1>4, <1>5 DEF StatusReport
<1>6. CASE "status" \notin unread
  <2>1. AbsentIn(r) \subseteq report.status
    BY <1>2, <1>6 DEF StatusReport, AbsentIn, Missing
  <2> QED BY <1>2, <1>3, <1>4, <2>1
<1> QED BY <1>2, <1>3, <1>4, <1>5, <1>6

LEMMA TodoFrame ==
  ASSUME TypeOK, NEW r0 \in Regions, RegionNext(r0), NEW r \in Regions \ {r0}
  PROVE  todo'[r] = todo[r]
BY DEF RegionNext, Diagnose, DeleteNew, DeleteStack, RestoreStack, StacksDone, DriftDone,
   Verify, Unwind, TypeOK

LEMMA SameStacks ==
  ASSUME NEW r \in Regions, NamedAtFault(r), AbsentKnown(r),
         step'[r] = step[r], found'[r] = found[r], gone'[r] = gone[r], todo'[r] = todo[r],
         \A s \in StacksIn(r) : stack'[s] = stack[s]
  PROVE  NamedAtFault(r)' /\ AbsentKnown(r)'
<1>1. Named(r)' = Named(r) /\ StacksIn(r)' = StacksIn(r)
  BY DEF Named, StacksIn
<1>2. AbsentIn(r)' = AbsentIn(r)
  BY <1>1 DEF AbsentIn, StacksIn
<1> QED BY <1>1, <1>2 DEF NamedAtFault, AbsentKnown

(* Dealing with a stack touches no other; it makes the stack absent only   *)
(* by reporting it gone, and a deletion never leaves it at its baseline.   *)
LEMMA StackDealtWith ==
  ASSUME TypeOK, NEW r \in Regions, NEW s \in StacksIn(r),
         DeletedForResetup(r, s) \/ Reverted(r, s)
  PROVE  /\ \A t \in Stacks \ {s} : stack'[t] = stack[t]
         /\ stack'[s] = Missing => s \in gone'[r] \/ stack[s] = Missing
         /\ gone[r] \subseteq gone'[r]
         /\ DeletedForResetup(r, s) /\ stack[s] # {} => stack'[s] # {}
<1>1. s \in Stacks
  BY DEF StacksIn
<1>2. CASE DeletedForResetup(r, s)
  <2>1. CASE /\ stack' = [stack EXCEPT ![s] = Missing]
             /\ gone' = [gone EXCEPT ![r] = @ \cup {s}]
    BY <1>1, <2>1 DEF TypeOK, Missing
  <2>2. CASE stack' = [stack EXCEPT ![s] = {"status"}] /\ UNCHANGED gone
    <3>1. {"status"} # Missing
      BY DEF Missing
    <3> QED BY <1>1, <2>2, <3>1 DEF TypeOK
  <2>3. CASE UNCHANGED stack /\ gone' = [gone EXCEPT ![r] = @ \cup {s}]
    BY <1>1, <2>3 DEF TypeOK
  <2> QED BY <1>2, <2>1, <2>2, <2>3 DEF DeletedForResetup
<1>3. CASE Reverted(r, s) /\ ~DeletedForResetup(r, s)
  <2>1. stack[s] \in Differences /\ "drift" \in stack[s]
    BY <1>1, <1>3 DEF Reverted, TypeOK
  <2>2. "missing" \notin stack'[s]
    BY <1>1, <1>3, <2>1 DEF Reverted, TypeOK, Differences, Missing
  <2> QED BY <1>1, <1>3, <2>2 DEF Reverted, TypeOK, Missing
<1> QED BY <1>2, <1>3

LEMMA StacksInvStep == StacksInv /\ [Next]_vars => StacksInv'
<1> SUFFICES ASSUME StacksInv, [Next]_vars PROVE StacksInv'  OBVIOUS
<1> USE DEF account, To
<1>0. TypeOK /\ TypeOK'
  BY TypeStep DEF StacksInv
<1>1. ASSUME NEW r0 \in Regions, RegionNext(r0), NEW r \in Regions \ {r0}
      PROVE  NamedAtFault(r)' /\ AbsentKnown(r)'
  BY <1>0, <1>1, RegionFrame, TodoFrame, SameStacks DEF StacksInv
<1>2. ASSUME NEW r \in Regions, Diagnose(r)
      PROVE  NamedAtFault(r)' /\ AbsentKnown(r)'
  <2>1. CASE step'[r] = "failed"
    BY <2>1 DEF NamedAtFault, AbsentKnown
  <2>2. ASSUME NEW report \in Reports(r), report # NoReport, step' = [step EXCEPT ![r] = "resources"],
               found' = [found EXCEPT ![r] = report], stack' = stack
        PROVE  NamedAtFault(r)' /\ AbsentKnown(r)'
    <3>1. step'[r] = "resources" /\ found'[r] = report
      BY <1>0, <2>2 DEF TypeOK
    <3>2. AbsentIn(r)' = AbsentIn(r) /\ StacksIn(r)' = StacksIn(r)
      BY <2>2 DEF AbsentIn, StacksIn
    <3>3. stack \in [Stacks -> Differences]
      BY <1>0 DEF TypeOK
    <3> QED BY <2>2, <3>1, <3>2, <3>3, ReportNames DEF NamedAtFault, AbsentKnown, Named
  <2>3. CASE step'[r] = "ok" /\ NoReport \in Reports(r) /\ stack' = stack
    <3>1. PICK blind, unread : Report(r, blind, unread) = NoReport
      BY <2>3 DEF Reports
    <3>2. AbsentIn(r)' = {}
      BY <1>0, <2>3, <3>1, CleanReport DEF TypeOK, AbsentIn, StacksIn, Missing
    <3> QED BY <2>3, <3>2 DEF NamedAtFault, AbsentKnown
  <2> QED BY <1>0, <1>2, <2>1, <2>2, <2>3 DEF Diagnose, TypeOK
<1>3. ASSUME NEW r \in Regions, DeleteNew(r)
      PROVE  NamedAtFault(r)' /\ AbsentKnown(r)'
  <2> DEFINE missing == {s \in found[r].status : stack[s] = Missing}
  <2>1. /\ step[r] = "resources" /\ step'[r] = "stacks"
        /\ UNCHANGED <<stack, found>>
        /\ gone'[r] = missing /\ todo'[r] = Unrecoverable(r) \ missing
    BY <1>0, <1>3 DEF DeleteNew, TypeOK
  <2>2. AbsentIn(r)' = AbsentIn(r) /\ StacksIn(r)' = StacksIn(r) /\ Named(r)' = Named(r)
    BY <2>1 DEF AbsentIn, StacksIn, Named
  <2>3. AbsentIn(r) \subseteq missing \/ (Named(r) = {} /\ missing = {})
    BY <2>1 DEF StacksInv, AbsentKnown, AbsentIn, Named
  <2>4. NamedAtFault(r)'
    BY <2>1, <2>2 DEF StacksInv, NamedAtFault, Named, Unrecoverable
  <2> QED BY <2>1, <2>2, <2>3, <2>4 DEF AbsentKnown
<1>4. ASSUME NEW r \in Regions, NEW s \in StacksIn(r), DeleteStack(r, s) \/ RestoreStack(r, s)
      PROVE  NamedAtFault(r)' /\ AbsentKnown(r)'
  <2>1. /\ step' = step /\ found' = found /\ step[r] \in {"stacks", "drift"}
        /\ s \in todo[r] /\ todo'[r] = todo[r] \ {s}
        /\ DeletedForResetup(r, s) \/ Reverted(r, s)
        /\ step[r] = "stacks" => DeletedForResetup(r, s)
    BY <1>0, <1>4 DEF DeleteStack, RestoreStack, TypeOK
  <2>2. /\ \A t \in Stacks \ {s} : stack'[t] = stack[t]
        /\ stack'[s] = Missing => s \in gone'[r] \/ stack[s] = Missing
        /\ gone[r] \subseteq gone'[r]
        /\ DeletedForResetup(r, s) /\ stack[s] # {} => stack'[s] # {}
    BY <1>0, <2>1, StackDealtWith
  <2>3. StacksIn(r)' = StacksIn(r) /\ Named(r)' = Named(r) /\ StacksIn(r) \subseteq Stacks
    BY <2>1 DEF StacksIn, Named
  <2>4. NamedAtFault(r) /\ s \in Named(r)
    BY <2>1 DEF StacksInv, NamedAtFault
  <2>5. NamedAtFault(r)'
    BY <2>1, <2>2, <2>3, <2>4 DEF NamedAtFault
  <2>6. AbsentIn(r) \subseteq gone[r]
    BY <2>1, <2>4 DEF StacksInv, AbsentKnown
  <2>7. AbsentIn(r)' \subseteq gone'[r]
    BY <2>2, <2>3, <2>6 DEF AbsentIn
  <2> QED BY <2>1, <2>5, <2>7 DEF AbsentKnown
<1>5. ASSUME NEW r \in Regions, StacksDone(r)
      PROVE  NamedAtFault(r)' /\ AbsentKnown(r)'
  <2>1. /\ step[r] = "stacks" /\ UNCHANGED <<stack, found, gone>>
        /\ \/ step'[r] = "failed"
           \/ step'[r] = "drift" /\ todo'[r] = found[r].drift \ gone[r]
    BY <1>0, <1>5 DEF StacksDone, TypeOK
  <2>2. AbsentIn(r)' = AbsentIn(r) /\ StacksIn(r)' = StacksIn(r) /\ Named(r)' = Named(r)
    BY <2>1 DEF AbsentIn, StacksIn, Named
  <2> QED BY <2>1, <2>2 DEF StacksInv, NamedAtFault, AbsentKnown, Named
<1>6. ASSUME NEW r \in Regions, DriftDone(r)
      PROVE  NamedAtFault(r)' /\ AbsentKnown(r)'
  <2>1. /\ step[r] = "drift" /\ UNCHANGED <<stack, found, gone>>
        /\ step'[r] \in {"failed", "ok", "verify"}
        /\ step'[r] = "ok" => gone[r] # {}
    BY <1>0, <1>6 DEF DriftDone, TypeOK
  <2>2. AbsentIn(r)' = AbsentIn(r)
    BY <2>1 DEF AbsentIn, StacksIn
  <2> QED BY <2>1, <2>2 DEF StacksInv, NamedAtFault, AbsentKnown
<1>7. ASSUME NEW r \in Regions, Verify(r)
      PROVE  NamedAtFault(r)' /\ AbsentKnown(r)'
  <2>1. /\ UNCHANGED <<stack, gone>>
        /\ \/ step'[r] = "failed"
           \/ step'[r] = "ok" /\ NoReport \in Reports(r)
    BY <1>0, <1>7 DEF Verify, TypeOK
  <2>2. CASE step'[r] = "failed"
    BY <2>2 DEF NamedAtFault, AbsentKnown
  <2>3. CASE step'[r] = "ok" /\ NoReport \in Reports(r)
    <3>1. PICK blind, unread : Report(r, blind, unread) = NoReport
      BY <2>3 DEF Reports
    <3>2. AbsentIn(r)' = {}
      BY <1>0, <2>1, <3>1, CleanReport DEF TypeOK, AbsentIn, StacksIn, Missing
    <3> QED BY <2>3, <3>2 DEF NamedAtFault, AbsentKnown
  <2> QED BY <2>1, <2>2, <2>3
<1>8. ASSUME NEW r \in Regions, Unwind(r)
      PROVE  NamedAtFault(r)' /\ AbsentKnown(r)'
  <2>1. step'[r] = "cancelled"
    BY <1>0, <1>8 DEF Unwind, TypeOK
  <2> QED BY <2>1 DEF NamedAtFault, AbsentKnown
<1>9. ASSUME NEW r0 \in Regions, RegionNext(r0)
      PROVE  StacksInv'
  <2>1. NamedAtFault(r0)' /\ AbsentKnown(r0)'
    BY <1>2, <1>3, <1>4, <1>5, <1>6, <1>7, <1>8, <1>9 DEF RegionNext
  <2> QED BY <1>0, <1>1, <1>9, <2>1 DEF StacksInv
<1>10. CASE AccountNext \/ Shutdown \/ Done \/ UNCHANGED vars
  <2>1. UNCHANGED <<step, found, gone, todo, stack>>
    BY <1>10 DEF AccountNext, RegionsDone, DeleteGlobals, Recheck, Shutdown, Done, vars
  <2> QED BY <1>0, <2>1, SameStacks DEF StacksInv
<1> QED BY <1>9, <1>10 DEF Next

LEMMA StacksInvInit == Init => StacksInv
<1> SUFFICES ASSUME Init PROVE StacksInv  OBVIOUS
<1>1. TypeOK  BY InitType
<1> QED BY <1>1 DEF Init, StacksInv, NamedAtFault, AbsentKnown

(* Whatever could not be read, a reset that did not fail reports every     *)
(* stack that is not there as deleted, so that the caller deploys again.   *)
THEOREM AbsentStacksReported == Spec => []NoAbsentStackOverlooked
<1>1. Inv /\ StacksInv => NoAbsentStackOverlooked
  <2> SUFFICES ASSUME Inv, StacksInv, outcome \in {"success", "redeploy"},
                      NEW s \in Stacks, stack[s] = Missing
               PROVE  s \in DeletedStacks
    BY DEF NoAbsentStackOverlooked
  <2>1. StackRegion[s] \in Regions /\ s \in AbsentIn(StackRegion[s])
    BY ResetAssumption DEF AbsentIn, StacksIn
  <2>2. step[StackRegion[s]] = "ok"
    BY <2>1 DEF Inv, GlobalsWaitForAll
  <2> QED BY <2>1, <2>2 DEF StacksInv, AbsentKnown, DeletedStacks
<1> QED BY <1>1, InitInv, InvStep, StacksInvInit, StacksInvStep, PTL DEF Spec

LEMMA SoundStackStays ==
  ASSUME StacksInv, [Next]_vars, NEW s \in Stacks, stack[s] = {}
  PROVE  stack'[s] = {}
<1>1. ASSUME NEW r \in Regions, NEW t \in StacksIn(r), DeleteStack(r, t) \/ RestoreStack(r, t)
      PROVE  stack'[s] = {}
  <2>1. /\ step[r] \in {"stacks", "drift"} /\ t \in todo[r]
        /\ DeletedForResetup(r, t) \/ Reverted(r, t)
    BY <1>1 DEF DeleteStack, RestoreStack
  <2>2. stack[t] # {}
    BY <2>1 DEF StacksInv, NamedAtFault
  <2> QED BY <2>1, <2>2, StackDealtWith DEF StacksInv
<1>2. CASE stack' = stack
  BY <1>2
<1> QED BY <1>1, <1>2 DEF Next, RegionNext, AccountNext, Done, vars, account, Diagnose,
        DeleteNew, StacksDone, DriftDone, Verify, Unwind, RegionsDone, DeleteGlobals,
        Recheck, Shutdown

(* No reset deletes or changes a stack that is at its baseline, because    *)
(* it could not be inspected or in the place of another: only stacks found *)
(* at fault are dealt with, each once.                                     *)
THEOREM SoundStacksLeftAlone == Spec => BaselineStacksStay
<1> DEFINE Stay == \A s \in Stacks : stack[s] = {} => stack'[s] = {}
<1>1. StacksInv /\ [Next]_vars => [Stay]_vars
  BY SoundStackStays
<1> QED BY <1>1, StacksInvInit, StacksInvStep, PTL DEF Spec, BaselineStacksStay

-----------------------------------------------------------------------------
(* A reset is a restoration *)

(* A stack that is not there is not made again: deploying is the caller's. *)
LEMMA AbsentStackStays ==
  ASSUME StacksInv, [Next]_vars, NEW s \in Stacks, stack[s] = Missing
  PROVE  stack'[s] = Missing
<1>1. ASSUME NEW r \in Regions, NEW t \in StacksIn(r), DeleteStack(r, t) \/ RestoreStack(r, t)
      PROVE  stack'[s] = Missing
  <2>1. t \in Stacks /\ (DeletedForResetup(r, t) \/ Reverted(r, t))
    BY <1>1 DEF DeleteStack, RestoreStack, StacksIn
  <2>2. CASE t # s
    BY <1>1, <2>1, <2>2, StackDealtWith DEF StacksInv
  <2>3. CASE t = s
    <3>1. ~Reverted(r, t)
      BY <2>3 DEF Reverted, Missing
    <3> QED BY <2>1, <2>3, <3>1 DEF DeletedForResetup, StacksInv, TypeOK
  <2> QED BY <2>2, <2>3
<1>2. CASE stack' = stack
  BY <1>2
<1> QED BY <1>1, <1>2 DEF Next, RegionNext, AccountNext, Done, vars, account, Diagnose,
        DeleteNew, StacksDone, DriftDone, Verify, Unwind, RegionsDone, DeleteGlobals,
        Recheck, Shutdown

(* What a region reports as deleted it does not come back to, and is not   *)
(* at its baseline: deleted, or left as it was by a lookup that failed.    *)
GoneAtFault(r) ==
  /\ gone[r] \subseteq StacksIn(r)
  /\ gone[r] \cap todo[r] = {}
  /\ \A s \in gone[r] : stack[s] # {}

(* The result is there when the account's task is done, and then no region *)
(* is working.                                                             *)
ResultIsLast ==
  /\ outcome = "none" <=> phase # "done"
  /\ phase # "regions" => AllSettled

GoneInv == \A r \in Regions : GoneAtFault(r)

LEMMA GoneStep ==
  ASSUME StacksInv, GoneInv, [Next]_vars
  PROVE  GoneInv'
<1> USE DEF account, To
<1>0. TypeOK
  BY DEF StacksInv
<1>1. ASSUME NEW r \in Regions, UNCHANGED <<gone[r], todo[r]>>,
             \A s \in StacksIn(r) : stack'[s] = stack[s]
      PROVE  GoneAtFault(r)'
  <2>1. StacksIn(r)' = StacksIn(r)
    BY DEF StacksIn
  <2> QED BY <1>1, <2>1 DEF GoneInv, GoneAtFault
<1>2. ASSUME NEW r0 \in Regions, RegionNext(r0), NEW r \in Regions \ {r0}
      PROVE  GoneAtFault(r)'
  BY <1>0, <1>1, <1>2, RegionFrame, TodoFrame
<1>3. ASSUME NEW r \in Regions, DeleteNew(r)
      PROVE  GoneAtFault(r)'
  <2> DEFINE missing == {s \in found[r].status : stack[s] = Missing}
  <2>1. /\ step[r] = "resources" /\ stack' = stack
        /\ gone'[r] = missing /\ todo'[r] = Unrecoverable(r) \ missing
    BY <1>0, <1>3 DEF DeleteNew, TypeOK
  <2>2. missing \subseteq StacksIn(r)
    BY <2>1 DEF StacksInv, NamedAtFault, Named
  <2>3. StacksIn(r)' = StacksIn(r)
    BY DEF StacksIn
  <2> QED BY <2>1, <2>2, <2>3 DEF GoneAtFault, Missing
<1>4. ASSUME NEW r \in Regions, NEW s \in StacksIn(r), DeleteStack(r, s) \/ RestoreStack(r, s)
      PROVE  GoneAtFault(r)'
  <2>1. /\ step[r] \in {"stacks", "drift"}
        /\ s \in todo[r] /\ todo'[r] = todo[r] \ {s}
        /\ DeletedForResetup(r, s) \/ Reverted(r, s)
    BY <1>0, <1>4 DEF DeleteStack, RestoreStack, TypeOK
  <2>2. /\ \A t \in Stacks \ {s} : stack'[t] = stack[t]
        /\ DeletedForResetup(r, s) /\ stack[s] # {} => stack'[s] # {}
    BY <1>0, <2>1, StackDealtWith
  <2>3. StacksIn(r)' = StacksIn(r) /\ StacksIn(r) \subseteq Stacks
    BY DEF StacksIn
  <2>4. stack[s] # {}
    BY <2>1 DEF StacksInv, NamedAtFault
  <2>5. GoneAtFault(r) /\ s \notin gone[r]
    BY <2>1 DEF GoneInv, GoneAtFault
  <2>6. CASE gone'[r] = gone[r]
    BY <2>1, <2>2, <2>3, <2>5, <2>6 DEF GoneAtFault
  <2>7. CASE gone'[r] = gone[r] \cup {s} /\ DeletedForResetup(r, s)
    BY <2>1, <2>2, <2>3, <2>4, <2>5, <2>7 DEF GoneAtFault
  <2> QED BY <1>0, <2>1, <2>6, <2>7 DEF DeletedForResetup, Reverted, TypeOK
<1>5. ASSUME NEW r \in Regions, StacksDone(r)
      PROVE  GoneAtFault(r)'
  <2>1. /\ UNCHANGED <<stack, gone>>
        /\ todo'[r] = todo[r] \/ todo'[r] = found[r].drift \ gone[r]
    BY <1>0, <1>5 DEF StacksDone, TypeOK
  <2>2. StacksIn(r)' = StacksIn(r)
    BY DEF StacksIn
  <2> QED BY <2>1, <2>2 DEF GoneInv, GoneAtFault
<1>6. ASSUME NEW r \in Regions, Diagnose(r) \/ DriftDone(r) \/ Verify(r) \/ Unwind(r)
      PROVE  GoneAtFault(r)'
  BY <1>1, <1>6 DEF Diagnose, DriftDone, Verify, Unwind
<1>7. ASSUME NEW r0 \in Regions, RegionNext(r0)
      PROVE  GoneInv'
  <2>1. GoneAtFault(r0)'
    BY <1>3, <1>4, <1>5, <1>6, <1>7 DEF RegionNext
  <2> QED BY <1>2, <1>7, <2>1 DEF GoneInv
<1>8. CASE AccountNext \/ Shutdown \/ Done \/ UNCHANGED vars
  <2>1. UNCHANGED <<gone, todo, stack>>
    BY <1>8 DEF AccountNext, RegionsDone, DeleteGlobals, Recheck, Shutdown, Done, vars
  <2> QED BY <1>1, <2>1 DEF GoneInv
<1> QED BY <1>7, <1>8 DEF Next

LEMMA ResultStep ==
  ASSUME TypeOK, ResultIsLast, [Next]_vars
  PROVE  ResultIsLast'
<1>1. ASSUME NEW r \in Regions, RegionNext(r)
      PROVE  ResultIsLast'
  BY <1>1, RegionFrame DEF ResultIsLast, AllSettled
<1>2. CASE RegionsDone
  <2>1. AllSettled'
    BY <1>2 DEF RegionsDone, AllSettled
  <2> QED BY <1>2, <2>1 DEF RegionsDone, ResultIsLast
<1>3. CASE DeleteGlobals
  BY <1>3 DEF DeleteGlobals, ResultIsLast, AllSettled
<1>4. CASE Recheck
  <2>1. phase' = "done" /\ outcome' # "none" /\ step' = step /\ phase = "recheck"
    BY <1>4 DEF Recheck, Verdict
  <2> QED BY <2>1 DEF ResultIsLast, AllSettled
<1>5. CASE Shutdown \/ Done \/ UNCHANGED vars
  BY <1>5 DEF Shutdown, Done, vars, ResultIsLast, AllSettled
<1> QED BY <1>1, <1>2, <1>3, <1>4, <1>5 DEF Next, AccountNext

LEMMA DeploymentStep ==
  ASSUME StacksInv, [Next]_vars
  PROVE  /\ Deployment' \in {"none", "part", "full"}
         /\ Deployment # "part" => Deployment' = Deployment
<1>1. CASE \A s \in Stacks : stack[s] = {}
  <2>1. \A s \in Stacks : stack'[s] = {}
    BY <1>1, SoundStackStays
  <2> QED BY <1>1, <2>1 DEF Deployment
<1>2. CASE /\ \E s \in Stacks : stack[s] # {}
           /\ \A s \in Stacks : stack[s] = Missing
  <2>1. \A s \in Stacks : stack'[s] = Missing
    BY <1>2, AbsentStackStays
  <2> QED BY <1>2, <2>1 DEF Deployment, Missing
<1>3. CASE Deployment = "part"
  BY <1>3 DEF Deployment
<1> QED BY <1>1, <1>2, <1>3 DEF Deployment

(* While no result is there, a step works on the account.                  *)
LEMMA StepRestores ==
  ASSUME StacksInv, [Next]_vars, outcome = "none", outcome' = "none", live' \subseteq live
  PROVE  Restoration!Restore
<1>1. (live' \ Lingering # {}) => (live \ Lingering # {})
  OBVIOUS
<1>2. (live' \ Lingering # {}) \in BOOLEAN
  OBVIOUS
<1> QED BY <1>1, <1>2, DeploymentStep DEF Restoration!Restore

(* The result comes last, and is about the account as it is.               *)
LEMMA StepReports ==
  ASSUME Inv', GoneInv, SuccessIsBaseline', "scan" \notin Faults => SuccessLeavesNothing',
         RegionsDone \/ Recheck, outcome = "none", outcome' # "none"
  PROVE  Restoration!Next
<1> USE DEF account
<1>1. UNCHANGED <<stack, live, gone>>
  BY DEF RegionsDone, Recheck
<1>2. UNCHANGED <<Deployment, live \ Lingering # {}>>
  BY <1>1 DEF Deployment
<1>3. CASE outcome' \in {"failed", "cancelled"}
  BY <1>2, <1>3 DEF Restoration!Next, Restoration!GiveUp, Restoration!Reports
<1>4. CASE outcome' = "success"
  <2>1. \A s \in Stacks : stack[s] = {}
    BY <1>1, <1>4 DEF SuccessIsBaseline
  <2>2. "scan" \notin Faults => live \ Lingering = {}
    BY <1>1, <1>4 DEF SuccessLeavesNothing
  <2>3. Deployment = "full"
    BY <2>1 DEF Deployment
  <2> QED BY <1>2, <1>4, <2>2, <2>3 DEF Restoration!Next, Restoration!Succeed,
          Restoration!Reports
<1>5. CASE outcome' = "redeploy"
  <2>1. DeletedStacks # {}
    BY <1>5 DEF RegionsDone, Recheck, Verdict
  <2>2. PICK r \in Regions : gone[r] # {}
    BY <2>1 DEF DeletedStacks
  <2>3. PICK s \in gone[r] : s \in Stacks /\ stack[s] # {}
    BY <2>2 DEF GoneInv, GoneAtFault, StacksIn
  <2>4. Deployment # "full"
    BY <2>3 DEF Deployment
  <2> QED BY <1>2, <1>5, <2>4 DEF Restoration!Next, Restoration!AskForRedeploy,
          Restoration!Reports
<1> QED BY <1>3, <1>4, <1>5 DEF Inv, TypeOK

LEMMA StepIsRestoration ==
  ASSUME Inv', StacksInv, GoneInv, ResultIsLast, [Next]_vars,
         SuccessIsBaseline', "scan" \notin Faults => SuccessLeavesNothing'
  PROVE  [Restoration!Next]_(Restoration!vars)
<1> USE DEF account
<1>1. ASSUME NEW r \in Regions, RegionNext(r)
      PROVE  Restoration!Next
  <2>1. UNCHANGED <<phase, outcome>> /\ live' \subseteq live /\ step[r] \notin Settled
    BY <1>1, RegionFrame DEF StacksInv
  <2>2. outcome = "none"
    BY <2>1 DEF ResultIsLast, AllSettled
  <2> QED BY <2>1, <2>2, StepRestores DEF Restoration!Next
<1>2. CASE RegionsDone
  <2>1. outcome = "none" /\ live' = live
    BY <1>2 DEF RegionsDone, ResultIsLast
  <2> QED BY <1>2, <2>1, StepReports, StepRestores DEF Restoration!Next
<1>3. CASE DeleteGlobals
  <2>1. outcome = "none" /\ outcome' = outcome /\ live' \subseteq live
    BY <1>3 DEF DeleteGlobals, ResultIsLast
  <2> QED BY <2>1, StepRestores DEF Restoration!Next
<1>4. CASE Recheck
  <2>1. outcome = "none" /\ outcome' # "none"
    BY <1>4 DEF Recheck, Verdict, ResultIsLast
  <2> QED BY <1>4, <2>1, StepReports
<1>5. CASE Shutdown \/ Done \/ UNCHANGED vars
  <2>1. UNCHANGED <<stack, live, outcome>>
    BY <1>5 DEF Shutdown, Done, vars
  <2> QED BY <2>1 DEF Restoration!vars, Deployment
<1> QED BY <1>1, <1>2, <1>3, <1>4, <1>5 DEF Next, AccountNext

(* What the commands count on is what the reset does, whatever fails: only *)
(* that a success leaves nothing new needs every type to be scanned.       *)
THEOREM ImplementsRestoration ==
  ASSUME Regions # {}
  PROVE  Spec => RestorationSpec
<1> DEFINE Swept == "scan" \notin Faults => SuccessLeavesNothing
<1>1. Spec => []Swept
  <2>1. CASE "scan" \notin Faults
    <3>1. SuccessLeavesNothing => Swept
      OBVIOUS
    <3>2. Spec => []SuccessLeavesNothing
      BY <2>1, SuccessSweepsAll
    <3> QED BY <3>1, <3>2, PTL
  <2>2. CASE "scan" \in Faults
    <3>1. Swept
      BY <2>2
    <3> QED BY <3>1, PTL
  <2> QED BY <2>1, <2>2
<1>2. Init => Restoration!Init /\ GoneInv /\ ResultIsLast
  <2> SUFFICES ASSUME Init PROVE Restoration!Init /\ GoneInv /\ ResultIsLast
    OBVIOUS
  <2>1. GoneInv /\ ResultIsLast
    BY DEF Init, GoneInv, GoneAtFault, ResultIsLast
  <2>2. Deployment \in {"none", "part", "full"} /\ outcome = "none"
    BY DEF Init, Deployment
  <2> QED BY <2>1, <2>2 DEF Restoration!Init
<1>3. StacksInv /\ GoneInv /\ ResultIsLast /\ [Next]_vars => (GoneInv /\ ResultIsLast)'
  BY GoneStep, ResultStep DEF StacksInv
<1>4. /\ Inv' /\ StacksInv /\ GoneInv /\ ResultIsLast /\ [Next]_vars
      /\ SuccessIsBaseline' /\ Swept'
      => [Restoration!Next]_(Restoration!vars)
  BY StepIsRestoration
<1> QED BY <1>1, <1>2, <1>3, <1>4, AlwaysInv, SuccessMeansBaseline, StacksInvInit,
        StacksInvStep, PTL DEF Spec, RestorationSpec, Restoration!Spec
=============================================================================
