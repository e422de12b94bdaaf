------------------------ MODULE AccountCleanupProofs ------------------------
(***************************************************************************)
(* Proofs about AccountCleanup for any resources, stacks, regions and      *)
(* faults.                                                                 *)
(***************************************************************************)
EXTENDS AccountCleanup, TLAPS

(* What each step may do to what, action by action. *)
LEMMA StepCases ==
  ASSUME [Next]_vars
  PROVE  \/ Capture \/ Setup \/ CapturePost \/ Work
         \/ \E r \in Regions :
              \/ Residuals(r) \/ SweepResiduals(r)
              \/ DeleteStacks(r) \/ StacksUnlisted(r)
              \/ Leftovers(r) \/ SweepLeftovers(r)
              \/ Globals(r) \/ Rescan(r) \/ RescanFails(r)
         \/ Script \/ RegionsDone \/ SweepGlobals \/ Verdict \/ Shutdown
         \/ UNCHANGED vars
BY DEF Next, Region, Account

(* A sweep takes nothing but what it was given and what stacks among that  *)
(* own, and defers nothing that is not there.                              *)
LEMMA SweepsOnly ==
  ASSUME NEW set, Sweeps(set)
  PROVE  /\ live' \subseteq live
         /\ live \ live' \subseteq set \cup Owned(set \cap stacks)
         /\ deferred \subseteq deferred'
         /\ deferred' \subseteq deferred \cup live
BY DEF Sweeps, Some

(* What the deletion of the stacks of a region takes: stacks of it and what *)
(* they own.  One that is left is told of, or is infrastructure.           *)
LEMMA StacksDeleted ==
  ASSUME NEW r \in Regions, DeleteStacks(r)
  PROVE  /\ live' \subseteq live /\ failed \subseteq failed'
         /\ postponed \subseteq postponed' /\ postponed' \subseteq postponed \cup stacks
         /\ \A x \in live \ live' :
              \E s \in stacks : Home[s] = r /\ (x = s \/ x \in Owns[s])
         /\ deferred' \subseteq deferred \cup stacks \cup Owned(stacks)
         /\ failed' \subseteq failed \cup {r}
         /\ \A s \in stacks \ Bootstrap :
              s \in live' /\ Home[s] = r => s \in postponed' \/ r \in failed'
<1> DEFINE here == {s \in stacks : Home[s] = r}
<1>1. PICK told \in Tellings(here), left \in SUBSET here :
        /\ TornDown(here \ Bootstrap, here \cap Bootstrap, told, left)
        /\ \E lost \in SUBSET Owned(here \ told.kept) : live' = live \ (lost \cup (here \ left))
        /\ \E known \in SUBSET (Owned(told.later) \cap Networking),
              unnoted \in Some("lookup", told.later) :
             deferred' = deferred \cup (told.later \ unnoted) \cup known
        /\ postponed' = postponed \cup told.later
        /\ failed' = IF told.bad = {} THEN failed ELSE failed \cup {r}
  BY DEF DeleteStacks
<1>2. told.bad \subseteq here /\ told.later \subseteq here /\ told.kept \subseteq here \cap Bootstrap
  BY DEF Tellings, Some
<1>3. PICK lost \in SUBSET Owned(here \ told.kept) : live' = live \ (lost \cup (here \ left))
  BY <1>1
<1>4. PICK known \in SUBSET (Owned(told.later) \cap Networking),
           unnoted \in Some("lookup", told.later) :
        deferred' = deferred \cup (told.later \ unnoted) \cup known
  BY <1>1
<1>5. \A x \in live \ live' : \E s \in here : x = s \/ x \in Owns[s]
  BY <1>3 DEF Owned
<1>6. deferred' \subseteq deferred \cup stacks \cup Owned(stacks)
  BY <1>2, <1>4 DEF Owned
<1>7. ASSUME NEW s \in stacks \ Bootstrap, s \in live', Home[s] = r
      PROVE  s \in postponed' \/ r \in failed'
  <2>1. s \in left
    BY <1>3, <1>7
  <2>2. s \in told.bad \cup told.later
    BY <1>1, <1>2, <1>7, <2>1 DEF TornDown
  <2> QED BY <1>1, <2>2
<1> QED BY <1>1, <1>2, <1>3, <1>5, <1>6, <1>7

-----------------------------------------------------------------------------
(* Types.  No stage and place of a region go together that the code does   *)
(* not reach.                                                              *)

Placed ==
    /\ stage \in {"new", "ready", "deployed", "working", "presweep", "regions", "globals",
                  "orphans", "clean", "dirty", "cancelled"}
    /\ pc \in [Regions -> {"idle", "scan1", "sweep1", "stacks", "scan3", "sweep3", "done",
                           "globals", "seen", "scan", "scanned"}]
    /\ \A r \in Regions :
          /\ stage \in {"new", "ready", "deployed", "working", "cancelled"} => pc[r] = "idle"
          /\ stage = "presweep" => pc[r] \in {"scan1", "sweep1", "done"}
          /\ stage = "regions" => pc[r] \in {"stacks", "scan3", "sweep3", "done"}
          /\ stage = "globals" => pc[r] \in {"globals", "seen"}
          /\ stage = "orphans" => pc[r] \in {"scan", "scanned"}
          /\ stage \in {"clean", "dirty"} => pc[r] = "scanned"

LEMMA PlacedInductive ==
  ASSUME Placed, [Next]_vars
  PROVE  Placed'
<1>1. CASE Capture \/ Setup \/ CapturePost \/ Work \/ Script \/ RegionsDone \/ SweepGlobals
           \/ Verdict \/ Shutdown \/ UNCHANGED vars
  BY <1>1 DEF Placed, Capture, Setup, CapturePost, Work, Script, RegionsDone,
        SweepGlobals, Verdict, Shutdown, vars
<1>2. ASSUME NEW r \in Regions,
             \/ Residuals(r) \/ SweepResiduals(r) \/ DeleteStacks(r) \/ StacksUnlisted(r)
             \/ Leftovers(r) \/ SweepLeftovers(r) \/ Globals(r) \/ Rescan(r) \/ RescanFails(r)
      PROVE  Placed'
  <2>1. /\ stage' = stage
        /\ \E to : /\ pc' = [pc EXCEPT ![r] = to]
                   /\ \/ pc[r] = "scan1" /\ to = "sweep1"
                      \/ pc[r] = "sweep1" /\ to = "done"
                      \/ pc[r] = "stacks" /\ to = "scan3"
                      \/ pc[r] = "scan3" /\ to = "sweep3"
                      \/ pc[r] = "sweep3" /\ to = "done"
                      \/ pc[r] = "globals" /\ to = "seen"
                      \/ pc[r] = "scan" /\ to = "scanned"
    BY <1>2 DEF Residuals, SweepResiduals, DeleteStacks, StacksUnlisted,
          Leftovers, SweepLeftovers, Globals, Rescan, RescanFails, To
  <2>2. PICK to : /\ pc' = [pc EXCEPT ![r] = to]
                  /\ \/ pc[r] = "scan1" /\ to = "sweep1"
                     \/ pc[r] = "sweep1" /\ to = "done"
                     \/ pc[r] = "stacks" /\ to = "scan3"
                     \/ pc[r] = "scan3" /\ to = "sweep3"
                     \/ pc[r] = "sweep3" /\ to = "done"
                     \/ pc[r] = "globals" /\ to = "seen"
                     \/ pc[r] = "scan" /\ to = "scanned"
    BY <2>1
  <2>3. pc'[r] = to /\ \A q \in Regions \ {r} : pc'[q] = pc[q]
    BY <2>2 DEF Placed
  <2>4. pc' \in [Regions -> {"idle", "scan1", "sweep1", "stacks", "scan3", "sweep3", "done",
                             "globals", "seen", "scan", "scanned"}]
    BY <2>2 DEF Placed
  <2> QED BY <2>1, <2>2, <2>3, <2>4 DEF Placed
<1> QED BY StepCases, <1>1, <1>2

(* What a step of a region looks for is live. *)
LEMMA ScanFinds ==
  ASSUME found \in [Regions -> SUBSET Resources], live \subseteq Resources,
         NEW r \in Regions, Residuals(r) \/ Leftovers(r) \/ Globals(r)
  PROVE  /\ found' \in [Regions -> SUBSET Resources]
         /\ found'[r] \subseteq live
         /\ \A q \in Regions \ {r} : found'[q] = found[q]
<1>1. \A seen \in Scans(r) : seen \subseteq live
  BY DEF Scans, Seen
<1>2. \E set \in SUBSET live : found' = [found EXCEPT ![r] = set]
  <2>1. CASE Residuals(r)
    BY <1>1, <2>1 DEF Residuals, Finds, Regional, NewSince, Sweepable
  <2>2. CASE Leftovers(r)
    BY <1>1, <2>2 DEF Leftovers, Finds, Regional, NewSince, Sweepable
  <2>3. CASE Globals(r)
    BY <1>1, <2>3 DEF Globals, Finds, AccountWide, NewSince, Sweepable
  <2> QED BY <2>1, <2>2, <2>3
<1>3. PICK set \in SUBSET live : found' = [found EXCEPT ![r] = set]
  BY <1>2
<1> QED BY <1>3

LEMMA SnapshotsTyped ==
  ASSUME live \subseteq Resources
  PROVE  Snapshots \subseteq Records
<1>1. None \in Records
  BY DEF None, Records
<1>2. ASSUME NEW down \in Downs
      PROVE  Snapshot(down) \in Records
  <2>1. {Key(x) : x \in UNION {Seen(r, down) : r \in Regions}}
          \subseteq {Key(x) : x \in Resources}
    BY DEF Seen
  <2>2. UNION {FailedTypes(r, down) : r \in Regions} \subseteq {Kind[l] : l \in Listers}
    BY DEF FailedTypes
  <2>3. down \subseteq Listers \X Regions
    BY CleanupAssumption
  <2> QED BY <2>1, <2>2, <2>3 DEF Snapshot, Records
<1> QED BY <1>1, <1>2 DEF Snapshots

LEMMA OwnedResources ==
  ASSUME NEW set, set \subseteq Stacks
  PROVE  Owned(set) \subseteq Resources /\ Owned(set) \cap (Stacks \cup Defaults) = {}
BY CleanupAssumption DEF Owned

DataOK ==
    /\ live \subseteq Resources /\ deployed \subseteq Resources
    /\ pre \in Records /\ post \in Records
    /\ found \in [Regions -> SUBSET Resources]
    /\ deferred \subseteq Resources /\ postponed \subseteq Stacks
    /\ failed \subseteq Regions /\ blind \subseteq Regions
    /\ orphans \subseteq Resources /\ missed \subseteq Listers \X Regions

LEMMA DataInductive ==
  ASSUME DataOK, [Next]_vars
  PROVE  DataOK'
<1>1. CASE Capture \/ CapturePost
  <2>1. pre' \in Records /\ post' \in Records
    BY <1>1, SnapshotsTyped DEF Capture, CapturePost, snapshots, DataOK
  <2> QED BY <1>1, <2>1 DEF Capture, CapturePost, DataOK, snapshots, verdictOf
<1>2. CASE Setup
  <2>1. live' \subseteq Resources /\ deployed' = live'
    BY <1>2, OwnedResources, CleanupAssumption DEF Setup, DataOK, Deployment
  <2> QED BY <1>2, <2>1 DEF Setup, DataOK, verdictOf
<1>3. CASE Work
  BY <1>3, CleanupAssumption DEF Work, DataOK, snapshots, verdictOf
<1>4. CASE Script \/ RegionsDone \/ Verdict \/ Shutdown \/ UNCHANGED vars
  BY <1>4 DEF Script, RegionsDone, Verdict, Shutdown, DataOK, snapshots,
        verdictOf, vars
<1>5. CASE SweepGlobals
  BY <1>5, SweepsOnly DEF SweepGlobals, DataOK, snapshots, verdictOf
<1>6. ASSUME NEW r \in Regions, Residuals(r) \/ Leftovers(r) \/ Globals(r)
      PROVE  DataOK'
  BY <1>6, ScanFinds DEF Residuals, Leftovers, Globals, DataOK, snapshots, verdictOf
<1>7. ASSUME NEW r \in Regions, SweepResiduals(r) \/ SweepLeftovers(r)
      PROVE  DataOK'
  BY <1>7, SweepsOnly DEF SweepResiduals, SweepLeftovers, Finds, DataOK, snapshots, verdictOf
<1>8. ASSUME NEW r \in Regions, DeleteStacks(r)
      PROVE  DataOK'
  <2>1. /\ live' \subseteq live
        /\ deferred' \subseteq deferred \cup stacks \cup Owned(stacks)
        /\ postponed' \subseteq postponed \cup stacks
        /\ failed' \subseteq failed \cup {r}
        /\ UNCHANGED <<snapshots, found, orphans, blind, missed>>
    BY <1>8, StacksDeleted DEF DeleteStacks
  <2>2. stacks \subseteq Resources \cap Stacks /\ Owned(stacks) \subseteq Resources
    BY OwnedResources DEF stacks, DataOK
  <2> QED BY <2>1, <2>2 DEF DataOK, snapshots
<1>9. ASSUME NEW r \in Regions, StacksUnlisted(r)
      PROVE  DataOK'
  BY <1>9 DEF StacksUnlisted, DataOK, snapshots
<1>10. ASSUME NEW r \in Regions, Rescan(r) \/ RescanFails(r)
       PROVE  DataOK'
  <2>1. CASE Rescan(r)
    <3>1. PICK down \in Downs :
            /\ orphans' = orphans \cup Orphans(Seen(r, down))
            /\ missed' = missed \cup {d \in down : d[2] = r}
      BY <2>1 DEF Rescan
    <3>2. orphans' \subseteq Resources
      BY <3>1 DEF Orphans, Sweepable, Seen, DataOK
    <3>3. missed' \subseteq Listers \X Regions
      BY <3>1, CleanupAssumption DEF DataOK
    <3> QED BY <2>1, <3>2, <3>3 DEF Rescan, DataOK, snapshots
  <2>2. CASE RescanFails(r)
    BY <2>2 DEF RescanFails, DataOK, snapshots
  <2> QED BY <1>10, <2>1, <2>2
<1> QED BY StepCases, <1>1, <1>2, <1>3, <1>4, <1>5, <1>6, <1>7, <1>8, <1>9, <1>10

LEMMA InitialTyped == Init => Placed /\ DataOK
<1> SUFFICES ASSUME Init PROVE Placed /\ DataOK
  OBVIOUS
<1>1. None \in Records
  BY DEF None, Records
<1> QED BY <1>1, CleanupAssumption DEF Init, Placed, DataOK

(* Every variable keeps its type, and no region is ever at a phase that    *)
(* does not belong to where the command is (_cleanup_all_stacks_impl).     *)
THEOREM CleanupTypesCorrect == Spec => []TypeOK
<1>1. Placed /\ DataOK /\ [Next]_vars => (Placed /\ DataOK)'
  BY PlacedInductive, DataInductive
<1>2. Placed /\ DataOK => TypeOK
  BY DEF Placed, DataOK, TypeOK, Sweeping, Over
<1> QED BY InitialTyped, <1>1, <1>2, PTL DEF Spec

-----------------------------------------------------------------------------
(* What outlives the sweeps.  A snapshot knows a resource when it lists it *)
(* or says that its type could not be listed; then no diff against it      *)
(* finds the resource new.  Of what there was it knows all but what it has *)
(* half listed.                                                            *)

Known(base, set) ==
  base.taken =>
    \A x \in set :
      ListedBy[x] = {} \/ HalfListed(x, base, set) \/ Type[x] \in base.failed \/ Key(x) \in base.ids

LEMMA SnapshotKnows ==
  ASSUME live \subseteq Resources, NEW base \in Snapshots
  PROVE  Known(base, live)
<1>1. CASE base = None
  BY <1>1 DEF None, Known
<1>2. ASSUME NEW down \in Downs, base = Snapshot(down)
      PROVE  Known(base, live)
  <2> SUFFICES ASSUME NEW x \in live, ListedBy[x] # {}, ~HalfListed(x, base, live)
               PROVE  Type[x] \in base.failed \/ Key(x) \in base.ids
    BY DEF Known
  <2>1. base.down = down
    BY <1>2 DEF Snapshot
  <2>2. PICK r \in Regions :
          \/ Home[x] \in {r, Global} /\ Answers(x, r, down)
          \/ /\ \E l \in Listers : Kind[l] = Type[x] /\ <<l, r>> \in down
             /\ ~\E y \in live :
                   Type[y] = Type[x] /\ Home[y] \in {r, Global} /\ Answers(y, r, down)
    BY <2>1 DEF HalfListed
  <2>3. CASE Home[x] \in {r, Global} /\ Answers(x, r, down)
    <3>1. x \in Seen(r, down)
      BY <2>3 DEF Seen
    <3> QED BY <1>2, <3>1 DEF Snapshot
  <2>4. CASE /\ \E l \in Listers : Kind[l] = Type[x] /\ <<l, r>> \in down
             /\ ~\E y \in live :
                   Type[y] = Type[x] /\ Home[y] \in {r, Global} /\ Answers(y, r, down)
    <3>1. PICK l \in Listers : Kind[l] = Type[x] /\ <<l, r>> \in down
      BY <2>4
    <3>2. \A y \in Seen(r, down) : Type[y] # Type[x]
      BY <2>4 DEF Seen
    <3>3. Type[x] \in FailedTypes(r, down)
      BY <3>1, <3>2 DEF FailedTypes
    <3> QED BY <1>2, <3>3 DEF Snapshot
  <2> QED BY <2>2, <2>3, <2>4
<1> QED BY <1>1, <1>2 DEF Snapshots

LEMMA KnownIsNotNew ==
  ASSUME NEW base, base.taken, NEW set, Known(base, set), NEW r \in Regions,
         NEW seen \in Scans(r), NEW assets,
         NEW x \in NewSince(base, Sweepable(seen, assets)) \cap set
  PROVE  HalfListed(x, base, set)
<1>1. x \in seen /\ Type[x] \notin base.failed /\ Key(x) \notin base.ids
  BY DEF NewSince, Sweepable
<1>2. ListedBy[x] # {}
  BY <1>1 DEF Scans, Seen, Answers
<1> QED BY <1>1, <1>2 DEF Known

(* Until its own cleanup, the account has what was there, what the setup   *)
(* deployed and what the agent added.                                      *)
Grown ==
    /\ stage \in {"new", "ready"} => live = Defaults
    /\ stage \in {"deployed", "working", "presweep"} =>
         deployed = Defaults \cup Deployment /\ live \subseteq deployed \cup Extras

LEMMA GrownInductive ==
  ASSUME Placed, Grown, [Next]_vars
  PROVE  Grown'
<1>1. CASE Capture \/ Setup \/ CapturePost \/ Work
  BY <1>1 DEF Capture, Setup, CapturePost, Work, Grown, snapshots
<1>2. CASE Script \/ RegionsDone \/ SweepGlobals \/ Verdict \/ Shutdown
  BY <1>2 DEF Script, RegionsDone, SweepGlobals, Verdict, Shutdown, Grown
<1>3. ASSUME NEW r \in Regions, \/ Residuals(r) \/ Leftovers(r) \/ Globals(r) \/ StacksUnlisted(r)
                                \/ Rescan(r) \/ RescanFails(r)
      PROVE  Grown'
  BY <1>3 DEF Residuals, Leftovers, Globals, StacksUnlisted, Rescan, RescanFails, Grown, snapshots
<1>4. ASSUME NEW r \in Regions, SweepResiduals(r) \/ SweepLeftovers(r)
      PROVE  Grown'
  <2>1. live' \subseteq live /\ UNCHANGED <<stage, deployed>>
    BY <1>4, SweepsOnly DEF SweepResiduals, SweepLeftovers, snapshots
  <2>2. stage \notin {"new", "ready"}
    BY <1>4 DEF SweepResiduals, SweepLeftovers, Placed
  <2> QED BY <2>1, <2>2 DEF Grown
<1>5. ASSUME NEW r \in Regions, DeleteStacks(r)
      PROVE  Grown'
  BY <1>5 DEF DeleteStacks, Grown, Placed
<1>6. CASE UNCHANGED vars
  BY <1>6 DEF vars, Grown
<1> QED BY StepCases, <1>1, <1>2, <1>3, <1>4, <1>5, <1>6

(* What the sweep before the cleanup takes of the deployed resources it    *)
(* was given, or takes with a stack that is not the agent's.               *)
LEMMA AgentStacksOwn ==
  ASSUME DataOK, Grown, stage = "presweep", NEW set,
         NEW x \in Owned(set \cap stacks) \cap deployed
  PROVE  \E s \in set \cap deployed \cap Stacks : x \in Owns[s]
<1>1. PICK s \in set \cap stacks : x \in Owns[s]
  BY DEF Owned
<1>2. deployed = Defaults \cup Deployment /\ s \in Stacks /\ s \in deployed \cup Extras
  BY DEF Grown, stacks
<1>3. s \notin deployed => Owns[s] \subseteq Extras
  BY <1>2, CleanupAssumption
<1> QED BY <1>1, <1>2, <1>3, CleanupAssumption

Before == {"new", "ready", "deployed", "working"}

Excused(x) == HalfListed(x, pre, Defaults) \/ HalfListed(x, post, deployed)

ExcusedEarly(x) ==
    \/ HalfListed(x, post, deployed)
    \/ \E s \in deployed \cap Stacks : x \in Owns[s] /\ HalfListed(s, post, deployed)

Kept ==
    /\ Known(pre, Defaults) /\ Known(post, deployed)
    /\ stage \in {"new", "ready", "deployed"} => ~post.taken
    /\ stage \notin {"new", "ready"} => Defaults \subseteq deployed
    /\ stage \in Before => Defaults \subseteq live /\ \A r \in Regions : found[r] = {}
    /\ stage \in {"deployed", "working"} => live = deployed
    /\ \A x \in Defaults \ live : Excused(x)
    /\ \A r \in Regions : \A x \in found[r] \cap Defaults : Excused(x)
    /\ stage = "presweep" =>
         /\ \A x \in deployed \ live : ExcusedEarly(x)
         /\ \A r \in Regions : pc[r] = "sweep1" =>
              \A x \in found[r] \cap deployed : HalfListed(x, post, deployed)

LEMMA ExcusesStay ==
  ASSUME UNCHANGED <<pre, post, deployed>>
  PROVE  /\ \A x : Excused(x)' = Excused(x) /\ ExcusedEarly(x)' = ExcusedEarly(x)
         /\ \A x : HalfListed(x, post, deployed)' = HalfListed(x, post, deployed)
         /\ Known(pre, Defaults)' = Known(pre, Defaults)
         /\ Known(post, deployed)' = Known(post, deployed)
BY DEF Excused, ExcusedEarly, HalfListed, Answers, Known

LEMMA ScanKeeps ==
  ASSUME Placed, DataOK, Kept, NEW r \in Regions, Residuals(r) \/ Leftovers(r) \/ Globals(r)
  PROVE  Kept'
<1>1. /\ \A q \in Regions \ {r} : found'[q] = found[q] /\ pc'[q] = pc[q]
      /\ UNCHANGED <<live, pre, post, deployed, stage>>
  BY ScanFinds DEF Residuals, Leftovers, Globals, To, snapshots, DataOK, Placed
<1>2. stage \notin Before
  BY DEF Residuals, Leftovers, Globals, Placed, Before
<1>3. /\ \A x \in found'[r] \cap Defaults : Excused(x)
      /\ stage = "presweep" => \A x \in found'[r] \cap deployed : HalfListed(x, post, deployed)
  <2>1. CASE Residuals(r)
    <3>1. PICK seen \in Scans(r) :
            found'[r] = IF post.taken THEN Regional(NewSince(post, Sweepable(seen, FALSE)))
                                      ELSE {}
      BY <2>1 DEF Residuals, Finds, DataOK
    <3>2. \A x \in found'[r] \cap deployed : HalfListed(x, post, deployed)
      BY <3>1, KnownIsNotNew DEF Kept, Regional
    <3>3. Defaults \subseteq deployed
      BY <1>2 DEF Kept, Before
    <3> QED BY <3>2, <3>3 DEF Excused
  <2>2. CASE Leftovers(r) \/ Globals(r)
    <3>1. stage # "presweep"
      BY <2>2 DEF Leftovers, Globals, Placed
    <3>2. PICK seen \in Scans(r), assets \in BOOLEAN :
            found'[r] \subseteq IF pre.taken THEN NewSince(pre, Sweepable(seen, assets)) ELSE {}
      <4>1. CASE Leftovers(r)
        BY <4>1 DEF Leftovers, Finds, DataOK, Regional
      <4>2. CASE Globals(r)
        BY <4>2 DEF Globals, Finds, DataOK, AccountWide
      <4> QED BY <2>2, <4>1, <4>2
    <3>3. \A x \in found'[r] \cap Defaults : HalfListed(x, pre, Defaults)
      BY <3>2, KnownIsNotNew DEF Kept
    <3> QED BY <3>1, <3>3 DEF Excused
  <2> QED BY <2>1, <2>2
<1> QED BY <1>1, <1>2, <1>3, ExcusesStay DEF Kept, Before

LEMMA KeptInductive ==
  ASSUME Placed, DataOK, Grown, Kept, [Next]_vars
  PROVE  Kept'
<1>0. stacks \subseteq Stacks /\ Stacks \cap Defaults = {}
  BY CleanupAssumption DEF stacks
<1>1. CASE Capture
  <2>1. live = Defaults /\ Known(pre', Defaults)
    BY <1>1, SnapshotKnows DEF Capture, Grown, DataOK
  <2>2. UNCHANGED <<live, post, deployed, found>> /\ stage = "new" /\ stage' = "ready"
    BY <1>1 DEF Capture
  <2>3. Known(post, deployed)' /\ Known(pre, Defaults)'
    BY <2>1, <2>2 DEF Kept, Known, HalfListed, Answers
  <2> QED BY <2>1, <2>2, <2>3 DEF Kept, Before
<1>2. CASE CapturePost
  <2>1. stage = "deployed" /\ stage' = "working" /\ UNCHANGED <<live, pre, deployed, found>>
    BY <1>2 DEF CapturePost
  <2>2. Known(post', deployed')
    BY <1>2, <2>1, SnapshotKnows DEF CapturePost, Kept, DataOK
  <2> QED BY <2>1, <2>2 DEF Kept, Before
<1>3. CASE Setup
  <2>1. /\ stage = "ready" /\ stage' = "deployed" /\ live \subseteq live' /\ deployed' = live'
        /\ UNCHANGED <<pre, post, found>>
    BY <1>3 DEF Setup
  <2>2. Known(post', deployed')
    BY <2>1 DEF Kept, Known
  <2> QED BY <2>1, <2>2 DEF Kept, Before
<1>4. CASE Work
  <2>1. /\ stage = "working" /\ stage' = "presweep" /\ live \subseteq live'
        /\ UNCHANGED <<pre, post, deployed, found>>
        /\ \A r \in Regions : pc'[r] = "scan1"
    BY <1>4 DEF Work, snapshots
  <2> QED BY <2>1, ExcusesStay DEF Kept, Before
<1>5. CASE Script
  <2>1. live \ live' \subseteq stacks \cup Owned(stacks) /\ stage' = "regions" /\ stage = "presweep"
    BY <1>5 DEF Script, Owned
  <2>2. Defaults \cap (live \ live') = {}
    BY <1>0, <2>1, OwnedResources
  <2>3. UNCHANGED <<pre, post, deployed, found>>
    BY <1>5 DEF Script, snapshots
  <2> QED BY <2>1, <2>2, <2>3, ExcusesStay DEF Kept, Before
<1>6. CASE RegionsDone \/ Verdict \/ Shutdown
  <2>1. /\ UNCHANGED <<live, pre, post, deployed, found>>
        /\ stage \notin Before /\ stage' \notin Before /\ stage' # "presweep"
    BY <1>6 DEF RegionsDone, Verdict, Shutdown, snapshots, Before
  <2> QED BY <2>1, ExcusesStay DEF Kept, Before
<1>7. CASE SweepGlobals
  <2> DEFINE set == UNION {found[r] : r \in Regions}
  <2>1. /\ live \ live' \subseteq set \cup Owned(set \cap stacks)
        /\ stage = "globals" /\ stage' = "orphans" /\ UNCHANGED <<pre, post, deployed>>
    BY <1>7, SweepsOnly DEF SweepGlobals, snapshots
  <2>2. Owned(set \cap stacks) \cap Defaults = {}
    BY <1>0, OwnedResources
  <2>3. \A x \in Defaults \ live' : Excused(x)
    BY <2>1, <2>2 DEF Kept
  <2>4. \A r \in Regions : found'[r] = {}
    BY <1>7 DEF SweepGlobals
  <2> QED BY <2>1, <2>3, <2>4, ExcusesStay DEF Kept, Before
<1>8. ASSUME NEW r \in Regions, Residuals(r) \/ Leftovers(r) \/ Globals(r)
      PROVE  Kept'
  BY <1>8, ScanKeeps
<1>9. ASSUME NEW r \in Regions, SweepResiduals(r) \/ SweepLeftovers(r)
      PROVE  Kept'
  <2>1. /\ live \ live' \subseteq found[r] \cup Owned(found[r] \cap stacks)
        /\ UNCHANGED <<pre, post, deployed, stage>>
    BY <1>9, SweepsOnly DEF SweepResiduals, SweepLeftovers, snapshots
  <2>2. /\ found'[r] = {} /\ pc'[r] = "done"
        /\ \A q \in Regions \ {r} : found'[q] = found[q] /\ pc'[q] = pc[q]
    BY <1>9 DEF SweepResiduals, SweepLeftovers, Finds, To, DataOK, Placed
  <2>3. stage = "presweep" => pc[r] = "sweep1"
    BY <1>9 DEF SweepResiduals, SweepLeftovers, Placed
  <2>4. stage \notin Before
    BY <1>9 DEF SweepResiduals, SweepLeftovers, Placed, Before
  <2>5. Owned(found[r] \cap stacks) \cap Defaults = {}
    BY <1>0, OwnedResources
  <2>6. \A x \in Defaults \ live' : Excused(x)
    BY <2>1, <2>5 DEF Kept
  <2>7. ASSUME stage = "presweep", NEW x \in deployed \ live'
        PROVE  ExcusedEarly(x)
    <3>1. CASE x \notin live \/ x \in found[r]
      BY <2>3, <2>7, <3>1 DEF Kept, ExcusedEarly
    <3>2. CASE x \in Owned(found[r] \cap stacks)
      <4>1. PICK s \in found[r] \cap deployed \cap Stacks : x \in Owns[s]
        BY <2>7, <3>2, AgentStacksOwn
      <4> QED BY <2>3, <2>7, <4>1 DEF Kept, ExcusedEarly
    <3> QED BY <2>1, <2>7, <3>1, <3>2
  <2> QED BY <2>1, <2>2, <2>4, <2>6, <2>7, ExcusesStay DEF Kept, Before
<1>10. ASSUME NEW r \in Regions, DeleteStacks(r)
       PROVE  Kept'
  <2>1. /\ live \ live' \subseteq stacks \cup Owned(stacks)
        /\ UNCHANGED <<pre, post, deployed, stage, found>>
    BY <1>10, StacksDeleted DEF DeleteStacks, Owned, snapshots
  <2>2. Defaults \cap (live \ live') = {}
    BY <1>0, <2>1, OwnedResources
  <2>3. stage \notin Before /\ stage # "presweep"
    BY <1>10 DEF DeleteStacks, Placed, Before
  <2> QED BY <2>1, <2>2, <2>3, ExcusesStay DEF Kept, Before
<1>11. ASSUME NEW r \in Regions, StacksUnlisted(r) \/ Rescan(r) \/ RescanFails(r)
       PROVE  Kept'
  <2>1. /\ UNCHANGED <<live, pre, post, deployed, stage, found>>
        /\ stage \notin Before /\ stage # "presweep"
    BY <1>11 DEF StacksUnlisted, Rescan, RescanFails, Placed, snapshots, Before
  <2> QED BY <2>1, ExcusesStay DEF Kept, Before
<1>12. CASE UNCHANGED vars
  <2>1. UNCHANGED <<live, pre, post, deployed, stage, found, pc>>
    BY <1>12 DEF vars
  <2> QED BY <2>1, ExcusesStay DEF Kept
<1> QED BY StepCases, <1>1, <1>2, <1>3, <1>4, <1>5, <1>6, <1>7, <1>8, <1>9, <1>10, <1>11, <1>12

LEMMA InitialKept == Init => Kept
<1> SUFFICES ASSUME Init PROVE Kept
  OBVIOUS
<1>1. ~None.taken
  BY DEF None
<1> QED BY <1>1 DEF Init, Kept, Known, Before

LEMMA KeptAlways == Spec => []Kept
<1>1. Init => Placed /\ DataOK /\ Grown /\ Kept
  <2>1. Init => Grown
    BY DEF Init, Grown
  <2> QED BY <2>1, InitialTyped, InitialKept
<1>2. Placed /\ DataOK /\ Grown /\ Kept /\ [Next]_vars
        => (Placed /\ DataOK /\ Grown /\ Kept)'
  BY PlacedInductive, DataInductive, GrownInductive, KeptInductive
<1> QED BY <1>1, <1>2, PTL DEF Spec

(* What the account held when it was initialised outlives every cleanup,   *)
(* whichever listers, regions and snapshots failed, unless one of the      *)
(* snapshots had half listed it (_delete_resources_not_in_init_snapshot).  *)
THEOREM KnownOutlivesSweeps == Spec => []DefaultsOutliveSweeps
<1>1. Kept => DefaultsOutliveSweeps
  BY DEF Kept, DefaultsOutliveSweeps, Excused
<1> QED BY <1>1, KeptAlways, PTL

(* What the scenario deployed is there when its own cleanup begins, also   *)
(* when listers failed while the snapshot after the setup was taken or     *)
(* while the sweep scanned, unless that snapshot had half listed it or its *)
(* stack (_delete_resources_created_after_setup).                          *)
THEOREM PresweepSparesScenario == Spec => []ScenarioOutlivesPresweep
<1>1. Kept => ScenarioOutlivesPresweep
  BY DEF Kept, ScenarioOutlivesPresweep, ExcusedEarly
<1> QED BY <1>1, KeptAlways, PTL

-----------------------------------------------------------------------------
(* Account-wide resources.  What a region has found for its own sweeps is  *)
(* of that region only.                                                    *)

OwnOnly ==
    \A r \in Regions :
        pc[r] \in {"sweep1", "sweep3"} => \A x \in found[r] : Home[x] = r

LEMMA OwnOnlyInductive ==
  ASSUME Placed, DataOK, OwnOnly, [Next]_vars
  PROVE  OwnOnly'
<1>1. CASE Capture \/ Setup \/ CapturePost \/ Work \/ Script \/ RegionsDone \/ SweepGlobals
           \/ Verdict \/ Shutdown \/ UNCHANGED vars
  BY <1>1 DEF Capture, Setup, CapturePost, Work, Script, RegionsDone, SweepGlobals, Verdict,
        Shutdown, vars, OwnOnly
<1>2. ASSUME NEW r \in Regions, Residuals(r) \/ Leftovers(r) \/ Globals(r)
      PROVE  OwnOnly'
  <2>1. \A q \in Regions \ {r} : found'[q] = found[q] /\ pc'[q] = pc[q]
    BY <1>2, ScanFinds DEF Residuals, Leftovers, Globals, To, DataOK, Placed
  <2>2. pc'[r] \in {"sweep1", "sweep3"} => \A x \in found'[r] : Home[x] = r
    <3>1. CASE Residuals(r)
      <4>1. PICK seen \in Scans(r) : found'[r] \subseteq Regional(seen)
        BY <3>1 DEF Residuals, Finds, DataOK, Regional, NewSince, Sweepable
      <4> QED BY <4>1 DEF Regional, Scans, Seen
    <3>2. CASE Leftovers(r)
      <4>1. PICK seen \in Scans(r) : found'[r] \subseteq Regional(seen)
        BY <3>2 DEF Leftovers, Finds, DataOK, Regional, NewSince, Sweepable
      <4> QED BY <4>1 DEF Regional, Scans, Seen
    <3>3. CASE Globals(r)
      BY <3>3 DEF Globals, To, Placed
    <3> QED BY <1>2, <3>1, <3>2, <3>3
  <2> QED BY <2>1, <2>2 DEF OwnOnly
<1>3. ASSUME NEW r \in Regions,
             \/ SweepResiduals(r) \/ SweepLeftovers(r) \/ DeleteStacks(r) \/ StacksUnlisted(r)
             \/ Rescan(r) \/ RescanFails(r)
      PROVE  OwnOnly'
  <2>1. /\ pc'[r] \notin {"sweep1", "sweep3"}
        /\ \A q \in Regions \ {r} : found'[q] = found[q] /\ pc'[q] = pc[q]
    BY <1>3 DEF SweepResiduals, SweepLeftovers, DeleteStacks, StacksUnlisted, Rescan,
          RescanFails, To, Finds, DataOK, Placed
  <2> QED BY <2>1 DEF OwnOnly
<1> QED BY StepCases, <1>1, <1>2, <1>3

(* An account-wide resource is swept only when every region has been       *)
(* through its stacks and sweeps (partition_by_scope, and the barrier      *)
(* before _sweep_global_leftovers).                                        *)
THEOREM AccountWideGoLast == Spec => GlobalsWaitForRegions
<1>1. Init => Placed /\ DataOK /\ OwnOnly
  <2>1. Init => OwnOnly
    BY DEF Init, OwnOnly
  <2> QED BY <2>1, InitialTyped
<1>2. Placed /\ DataOK /\ OwnOnly /\ [Next]_vars => (Placed /\ DataOK /\ OwnOnly)'
  BY PlacedInductive, DataInductive, OwnOnlyInductive
<1>3. ASSUME Placed, DataOK, OwnOnly, [Next]_vars
      PROVE  [\A x \in live \ live' : Home[x] = Global /\ ~GoesWithStack(x)
                => stage = "globals" /\ \A r \in Regions : pc[r] = "seen"]_vars
  <2> SUFFICES ASSUME NEW x \in live, x \notin live', Home[x] = Global, ~GoesWithStack(x)
               PROVE  stage = "globals" /\ \A r \in Regions : pc[r] = "seen"
    OBVIOUS
  <2>1. CASE SweepGlobals
    BY <2>1 DEF SweepGlobals
  <2>0. \A s \in stacks : Home[s] \in Regions /\ x # s
    BY CleanupAssumption DEF stacks
  <2>2. CASE Script
    <3>1. PICK gone \in SUBSET stacks :
            \E lost \in SUBSET Owned(gone) : live' = live \ (gone \cup lost)
      BY <2>2 DEF Script
    <3>2. x \in Owned(gone)
      BY <2>0, <3>1
    <3>3. PICK s \in gone : x \in Owns[s]
      BY <3>2 DEF Owned
    <3>4. s \in stacks /\ s \notin stacks'
      BY <3>1, <3>3 DEF stacks
    <3> QED BY <3>3, <3>4 DEF GoesWithStack, Deletes
  <2>3. ASSUME NEW r \in Regions, SweepResiduals(r) \/ SweepLeftovers(r)
        PROVE  FALSE
    <3>1. Sweeps(found[r]) /\ pc[r] \in {"sweep1", "sweep3"}
      BY <2>3 DEF SweepResiduals, SweepLeftovers
    <3>2. x \in found[r] \cup Owned(found[r] \cap stacks)
      BY <3>1, SweepsOnly
    <3>3. x \notin found[r]
      BY <1>3, <3>1, CleanupAssumption DEF OwnOnly
    <3>4. PICK s \in found[r] \cap stacks : x \in Owns[s]
      BY <3>2, <3>3 DEF Owned
    <3>5. Home[s] = r /\ pc'[r] # pc[r]
      BY <1>3, <2>3, <3>1, <3>4 DEF OwnOnly, SweepResiduals, SweepLeftovers, To, Placed
    <3> QED BY <3>4, <3>5 DEF GoesWithStack, Deletes
  <2>4. ASSUME NEW r \in Regions, DeleteStacks(r)
        PROVE  FALSE
    <3>1. PICK s \in stacks : Home[s] = r /\ x \in Owns[s]
      BY <2>0, <2>4, StacksDeleted
    <3>2. pc[r] = "stacks" /\ pc'[r] = "scan3"
      BY <1>3, <2>4 DEF DeleteStacks, To, Placed
    <3> QED BY <3>1, <3>2 DEF GoesWithStack, Deletes
  <2>5. \/ SweepGlobals \/ Script
        \/ \E r \in Regions : SweepResiduals(r) \/ SweepLeftovers(r) \/ DeleteStacks(r)
    <3>1. CASE \/ Capture \/ Setup \/ CapturePost \/ Work \/ RegionsDone \/ Verdict \/ Shutdown
               \/ UNCHANGED vars
      BY <3>1 DEF Capture, Setup, CapturePost, Work, RegionsDone, Verdict, Shutdown, vars
    <3>2. ASSUME NEW r \in Regions,
                 \/ Residuals(r) \/ StacksUnlisted(r) \/ Leftovers(r) \/ Globals(r)
                 \/ Rescan(r) \/ RescanFails(r)
          PROVE  FALSE
      BY <3>2 DEF Residuals, StacksUnlisted, Leftovers, Globals, Rescan, RescanFails
    <3> QED BY <1>3, StepCases, <3>1, <3>2
  <2> QED BY <2>1, <2>2, <2>3, <2>4, <2>5
<1> QED BY <1>1, <1>2, <1>3, PTL DEF Spec, GlobalsWaitForRegions

-----------------------------------------------------------------------------
(* The verdict.  Once a region has been through its stacks, one that stays *)
(* there is deferred or infrastructure, or held against the region; and a  *)
(* region that has been scanned for orphans has reported what it may not   *)
(* have, or missed it.                                                     *)

StacksTold ==
    stage \in {"regions", "globals", "orphans", "clean"} =>
        \A s \in stacks \ Bootstrap :
            Home[s] \notin failed /\ pc[Home[s]] # "stacks" => s \in postponed

Excusable(x, r) ==
    \/ x \in orphans \cup Infra \/ IsDeferred(x)
    \/ Key(x) \in pre.ids
    \/ ~Answers(x, r, missed)

OrphansTold ==
    stage \in {"orphans", "clean"} =>
        \A r \in Regions : pc[r] = "scanned" /\ r \notin blind =>
            \A x \in live : Home[x] \in {r, Global} => Excusable(x, r)

VerdictTold == stage = "clean" => IsClean

LEMMA StacksToldInductive ==
  ASSUME Placed, DataOK, StacksTold, [Next]_vars
  PROVE  StacksTold'
<1>0. \A s \in Stacks : Home[s] \in Regions
  BY CleanupAssumption
<1>1. CASE Capture \/ Setup \/ CapturePost \/ Work \/ Shutdown
  BY <1>1 DEF Capture, Setup, CapturePost, Work, Shutdown, StacksTold
<1>2. CASE Script
  BY <1>0, <1>2 DEF Script, StacksTold, stacks
<1>3. CASE RegionsDone \/ Verdict \/ UNCHANGED vars
  <2>1. stage' \in {"regions", "globals", "orphans", "clean"}
          => stage \in {"regions", "globals", "orphans", "clean"}
    BY <1>3 DEF RegionsDone, Verdict, vars
  <2>2. \A r \in Regions : pc[r] = "stacks" => pc'[r] = "stacks"
    BY <1>3 DEF RegionsDone, Verdict, vars
  <2>3. UNCHANGED <<live, failed, postponed>>
    BY <1>3 DEF RegionsDone, Verdict, vars, verdictOf
  <2> QED BY <1>0, <2>1, <2>2, <2>3 DEF StacksTold, stacks
<1>4. CASE SweepGlobals
  <2>1. live' \subseteq live /\ postponed' = postponed /\ failed' = failed
    BY <1>4, SweepsOnly DEF SweepGlobals, verdictOf
  <2>2. stage = "globals" /\ \A r \in Regions : pc[r] # "stacks"
    BY <1>4 DEF SweepGlobals
  <2> QED BY <1>0, <2>1, <2>2 DEF StacksTold, stacks
<1>5. ASSUME NEW r \in Regions, DeleteStacks(r)
      PROVE  StacksTold'
  <2>1. stage' = stage /\ stage = "regions" /\ \A q \in Regions \ {r} : pc'[q] = pc[q]
    BY <1>5 DEF DeleteStacks, To, Placed
  <2>2. /\ live' \subseteq live /\ postponed \subseteq postponed' /\ failed \subseteq failed'
        /\ \A s \in stacks \ Bootstrap :
             s \in live' /\ Home[s] = r => s \in postponed' \/ r \in failed'
    BY <1>5, StacksDeleted
  <2> QED BY <1>0, <2>1, <2>2 DEF StacksTold, stacks
<1>6. ASSUME NEW r \in Regions, StacksUnlisted(r)
      PROVE  StacksTold'
  <2>1. /\ UNCHANGED <<stage, live, postponed>> /\ failed' = failed \cup {r}
        /\ \A q \in Regions \ {r} : pc'[q] = pc[q]
    BY <1>6 DEF StacksUnlisted, To, Placed
  <2> QED BY <1>0, <2>1 DEF StacksTold, stacks
<1>7. ASSUME NEW r \in Regions,
             \/ Residuals(r) \/ SweepResiduals(r) \/ Leftovers(r) \/ SweepLeftovers(r)
             \/ Globals(r) \/ Rescan(r) \/ RescanFails(r)
      PROVE  StacksTold'
  <2>1. /\ UNCHANGED <<stage, failed, postponed>> /\ live' \subseteq live
        /\ \A q \in Regions \ {r} : pc'[q] = pc[q]
        /\ pc[r] # "stacks"
    BY <1>7, SweepsOnly DEF Residuals, SweepResiduals, Leftovers, SweepLeftovers, Globals,
          Rescan, RescanFails, To, Placed, verdictOf
  <2> QED BY <1>0, <2>1 DEF StacksTold, stacks
<1> QED BY StepCases, <1>1, <1>2, <1>3, <1>4, <1>5, <1>6, <1>7

LEMMA OrphansToldInductive ==
  ASSUME Placed, DataOK, OrphansTold, [Next]_vars
  PROVE  OrphansTold'
<1>1. CASE Capture \/ Setup \/ CapturePost \/ Work \/ Shutdown \/ Script \/ RegionsDone
  BY <1>1 DEF Capture, Setup, CapturePost, Work, Shutdown, Script, RegionsDone, OrphansTold
<1>2. CASE SweepGlobals
  BY <1>2 DEF SweepGlobals, OrphansTold
<1>3. CASE Verdict \/ UNCHANGED vars
  <2>1. /\ UNCHANGED <<live, pre, pc, deferred, orphans, blind, missed>>
        /\ stage' \in {"orphans", "clean"} => stage \in {"orphans", "clean"}
    BY <1>3 DEF Verdict, vars, snapshots, verdictOf
  <2>2. \A x, q : Excusable(x, q)' = Excusable(x, q)
    BY <2>1 DEF Excusable, IsDeferred, Answers
  <2> QED BY <2>1, <2>2 DEF OrphansTold
<1>4. ASSUME NEW r \in Regions,
             \/ Residuals(r) \/ SweepResiduals(r) \/ DeleteStacks(r) \/ StacksUnlisted(r)
             \/ Leftovers(r) \/ SweepLeftovers(r) \/ Globals(r)
      PROVE  OrphansTold'
  <2>1. stage' = stage /\ stage \notin {"orphans", "clean"}
    BY <1>4 DEF Residuals, SweepResiduals, DeleteStacks, StacksUnlisted, Leftovers,
          SweepLeftovers, Globals, Placed
  <2> QED BY <2>1 DEF OrphansTold
<1>5. ASSUME NEW r \in Regions, Rescan(r)
      PROVE  OrphansTold'
  <2>1. PICK down \in Downs :
          /\ orphans' = orphans \cup Orphans(Seen(r, down))
          /\ missed' = missed \cup {d \in down : d[2] = r}
    BY <1>5 DEF Rescan
  <2>2. /\ UNCHANGED <<live, pre, deferred, blind, stage>>
        /\ \A q \in Regions \ {r} : pc'[q] = pc[q]
    BY <1>5 DEF Rescan, To, snapshots, Placed
  <2>3. ASSUME NEW x \in live, Home[x] \in {r, Global}
        PROVE  Excusable(x, r)'
    <3>1. CASE ~Answers(x, r, down)
      BY <2>1, <3>1 DEF Excusable, Answers
    <3>2. CASE Answers(x, r, down)
      <4>1. x \in Seen(r, down)
        BY <2>3, <3>2 DEF Seen
      <4>2. x \in Infra \cup Orphans(Seen(r, down)) \/ IsDeferred(x) \/ Key(x) \in pre.ids
        BY <4>1 DEF Orphans, Sweepable
      <4>3. IsDeferred(x) => IsDeferred(x)'
        BY <2>2 DEF IsDeferred
      <4> QED BY <2>1, <2>2, <4>2, <4>3 DEF Excusable
    <3> QED BY <3>1, <3>2
  <2>4. ASSUME NEW x, NEW q, Excusable(x, q)
        PROVE  Excusable(x, q)'
    <3>1. IsDeferred(x) => IsDeferred(x)'
      BY <2>2 DEF IsDeferred
    <3>2. ~Answers(x, q, missed) => ~Answers(x, q, missed)'
      BY <2>1 DEF Answers
    <3> QED BY <2>1, <2>2, <2>4, <3>1, <3>2 DEF Excusable
  <2> QED BY <2>2, <2>3, <2>4 DEF OrphansTold
<1>6. ASSUME NEW r \in Regions, RescanFails(r)
      PROVE  OrphansTold'
  <2>1. /\ UNCHANGED <<live, pre, deferred, orphans, missed, stage>>
        /\ blind' = blind \cup {r}
        /\ \A q \in Regions \ {r} : pc'[q] = pc[q]
    BY <1>6 DEF RescanFails, To, snapshots, Placed
  <2>2. \A x, q : Excusable(x, q)' = Excusable(x, q)
    BY <2>1 DEF Excusable, IsDeferred, Answers
  <2> QED BY <2>1, <2>2 DEF OrphansTold
<1> QED BY StepCases, <1>1, <1>2, <1>3, <1>4, <1>5, <1>6

LEMMA VerdictToldInductive ==
  ASSUME Placed, VerdictTold, [Next]_vars
  PROVE  VerdictTold'
<1>1. CASE Verdict \/ UNCHANGED vars
  <2>1. UNCHANGED verdictOf /\ (stage' = "clean" => stage = "clean" \/ IsClean)
    BY <1>1 DEF Verdict, vars, verdictOf
  <2> QED BY <2>1 DEF VerdictTold, IsClean, verdictOf
<1>2. CASE \/ Capture \/ Setup \/ CapturePost \/ Work \/ Shutdown \/ Script \/ RegionsDone
           \/ SweepGlobals
  BY <1>2 DEF Capture, Setup, CapturePost, Work, Shutdown, Script, RegionsDone, SweepGlobals,
        VerdictTold
<1>3. ASSUME NEW r \in Regions,
             \/ Residuals(r) \/ SweepResiduals(r) \/ DeleteStacks(r) \/ StacksUnlisted(r)
             \/ Leftovers(r) \/ SweepLeftovers(r) \/ Globals(r) \/ Rescan(r) \/ RescanFails(r)
      PROVE  VerdictTold'
  <2>1. stage' = stage /\ stage # "clean"
    BY <1>3 DEF Residuals, SweepResiduals, DeleteStacks, StacksUnlisted, Leftovers,
          SweepLeftovers, Globals, Rescan, RescanFails, Placed
  <2> QED BY <2>1 DEF VerdictTold
<1> QED BY StepCases, <1>1, <1>2, <1>3

(* A clean verdict means an empty account: no stack but one reported as    *)
(* deferred or one of the infrastructure, and no resource that was not     *)
(* there at first, unless it is bootstrap, has the type and name of one    *)
(* that was or of one that is noted as deferred, or all its listers failed *)
(* in the last scan (CleanupSummary.is_clean).                             *)
THEOREM CleanVerdictIsTrue == Spec => []CleanMeansEmpty
<1>1. Init => Placed /\ DataOK /\ StacksTold /\ OrphansTold /\ VerdictTold
  <2>1. Init => StacksTold /\ OrphansTold /\ VerdictTold
    BY DEF Init, StacksTold, OrphansTold, VerdictTold
  <2> QED BY <2>1, InitialTyped
<1>2. Placed /\ DataOK /\ StacksTold /\ OrphansTold /\ VerdictTold /\ [Next]_vars
        => (Placed /\ DataOK /\ StacksTold /\ OrphansTold /\ VerdictTold)'
  BY PlacedInductive, DataInductive, StacksToldInductive, OrphansToldInductive,
     VerdictToldInductive
<1>3. Placed /\ DataOK /\ StacksTold /\ OrphansTold /\ VerdictTold => CleanMeansEmpty
  <2> SUFFICES ASSUME Placed, DataOK, StacksTold, OrphansTold, VerdictTold, stage = "clean"
               PROVE  /\ stacks \subseteq Bootstrap \cup postponed
                      /\ \A x \in live \ (Defaults \cup Infra) :
                           IsDeferred(x) \/ Overlooked(x) \/ Key(x) \in pre.ids
    BY DEF CleanMeansEmpty
  <2>1. IsClean /\ \A r \in Regions : pc[r] = "scanned"
    BY DEF VerdictTold, Placed
  <2>2. ASSUME NEW s \in stacks \ Bootstrap
        PROVE  s \in postponed
    <3>1. Home[s] \in Regions
      BY CleanupAssumption DEF stacks
    <3> QED BY <2>1, <3>1 DEF StacksTold, IsClean
  <2>3. ASSUME NEW x \in live \ (Defaults \cup Infra), ~IsDeferred(x), Key(x) \notin pre.ids
        PROVE  Overlooked(x)
    BY <2>1, <2>3 DEF OrphansTold, Excusable, IsClean, Overlooked
  <2> QED BY <2>2, <2>3
<1> QED BY <1>1, <1>2, <1>3, PTL DEF Spec

-----------------------------------------------------------------------------
(* What the deletion of the stacks of a region tells.  StackDeletion is a  *)
(* teardown (ImplementsTeardown), and this is what the summary of a        *)
(* teardown says of the stacks that are left.                              *)

CONSTANTS Env, Toolkit          \* the stacks of a region while they are deleted,
VARIABLES there, report, over   \* and what was told of them

Teardown ==
  INSTANCE StackTeardown WITH Infra <- Toolkit, ChecksAnswer <- "exists" \notin Faults

Told ==
  [bad |-> {s \in Env \cup Toolkit : report[s] \in {"failed", "blocked"}},
   later |-> {s \in Env \cup Toolkit : report[s] = "deferred"},
   kept |-> {s \in Env \cup Toolkit : report[s] = "none"}]

Results == {"success", "not_found", "failed", "blocked", "deferred", "none"}

(* A report is true, the infrastructure goes after the environment, and    *)
(* the end of a teardown is as Finish found it.                            *)
Truthful ==
  /\ report \in [Env \cup Toolkit -> Results]
  /\ there \subseteq Env \cup Toolkit
  /\ \A s \in there : report[s] \notin {"success", "not_found"}

InfraAfterEnv ==
  "exists" \notin Faults /\ (\E i \in Toolkit : report[i] # "none") => Env \cap there = {}

Summed ==
  over = "done" =>
    /\ \A e \in Env : report[e] # "none"
    /\ \/ \A i \in Toolkit : report[i] # "none"
       \/ /\ \A i \in Toolkit : report[i] = "none" /\ i \in there
          /\ \E e \in Env : report[e] \in {"failed", "blocked", "deferred"}

LEMMA TruthfulStep ==
  ASSUME Truthful, InfraAfterEnv, Summed, [Teardown!Next]_(Teardown!vars)
  PROVE  Truthful' /\ InfraAfterEnv' /\ Summed'
<1>1. ASSUME NEW s \in Env \cup Toolkit, Teardown!Disappear(s)
      PROVE  Truthful' /\ InfraAfterEnv' /\ Summed'
  BY <1>1 DEF Teardown!Disappear, Truthful, InfraAfterEnv, Summed
<1>2. ASSUME NEW s \in Env \cup Toolkit, NEW verdict \in Teardown!Gone \cup Teardown!Failed,
             Teardown!Judge(s, verdict)
      PROVE  Truthful' /\ InfraAfterEnv' /\ Summed'
  <2>1. /\ report' = [report EXCEPT ![s] = verdict] /\ UNCHANGED <<there, over>>
        /\ over = "running"
        /\ verdict \in {"success", "not_found"} => s \notin there
        /\ s \in Toolkit /\ "exists" \notin Faults => Env \cap there = {}
    BY <1>2 DEF Teardown!Judge, Teardown!EnvGone, Teardown!Gone
  <2>2. verdict \in Results
    BY DEF Teardown!Gone, Teardown!Failed, Results
  <2> QED BY <2>1, <2>2 DEF Truthful, InfraAfterEnv, Summed
<1>3. CASE Teardown!Finish
  BY <1>3 DEF Teardown!Finish, Teardown!Failed, Truthful, InfraAfterEnv, Summed
<1>4. CASE Teardown!Cancel
  BY <1>4 DEF Teardown!Cancel, Truthful, InfraAfterEnv, Summed
<1>5. CASE UNCHANGED Teardown!vars
  BY <1>5 DEF Teardown!vars, Truthful, InfraAfterEnv, Summed
<1> QED BY <1>1, <1>2, <1>3, <1>4, <1>5 DEF Teardown!Next

(* Whatever a teardown comes to, it is one of the outcomes among which     *)
(* DeleteStacks chooses, as long as stacks may fail and be deferred, no    *)
(* more than Misses of them (_cleanup_single_region, which reads the       *)
(* DeletionSummary).                                                       *)
THEOREM TeardownTells ==
  ASSUME Env \cap Bootstrap = {}, Toolkit \subseteq Bootstrap, {"stack", "defer"} \subseteq Faults
  PROVE  Teardown!Spec =>
           [](over = "done" =>
                LET here == Env \cup Toolkit IN
                  /\ Told \in Tellings(here) /\ there \in SUBSET here
                  /\ TornDown(here \ Bootstrap, here \cap Bootstrap, Told, there))
<1>0. /\ (Env \cup Toolkit) \ Bootstrap = Env /\ (Env \cup Toolkit) \cap Bootstrap = Toolkit
  OBVIOUS
<1>1. Teardown!Init => Truthful /\ InfraAfterEnv /\ Summed
  BY DEF Teardown!Init, Truthful, InfraAfterEnv, Summed, Results
<1>2. ASSUME Truthful, InfraAfterEnv, Summed, over = "done"
      PROVE  /\ Told \in Tellings(Env \cup Toolkit) /\ there \in SUBSET (Env \cup Toolkit)
             /\ TornDown((Env \cup Toolkit) \ Bootstrap, (Env \cup Toolkit) \cap Bootstrap,
                         Told, there)
  <2>1. Told.kept \subseteq Toolkit
    BY <1>2 DEF Told, Summed
  <2>2. Told.kept \in {{}, Toolkit}
    BY <1>2 DEF Told, Summed
  <2>3. Told.kept \subseteq there /\ (Told.kept # {} => Env \cap (Told.bad \cup Told.later) # {})
    BY <1>2, <2>1 DEF Told, Summed
  <2>4. there \subseteq Told.bad \cup Told.later \cup Told.kept
    BY <1>2 DEF Told, Truthful, Results
  <2>5. "exists" \notin Faults /\ Env \cap there # {} => Told.kept = Toolkit
    BY <1>2, <2>1 DEF Told, InfraAfterEnv
  <2>6. Told.bad \cap Told.later = {} /\ Told.kept \cap (Told.bad \cup Told.later) = {}
    BY DEF Told
  <2>7. Told \in Tellings(Env \cup Toolkit)
    BY <1>0, <2>1 DEF Told, Tellings, Some
  <2>8. TornDown(Env, Toolkit, Told, there)
    BY <2>2, <2>3, <2>4, <2>5, <2>6 DEF TornDown
  <2> QED BY <1>0, <1>2, <2>7, <2>8 DEF Truthful
<1>3. Truthful /\ InfraAfterEnv /\ Summed /\ [Teardown!Next]_(Teardown!vars)
        => (Truthful /\ InfraAfterEnv /\ Summed)'
  BY TruthfulStep
<1> QED BY <1>1, <1>2, <1>3, PTL DEF Teardown!Spec
=============================================================================
