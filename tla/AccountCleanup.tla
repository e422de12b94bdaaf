--------------------------- MODULE AccountCleanup ---------------------------
(***************************************************************************)
(* CleanupManager: emptying an account down to what it held when it was    *)
(* initialised, and the scans it decides by.                               *)
(*                                                                         *)
(* A snapshot of the fresh account (PRE_SETUP) says what to keep, one of   *)
(* the deployed scenario (POST_SETUP) what the scenario made.  Cleaning    *)
(* sweeps what came after POST_SETUP, deletes the stacks, sweeps what is   *)
(* not in PRE_SETUP, all of that in every region at once, then sweeps the  *)
(* account-wide leftovers, scans for orphans and gives a verdict.          *)
(*                                                                         *)
(* A scan runs one lister per AWS operation, and each may fail on its own. *)
(* Several listers may feed one resource type: some list the same stock    *)
(* (ListStacks and DescribeStacks), of some one lists more than the other  *)
(* (kafka's ListClusters and ListClustersV2).                              *)
(***************************************************************************)
EXTENDS FiniteSets, Naturals

CONSTANTS
  Regions,
  Resources,
  Home,       \* the region of a resource, or Global
  Type,       \* its resource type
  Kind,       \* the listers, each with the resource type it feeds
  ListedBy,   \* the listers that name a resource
  Name,       \* the identifier of a resource, unique in its region only
  Infra,      \* bootstrap resources that are never swept
  Assets,     \* bootstrap resources that may be swept (SWEEPABLE_INFRA_TYPES)
  Stacks,     \* the resources that are CloudFormation stacks
  Bootstrap,  \* those of the infrastructure (INFRA_PREFIXES)
  Owns,       \* the resources of a stack
  Networking, \* resources a deferral may cover (_DEFERRABLE_NETWORKING_TYPES)
  Defaults,   \* what a fresh account holds
  Extras,     \* what an agent may leave
  Downs,      \* which listers may fail in one scan, and where
  Faults,     \* what else may go wrong: "region", "delete", "list", "stack", "defer",
              \* "exists", "lookup"
  Misses      \* in how many deletions of one sweep, or of the stacks of a region

Global == "global"
Listers == DOMAIN Kind
Key(x) == <<Type[x], Name[x]>>
Owned(set) == UNION {Owns[s] : s \in set}
Deployment == (Stacks \ Extras) \cup Owned(Stacks \ Extras) \cup Infra \cup Assets

ASSUME CleanupAssumption ==
  /\ Global \notin Regions
  /\ Home \in [Resources -> Regions \cup {Global}]
  /\ ListedBy \in [Resources -> SUBSET Listers]
  /\ \A x \in Resources : \A l \in ListedBy[x] : Kind[l] = Type[x]
  /\ Bootstrap \subseteq Stacks /\ Stacks \subseteq Resources
  /\ \A s \in Stacks : Home[s] \in Regions
  /\ Owns \in [Stacks -> SUBSET (Resources \ (Stacks \cup Defaults))]
  /\ \A s \in Stacks \cap Extras : Owns[s] \subseteq Extras
  /\ Defaults \subseteq Resources \ Stacks
  /\ Extras \subseteq Resources \ (Defaults \cup Deployment)
  /\ Infra \cup Assets \subseteq Resources
  /\ \A d \in Downs : d \subseteq Listers \X Regions

VARIABLES
  live,      \* the resources of the account, its stacks among them
  pre,       \* the PRE_SETUP snapshot, or None
  post,      \* the POST_SETUP snapshot, or None
  deployed,  \* what was live when the setup ended
  stage,     \* where the command is
  pc,        \* where each region is in its phases
  found,     \* what the last scan of the region decided to delete
  deferred,  \* the registry of deferred_scope
  postponed, \* the stacks whose result is that they were deferred
  failed,    \* regions with a stack that was not deleted, or an error
  orphans,   \* what the orphan scan reports
  blind,     \* regions whose orphan scan failed
  missed     \* listers that failed in the orphan scan, which nobody reads

vars == <<live, pre, post, deployed, stage, pc, found, deferred, postponed, failed, orphans,
          blind, missed>>
snapshots == <<pre, post, deployed>>
verdictOf == <<postponed, failed, orphans, blind, missed>>

stacks == live \cap Stacks

-----------------------------------------------------------------------------
(* Scans: FastResourceScanner.scan projected onto resource types *)

Answers(x, r, down) == \E l \in ListedBy[x] : <<l, r>> \notin down

(* What the listers that answer see in a region: an account-wide resource  *)
(* is seen from all of them.                                               *)
Seen(r, down) ==
  {x \in live : Home[x] \in {r, Global} /\ Answers(x, r, down)}

(* mutant of FailedTypes: a type without a find is empty *)
FailedTypesEmpty(r, down) == {}

(* A type counts as failed only when none of its listers found anything:   *)
(* detected wins over failed.                                              *)
FailedTypes(r, down) ==
  {Kind[l] : l \in {k \in Listers : <<k, r>> \in down}} \ {Type[x] : x \in Seen(r, down)}

None == [taken |-> FALSE, ids |-> {}, failed |-> {}, down |-> {}]

(* One snapshot merged from all regions.  It does not say which listers    *)
(* failed: `down' is kept for the properties, no action reads it.          *)
Snapshot(down) ==
  [taken |-> TRUE, down |-> down,
   ids |-> {Key(x) : x \in UNION {Seen(r, down) : r \in Regions}},
   failed |-> UNION {FailedTypes(r, down) : r \in Regions}]

(* find_new_resources: by type and identifier, types that failed aside. *)
NewSince(base, seen) ==
  {x \in seen : Type[x] \notin base.failed /\ Key(x) \notin base.ids}

(* The registry has types and identifiers, not regions: what is deferred   *)
(* covers its namesakes.                                                   *)
IsDeferred(x) == \E d \in deferred : Key(d) = Key(x)

(* exclude_infra_resources and exclude_deferred *)
Sweepable(seen, assets) ==
  {x \in seen : ~IsDeferred(x)} \ (IF assets THEN Infra ELSE Infra \cup Assets)

(* mutant of Regional: account-wide resources are not withheld *)
RegionalAndGlobal(set) == set

Regional(set) == {x \in set : Home[x] # Global}

AccountWide(set) == set \ Regional(set)

(* What may happen to some of a set, if that can happen at all. *)
Some(fault, set) == IF fault \in Faults THEN SUBSET set ELSE {{}}

(* A deletion of several resources is best-effort; some can only be        *)
(* deferred, which marks them in the registry.  A stack among them takes   *)
(* what it owns with it, or some of that.                                  *)
Sweeps(set) ==
  \E left \in Some("delete", set \cap live),
     later \in Some("defer", (set \cap live) \ Stacks),
     lost \in SUBSET Owned(set \cap stacks) :
    /\ Cardinality(left \cup later) <= Misses
    /\ live' = live \ (lost \cup (set \ (left \cup later)))
    /\ deferred' = deferred \cup later

-----------------------------------------------------------------------------
(* The life of the account before the cleanup *)

Init ==
  /\ live = Defaults
  /\ pre = None /\ post = None
  /\ deployed = {}
  /\ stage = "new"
  /\ pc = [r \in Regions |-> "idle"]
  /\ found = [r \in Regions |-> {}]
  /\ deferred = {} /\ postponed = {} /\ failed = {} /\ orphans = {} /\ blind = {} /\ missed = {}

(* A type whose failure looks transient aborts the snapshot; one that      *)
(* failed otherwise is recorded as such.                                   *)
Snapshots ==
  {Snapshot(down) : down \in Downs} \cup {None}

(* env init *)
Capture ==
  /\ stage = "new"
  /\ stage' = "ready"
  /\ pre' \in Snapshots
  /\ UNCHANGED <<live, post, deployed, pc, found, deferred, verdictOf>>

Setup ==
  /\ stage = "ready"
  /\ stage' = "deployed"
  /\ live' = live \cup Deployment
  /\ deployed' = live'
  /\ UNCHANGED <<pre, post, pc, found, deferred, verdictOf>>

CapturePost ==
  /\ stage = "deployed"
  /\ stage' = "working"
  /\ post' \in Snapshots
  /\ UNCHANGED <<live, pre, deployed, pc, found, deferred, verdictOf>>

(* An agent works in the account, then env cleanup starts: the residual    *)
(* sweep before cleanup.sh, under a deferred_scope of its own.             *)
Work ==
  /\ stage = "working"
  /\ stage' = "presweep"
  /\ \E made \in SUBSET Extras :
       /\ Owned(made \cap Stacks) \subseteq made
       /\ live' = live \cup made
  /\ pc' = [r \in Regions |-> "scan1"]
  /\ UNCHANGED <<snapshots, found, deferred, verdictOf>>

(* cleanup.sh may delete what it likes of the scenario; then the cleanup   *)
(* proper, in a fresh scope.                                               *)
Script ==
  /\ stage = "presweep"
  /\ \A r \in Regions : pc[r] = "done"
  /\ stage' = "regions"
  /\ deferred' = {}
  /\ pc' = [r \in Regions |-> "stacks"]
  /\ \E gone \in SUBSET stacks : \E lost \in SUBSET Owned(gone) : live' = live \ (gone \cup lost)
  /\ UNCHANGED <<snapshots, found, verdictOf>>

-----------------------------------------------------------------------------
(* _cleanup_region_in_phases *)

To(r, where) == pc' = [pc EXCEPT ![r] = where]
Finds(r, set) == found' = [found EXCEPT ![r] = set]

(* What one scan may detect: nothing if it fails as a whole. *)
Scans(r) ==
  {Seen(r, down) : down \in Downs} \cup (IF "region" \in Faults THEN {{}} ELSE {})

(* mutant of Residuals: against the other snapshot *)
ResidualsFromPre(r) ==
  /\ pc[r] = "scan1"
  /\ \E seen \in Scans(r) :
       Finds(r, IF pre.taken THEN Regional(NewSince(pre, Sweepable(seen, FALSE)))
                ELSE {})
  /\ To(r, "sweep1")
  /\ UNCHANGED <<live, snapshots, stage, deferred, verdictOf>>

Residuals(r) ==
  /\ pc[r] = "scan1"
  /\ \E seen \in Scans(r) :
       Finds(r, IF post.taken THEN Regional(NewSince(post, Sweepable(seen, FALSE)))
                              ELSE {})
  /\ To(r, "sweep1")
  /\ UNCHANGED <<live, snapshots, stage, deferred, verdictOf>>

SweepResiduals(r) ==
  /\ pc[r] = "sweep1"
  /\ Sweeps(found[r])
  /\ Finds(r, {})
  /\ To(r, "done")
  /\ UNCHANGED <<snapshots, stage, verdictOf>>

(* What StackDeleter.delete_all_stacks may tell of the stacks of a region, *)
(* and leave of them.  A stack that is reported as deleted is gone; one    *)
(* that is reported as failed or deferred may be left.  The infrastructure *)
(* is kept, without a report, only behind such a stack of the environment; *)
(* if it can be told which stacks exist, it is kept behind any that does.  *)
TornDown(env, infra, told, left) ==
  /\ told.kept \in {{}, infra}
  /\ told.bad \cap told.later = {} /\ told.kept \cap (told.bad \cup told.later) = {}
  /\ told.kept \subseteq left /\ left \subseteq told.bad \cup told.later \cup told.kept
  /\ told.kept # {} => env \cap (told.bad \cup told.later) # {}
  /\ "exists" \notin Faults /\ env \cap left # {} => told.kept = infra

Tellings(here) ==
  [bad : Some("stack", here), later : Some("defer", here), kept : SUBSET (here \cap Bootstrap)]

(* A stack goes with what it owns or leaves some of it behind, and one     *)
(* that is left may have lost some.  Of a deferred stack the registry has  *)
(* what its deletion knew of its networking and the stack, by its ARN; if  *)
(* that cannot be looked up it is noted by its name, by which no scan      *)
(* knows it.                                                               *)
DeleteStacks(r) ==
  LET here == {s \in stacks : Home[s] = r} IN
  /\ pc[r] = "stacks"
  /\ \E told \in Tellings(here), left \in SUBSET here :
       /\ TornDown(here \ Bootstrap, here \cap Bootstrap, told, left)
       /\ Cardinality(told.bad \cup told.later) <= Misses
       /\ \E lost \in SUBSET Owned(here \ told.kept) : live' = live \ (lost \cup (here \ left))
       /\ \E known \in SUBSET (Owned(told.later) \cap Networking),
             unnoted \in Some("lookup", told.later) :
            deferred' = deferred \cup (told.later \ unnoted) \cup known
       /\ postponed' = postponed \cup told.later
       /\ failed' = IF told.bad = {} THEN failed ELSE failed \cup {r}
  /\ To(r, "scan3")
  /\ UNCHANGED <<snapshots, stage, found, orphans, blind, missed>>

StacksUnlisted(r) ==
  /\ pc[r] = "stacks"
  /\ "list" \in Faults
  /\ failed' = failed \cup {r}
  /\ To(r, "scan3")
  /\ UNCHANGED <<live, snapshots, stage, found, deferred, postponed, orphans, blind, missed>>

Leftovers(r) ==
  /\ pc[r] = "scan3"
  /\ \E seen \in Scans(r) :
       Finds(r, IF pre.taken THEN Regional(NewSince(pre, Sweepable(seen, TRUE)))
                             ELSE {})
  /\ To(r, "sweep3")
  /\ UNCHANGED <<live, snapshots, stage, deferred, verdictOf>>

SweepLeftovers(r) ==
  /\ pc[r] = "sweep3"
  /\ Sweeps(found[r])
  /\ Finds(r, {})
  /\ To(r, "done")
  /\ UNCHANGED <<snapshots, stage, verdictOf>>

-----------------------------------------------------------------------------
(* The account, once every region is done *)

(* mutant of RegionsDone: it waits for every region to have deleted all    *)
(* its stacks                                                              *)
RegionsDoneGated ==
  /\ stage = "regions"
  /\ \A r \in Regions : pc[r] = "done" /\ r \notin failed
  /\ stage' = "globals"
  /\ pc' = [r \in Regions |-> "globals"]
  /\ UNCHANGED <<live, snapshots, found, deferred, verdictOf>>

RegionsDone ==
  /\ stage = "regions"
  /\ \A r \in Regions : pc[r] = "done"
  /\ stage' = "globals"
  /\ pc' = [r \in Regions |-> "globals"]
  /\ UNCHANGED <<live, snapshots, found, deferred, verdictOf>>

(* _sweep_global_leftovers: scans all regions, then sweeps.  It runs       *)
(* whether or not stacks are left.                                         *)
Globals(r) ==
  /\ stage = "globals"
  /\ pc[r] = "globals"
  /\ \E seen \in Scans(r) :
       Finds(r, IF pre.taken THEN AccountWide(NewSince(pre, Sweepable(seen, FALSE)))
                             ELSE {})
  /\ To(r, "seen")
  /\ UNCHANGED <<live, snapshots, stage, deferred, verdictOf>>

SweepGlobals ==
  /\ stage = "globals"
  /\ \A r \in Regions : pc[r] = "seen"
  /\ Sweeps(UNION {found[r] : r \in Regions})
  /\ found' = [r \in Regions |-> {}]
  /\ stage' = "orphans"
  /\ pc' = [r \in Regions |-> "scan"]
  /\ UNCHANGED <<snapshots, verdictOf>>

(* AccountScanner.run: what is there, baseline and deferred aside.  Only a *)
(* region whose whole scan failed makes the scan incomplete.               *)
Orphans(seen) ==
  IF pre.taken THEN {x \in Sweepable(seen, TRUE) : Key(x) \notin pre.ids}
               ELSE Sweepable(seen, TRUE)

Rescan(r) ==
  /\ stage = "orphans"
  /\ pc[r] = "scan"
  /\ \E down \in Downs :
       /\ orphans' = orphans \cup Orphans(Seen(r, down))
       /\ missed' = missed \cup {d \in down : d[2] = r}
  /\ To(r, "scanned")
  /\ UNCHANGED <<live, snapshots, stage, found, deferred, postponed, failed, blind>>

RescanFails(r) ==
  /\ stage = "orphans"
  /\ pc[r] = "scan"
  /\ "region" \in Faults
  /\ blind' = blind \cup {r}
  /\ To(r, "scanned")
  /\ UNCHANGED <<live, snapshots, stage, found, deferred, postponed, failed, orphans, missed>>

(* mutant of IsClean: the scan counts as complete *)
IsCleanUnscanned == failed = {} /\ orphans = {}

(* CleanupSummary.is_clean *)
IsClean == failed = {} /\ blind = {} /\ orphans = {}

Verdict ==
  /\ stage = "orphans"
  /\ \A r \in Regions : pc[r] = "scanned"
  /\ stage' = IF IsClean THEN "clean" ELSE "dirty"
  /\ UNCHANGED <<live, snapshots, pc, found, deferred, verdictOf>>

(* A shutdown is re-raised by every gather and sweep: no verdict. *)
Shutdown ==
  /\ stage \in {"presweep", "regions", "globals", "orphans"}
  /\ stage' = "cancelled"
  /\ pc' = [r \in Regions |-> "idle"]
  /\ UNCHANGED <<live, snapshots, found, deferred, verdictOf>>

(* The sweep of what came after POST_SETUP is the one before cleanup.sh:    *)
(* the cleanup repeats it in its regions only under sweep_post_setup, which *)
(* `env cleanup' switches off and nothing else of the package calls.       *)
Region(r) ==
  \/ Residuals(r) \/ SweepResiduals(r)
  \/ DeleteStacks(r) \/ StacksUnlisted(r)
  \/ Leftovers(r) \/ SweepLeftovers(r)
  \/ Globals(r)
  \/ Rescan(r) \/ RescanFails(r)

Account == Script \/ RegionsDone \/ SweepGlobals \/ Verdict

Next ==
  \/ Capture \/ Setup \/ CapturePost \/ Work
  \/ \E r \in Regions : Region(r)
  \/ Account
  \/ Shutdown

Spec == Init /\ [][Next]_vars /\ WF_vars(Account) /\ \A r \in Regions : WF_vars(Region(r))

-----------------------------------------------------------------------------
(* Properties *)

Records == [taken : BOOLEAN, ids : SUBSET {Key(x) : x \in Resources},
            failed : SUBSET {Kind[l] : l \in Listers}, down : SUBSET (Listers \X Regions)]
Sweeping == {"presweep", "regions", "globals"}
Over == {"clean", "dirty", "cancelled"}

TypeOK ==
  /\ live \subseteq Resources
  /\ pre \in Records /\ post \in Records
  /\ deployed \subseteq Resources
  /\ stage \in {"new", "ready", "deployed", "working", "orphans"} \cup Sweeping \cup Over
  /\ pc \in [Regions -> {"idle", "scan1", "sweep1", "stacks", "scan3", "sweep3", "done",
                         "globals", "seen", "scan", "scanned"}]
  /\ found \in [Regions -> SUBSET Resources]
  /\ deferred \subseteq Resources /\ postponed \subseteq Stacks
  /\ failed \subseteq Regions /\ blind \subseteq Regions
  /\ orphans \subseteq Resources
  /\ missed \subseteq Listers \X Regions

(* What a snapshot of `set' has lost without saying so: all the listers of *)
(* the resource failed, and wherever a lister of its type failed another   *)
(* one found something of that type, so that the type is not recorded as   *)
(* failed (FastScanManager.project: "detected wins").                      *)
HalfListed(x, base, set) ==
  ListedBy[x] # {} /\ \A r \in Regions :
    /\ Home[x] \in {r, Global} => ~Answers(x, r, base.down)
    /\ (\E l \in Listers : Kind[l] = Type[x] /\ <<l, r>> \in base.down)
         => \E y \in set : Type[y] = Type[x] /\ Home[y] \in {r, Global} /\ Answers(y, r, base.down)

(* What the account held when it was initialised outlives every cleanup,   *)
(* whatever failed in the scans before the deletions, unless one of the    *)
(* snapshots they are told apart by had half listed it                     *)
(* (_delete_resources_not_in_init_snapshot: a type that failed to          *)
(* enumerate in either scan is excluded from the diff).                    *)
DefaultsOutliveSweeps ==
  \A x \in Defaults \ live : HalfListed(x, pre, Defaults) \/ HalfListed(x, post, deployed)

(* The sweep before the scenario's own cleanup takes only what was made    *)
(* after the setup: what the scenario deployed is there for cleanup.sh,    *)
(* unless the snapshot after the setup had half listed it or the stack     *)
(* that owns it (_delete_resources_created_after_setup).                   *)
ScenarioOutlivesPresweep ==
  stage = "presweep" =>
    \A x \in deployed \ live :
      \/ HalfListed(x, post, deployed)
      \/ \E s \in deployed \cap Stacks : x \in Owns[s] /\ HalfListed(s, post, deployed)

(* An account-wide resource is swept only when no region is still deleting *)
(* stacks or sweeping: another region's stacks may need it                 *)
(* (partition_by_scope, and the barrier before _sweep_global_leftovers).   *)
Deletes(s) ==
  \/ s \notin stacks'
  \/ LET r == Home[s] IN pc'[r] # pc[r] /\ (pc[r] = "stacks" \/ s \in found[r])
GoesWithStack(x) == \E s \in stacks : x \in Owns[s] /\ Deletes(s)
GlobalsWaitForRegions ==
  [][\A x \in live \ live' : Home[x] = Global /\ ~GoesWithStack(x)
       => stage = "globals" /\ \A r \in Regions : pc[r] = "seen"]_vars

(* A clean verdict: no stack is left but one whose deletion was reported   *)
(* as deferred, or one of the infrastructure, and no resource, stacks      *)
(* included, that was not there at first, unless it is bootstrap, has the  *)
(* type and name of one that was or of one that is noted as deferred, or   *)
(* was overlooked because all its listers failed in the last scan          *)
(* (CleanupSummary.is_clean).                                              *)
Overlooked(x) == \A r \in Regions : Home[x] \in {r, Global} => ~Answers(x, r, missed)
CleanMeansEmpty ==
  stage = "clean" =>
    /\ stacks \subseteq Bootstrap \cup postponed
    /\ \A x \in live \ (Defaults \cup Infra) :
         IsDeferred(x) \/ Overlooked(x) \/ Key(x) \in pre.ids

(* Once an account is being cleaned the command ends, with a verdict or    *)
(* unwound by a shutdown.                                                  *)
CleanupEnds == stage = "presweep" ~> stage \in Over
=============================================================================
