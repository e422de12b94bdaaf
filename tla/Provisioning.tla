---------------------------- MODULE Provisioning ----------------------------
(***************************************************************************)
(* The life of an environment's accounts: env init, which makes the OU and *)
(* an account for every (scenario, account tag) pair, and env terminate,   *)
(* which takes some or all of them out of the OU and closes them.          *)
(*                                                                         *)
(* Every Organizations, IAM and Service Quotas call is a step of its own,  *)
(* so that either command may be killed between any two, and a call may    *)
(* fail.  AWS opens accounts and grants quotas in its own time, also after *)
(* the command that asked is gone.  A terminate waits at its prompt while  *)
(* an init may run; two inits at once are not modelled.  Calls that only   *)
(* ask, and the region SCPs of single accounts, are left out.              *)
(***************************************************************************)
EXTENDS Naturals, FiniteSets

CONSTANTS
    Pairs,          \* the (scenario, account tag) pairs: <<scenario, tag>>
    Accounts,       \* the member accounts the organization has room for
    WithQuotas,     \* the pairs whose manifest asks for a quota increase
    NConcurrent,    \* --n-concurrent
    MaxEmails,      \* EMAIL_COLLISION_MAX_ATTEMPTS
    Waits,          \* the values --wait-for-quotas may have
    Filters,        \* the scenarios terminate's options may let pass, as sets;
                    \* Untagged is in a set that lets untagged accounts pass
    Untagged,       \* no aws-bench:scenario tag
    NoAccount,      \* no account (yet)
    MaxInits,       \* bound: init commands
    MaxTerminates,  \* bound: terminate commands
    MaxFaults       \* bound: calls that fail, and kills

ASSUME ProvisioningAssumption ==
    /\ Untagged \notin Pairs
    /\ NoAccount \notin Accounts
    /\ WithQuotas \subseteq Pairs
    /\ NConcurrent \in Nat \ {0}
    /\ MaxEmails \in Nat \ {0}
    /\ Waits \subseteq BOOLEAN
    /\ {MaxInits, MaxTerminates, MaxFaults} \subseteq Nat

VARIABLES
    ou,         \* the environment's OU: "absent", "bare" or "protected" by
                \* the SCP that shields the framework's roles
    status,     \* an account's status: "none", "opening", "ACTIVE", "CLOSED"
    inside,     \* the accounts that are in the OU; the others are at the root
    tag,        \* each account's aws-bench:scenario tag
    opsRole,    \* the accounts that have the CFN operations role
    baseline,   \* the accounts whose PRE_SETUP snapshot is in S3
    asked,      \* the accounts with a quota increase requested
    granted,    \* the accounts whose quotas are high enough
    phase,      \* the phase of init, or how the last one ended
    waited,     \* did it wait for the quotas?
    at,         \* where each pair is in it
    account,    \* ProvisionedAccount.account_id
    emails,     \* the creations tried for the pair
    submit,     \* what came of the pair's quota request
    term,       \* the phase of terminate
    chosen,     \* the accounts it listed, filtered and showed
    todo,       \* the accounts it has still to take out
    moved,      \* the account it has moved and not yet closed
    disturbed,  \* has a terminate changed anything since init began?
    inits, terms, faults

cloud == <<status, inside, tag, opsRole, baseline, asked, granted>>
initVars == <<phase, waited, at, account, emails, submit>>
termVars == <<term, chosen, todo, moved>>
counts == <<disturbed, inits, terms, faults>>
vars == <<ou, cloud, initVars, termVars, counts>>

Statuses == {"none", "opening", "ACTIVE", "CLOSED"}
Ended == {"never", "ok", "failed"}
Creating == {"opening", "move", "tag", "sha"}
Provisioning == {"role", "quotas", "baseline"}
Places == {"queued", "created", "done", "nosnapshot", "failed", "limit"}
          \cup Creating \cup Provisioning

Members(p) == {a \in inside : status[a] = "ACTIVE" /\ tag[a] = p}
Room == {a \in Accounts : status[a] = "none"}
Min(m, n) == IF m < n THEN m ELSE n

TypeOK ==
    /\ ou \in {"absent", "bare", "protected"}
    /\ status \in [Accounts -> Statuses]
    /\ tag \in [Accounts -> Pairs \cup {Untagged}]
    /\ {inside, opsRole, baseline, asked, granted} \subseteq SUBSET Accounts
    /\ phase \in Ended \cup {"ou", "scp", "create", "provision", "wait"}
    /\ waited \in BOOLEAN
    /\ at \in [Pairs -> Places]
    /\ account \in [Pairs -> Accounts \cup {NoAccount}]
    /\ emails \in [Pairs -> 0 .. MaxEmails]
    /\ submit \in [Pairs -> {"met", "pending", "failed", "raised"}]
    /\ term \in {"idle", "prompt", "work", "strip", "drop"}
    /\ {chosen, todo} \subseteq SUBSET Accounts
    /\ moved \in Accounts \cup {NoAccount}
    /\ disturbed \in BOOLEAN
    /\ {inits, terms, faults} \subseteq Nat

Init ==
    /\ ou = "absent"
    /\ status = [a \in Accounts |-> "none"]
    /\ tag = [a \in Accounts |-> Untagged]
    /\ inside = {} /\ opsRole = {} /\ baseline = {}
    /\ asked = {} /\ granted = {}
    /\ phase = "never"
    /\ waited = FALSE
    /\ at = [p \in Pairs |-> "queued"]
    /\ account = [p \in Pairs |-> NoAccount]
    /\ emails = [p \in Pairs |-> 0]
    /\ submit = [p \in Pairs |-> "met"]
    /\ term = "idle"
    /\ chosen = {} /\ todo = {} /\ moved = NoAccount
    /\ disturbed = FALSE
    /\ inits = 0 /\ terms = 0 /\ faults = 0

(* A call fails, or the process is killed. *)
Fault ==
    /\ faults < MaxFaults
    /\ faults' = faults + 1
    /\ UNCHANGED <<disturbed, inits, terms>>

----------------------------------------------------------------------------
(* AWS on its own. *)

\* A CreateAccount request is served.  The account is at the root.
Opens(a) ==
    /\ status[a] = "opening"
    /\ status' = [status EXCEPT ![a] = "ACTIVE"]
    /\ UNCHANGED <<ou, inside, tag, opsRole, baseline, asked, granted,
                   initVars, termVars, counts>>

\* A quota increase is approved and in effect.
Grants(a) ==
    /\ a \in asked \ granted /\ status[a] = "ACTIVE"
    /\ granted' = granted \cup {a}
    /\ UNCHANGED <<ou, status, inside, tag, opsRole, baseline, asked,
                   initVars, termVars, counts>>

AWS == \E a \in Accounts : Opens(a) \/ Grants(a)

----------------------------------------------------------------------------
(* env init *)

InitRuns == phase \notin Ended

\* The results so far, which live as long as the process.
NoResults ==
    /\ at' = [p \in Pairs |-> "queued"]
    /\ account' = [p \in Pairs |-> NoAccount]
    /\ emails' = [p \in Pairs |-> 0]
    /\ submit' = [p \in Pairs |-> "met"]

GoesOn(to) == phase' = to /\ UNCHANGED <<waited, at, account, emails, submit>>
Ends(as, w) == phase' = as /\ waited' = w /\ NoResults
Fails == Ends("failed", FALSE)

Begin ==
    /\ ~InitRuns
    /\ inits < MaxInits
    /\ inits' = inits + 1
    /\ phase' = "ou"
    /\ waited' = FALSE
    /\ NoResults
    /\ disturbed' = (term \notin {"idle", "prompt"})
    /\ UNCHANGED <<ou, cloud, termVars, terms, faults>>

\* init_organization finds or makes the OU ...
FindOU ==
    /\ phase = "ou"
    /\ GoesOn("scp")
    /\ ou' = IF ou = "absent" THEN "bare" ELSE ou
    /\ UNCHANGED <<cloud, termVars, counts>>

\* ... and attaches the SCP to it, which fails if the OU is gone.
AttachSCP ==
    /\ phase = "scp"
    /\ IF ou = "absent"
       THEN Fails /\ UNCHANGED ou
       ELSE GoesOn("create") /\ ou' = "protected"
    /\ UNCHANGED <<cloud, termVars, counts>>

\* Either call fails, and with it the command.
SetupFails ==
    /\ phase \in {"ou", "scp"}
    /\ Fault
    /\ Fails
    /\ UNCHANGED <<ou, cloud, termVars>>

Goes(p, to) == at' = [at EXCEPT ![p] = to]

\* The slots of the semaphore of the first phase, 3 at most.
CreationSlot ==
    Cardinality({p \in Pairs : at[p] \in Creating}) < Min(NConcurrent, 3)

\* The pair's account is in the OU already.
Reuse(p) ==
    /\ phase = "create" /\ at[p] = "queued" /\ CreationSlot
    /\ ou # "absent" /\ Cardinality(Members(p)) = 1
    /\ Goes(p, "created")
    /\ account' = [account EXCEPT ![p] = CHOOSE a \in Members(p) : TRUE]
    /\ UNCHANGED <<ou, cloud, phase, waited, emails, submit, termVars, counts>>

\* There is no OU any more, or there are several accounts for the pair.
Refused(p) ==
    /\ phase = "create" /\ at[p] = "queued" /\ CreationSlot
    /\ ou = "absent" \/ Cardinality(Members(p)) > 1
    /\ Goes(p, "failed")
    /\ UNCHANGED <<ou, cloud, phase, waited, account, emails, submit,
                   termVars, counts>>

\* CreateAccount with a fresh address; AWS gives it the next account id.
Ask(p) ==
    /\ emails' = [emails EXCEPT ![p] = @ + 1]
    /\ IF Room = {}
       THEN Goes(p, "limit") /\ UNCHANGED <<status, account>>
       ELSE LET a == CHOOSE a \in Room : TRUE
            IN  /\ status' = [status EXCEPT ![a] = "opening"]
                /\ account' = [account EXCEPT ![p] = a]
                /\ Goes(p, "opening")
    /\ UNCHANGED <<ou, inside, tag, opsRole, baseline, asked, granted,
                   phase, waited, submit, termVars>>

Create(p) ==
    /\ phase = "create" /\ at[p] = "queued" /\ CreationSlot
    /\ ou # "absent" /\ Members(p) = {}
    /\ Ask(p)
    /\ UNCHANGED counts

\* AWS reports that the address is in use: no account was made, and
\* _create_scenario_account is entered again, with another address.
EmailInUse(p) ==
    /\ phase = "create" /\ at[p] = "opening"
    /\ status[account[p]] = "opening"
    /\ emails[p] < MaxEmails
    /\ Fault
    /\ emails' = [emails EXCEPT ![p] = @ + 1]
    /\ UNCHANGED <<ou, cloud, phase, waited, at, account, submit, termVars>>

\* AWS turns the request down for any other reason, or for this one once
\* too often.
CreationRejected(p) ==
    /\ phase = "create" /\ at[p] = "opening"
    /\ status[account[p]] = "opening"
    /\ Fault
    /\ status' = [status EXCEPT ![account[p]] = "none"]
    /\ Goes(p, "failed")
    /\ UNCHANGED <<ou, inside, tag, opsRole, baseline, asked, granted,
                   phase, waited, account, emails, submit, termVars>>

Opened(p) ==
    /\ phase = "create" /\ at[p] = "opening"
    /\ status[account[p]] = "ACTIVE"
    /\ Goes(p, "move")
    /\ UNCHANGED <<ou, cloud, phase, waited, account, emails, submit,
                   termVars, counts>>

(* Mutant: the creation is polled without a time limit. *)
PollsForever(p) == FALSE /\ UNCHANGED vars

\* _poll_account_creation gives up, at its deadline or because a status call
\* raised; the request is still with AWS.
PollTimesOut(p) ==
    /\ phase = "create" /\ at[p] = "opening"
    /\ Goes(p, "failed")
    /\ UNCHANGED <<ou, cloud, phase, waited, account, emails, submit,
                   termVars, counts>>

Move(p) ==
    /\ phase = "create" /\ at[p] = "move"
    /\ IF ou = "absent"
       THEN Goes(p, "failed") /\ UNCHANGED inside
       ELSE Goes(p, "tag") /\ inside' = inside \cup {account[p]}
    /\ UNCHANGED <<ou, status, tag, opsRole, baseline, asked, granted,
                   phase, waited, account, emails, submit, termVars, counts>>

TagScenario(p) ==
    /\ phase = "create" /\ at[p] = "tag"
    /\ Goes(p, "sha")
    /\ tag' = [tag EXCEPT ![account[p]] = p]
    /\ UNCHANGED <<ou, status, inside, opsRole, baseline, asked, granted,
                   phase, waited, account, emails, submit, termVars, counts>>

TagSha(p) ==
    /\ phase = "create" /\ at[p] = "sha"
    /\ Goes(p, "created")
    /\ UNCHANGED <<ou, cloud, phase, waited, account, emails, submit,
                   termVars, counts>>

(* Mutant: every failure of a creation is tried again, not only that of *)
(* the address.                                                         *)
CreationRetries(p) ==
    /\ phase = "create" /\ at[p] \in {"move", "tag", "sha"}
    /\ Fault
    /\ IF emails[p] < MaxEmails
       THEN Ask(p)
       ELSE /\ Goes(p, "failed")
            /\ UNCHANGED <<ou, cloud, phase, waited, account, emails, submit,
                           termVars>>

\* Moving or tagging fails: the account stays as far as it has come.
CreationFails(p) ==
    /\ phase = "create" /\ at[p] \in {"move", "tag", "sha"}
    /\ Fault
    /\ Goes(p, "failed")
    /\ UNCHANGED <<ou, cloud, phase, waited, account, emails, submit, termVars>>

\* The barrier between the phases, and the wait for new accounts.
AllCreated ==
    /\ phase = "create"
    /\ \A p \in Pairs : at[p] \in {"created", "failed", "limit"}
    /\ GoesOn("provision")
    /\ UNCHANGED <<ou, cloud, termVars, counts>>

LifecycleSlot ==
    Cardinality({p \in Pairs : at[p] \in Provisioning}) < NConcurrent

\* wait_for_role, which a closed account does not survive.
RoleReady(p) ==
    /\ phase = "provision" /\ at[p] = "created" /\ LifecycleSlot
    /\ Goes(p, IF status[account[p]] = "ACTIVE" THEN "role" ELSE "failed")
    /\ UNCHANGED <<ou, cloud, phase, waited, account, emails, submit,
                   termVars, counts>>

\* _ensure_cfn_ops_role, through the role that has become assumable.
OpsRole(p) ==
    /\ phase = "provision" /\ at[p] = "role"
    /\ IF status[account[p]] = "ACTIVE"
       THEN Goes(p, "quotas") /\ opsRole' = opsRole \cup {account[p]}
       ELSE Goes(p, "failed") /\ UNCHANGED opsRole
    /\ UNCHANGED <<ou, status, inside, tag, baseline, asked, granted,
                   phase, waited, account, emails, submit, termVars, counts>>

\* Waiting for the role or making the other one fails.
RoleFails(p) ==
    /\ phase = "provision" /\ at[p] = "role"
    /\ Fault
    /\ Goes(p, "failed")
    /\ UNCHANGED <<ou, cloud, phase, waited, account, emails, submit, termVars>>

\* request_quotas: met, pending already, or asked for now.
RequestQuotas(p) ==
    /\ phase = "provision" /\ at[p] = "quotas"
    /\ status[account[p]] = "ACTIVE"
    /\ Goes(p, "baseline")
    /\ IF p \in WithQuotas /\ account[p] \notin granted
       THEN /\ asked' = asked \cup {account[p]}
            /\ submit' = [submit EXCEPT ![p] = "pending"]
       ELSE UNCHANGED <<asked, submit>>
    /\ UNCHANGED <<ou, status, inside, tag, opsRole, baseline, granted,
                   phase, waited, account, emails, termVars, counts>>

\* A request that fails is a result of its own; one that raises, as when no
\* session can be had, is a submit failure.  Either way provisioning goes on.
QuotasFail(p) ==
    /\ phase = "provision" /\ at[p] = "quotas"
    /\ p \in WithQuotas \/ status[account[p]] # "ACTIVE"
    /\ IF status[account[p]] = "ACTIVE"
       THEN Fault
       ELSE UNCHANGED counts
    /\ Goes(p, "baseline")
    /\ submit' \in {[submit EXCEPT ![p] = r] :
                    r \in IF p \in WithQuotas THEN {"failed", "raised"}
                          ELSE {"met"}}
    /\ UNCHANGED <<ou, cloud, phase, waited, account, emails, termVars>>

\* capture_pre_setup_baseline keeps the snapshot there is, or takes one.
Capture(p) ==
    /\ phase = "provision" /\ at[p] = "baseline"
    /\ IF account[p] \in baseline \/ status[account[p]] = "ACTIVE"
       THEN Goes(p, "done") /\ baseline' = baseline \cup {account[p]}
       ELSE Goes(p, "nosnapshot") /\ UNCHANGED baseline
    /\ UNCHANGED <<ou, status, inside, tag, opsRole, asked, granted,
                   phase, waited, account, emails, submit, termVars, counts>>

CaptureFails(p) ==
    /\ phase = "provision" /\ at[p] = "baseline"
    /\ Fault
    /\ Goes(p, "nosnapshot")
    /\ UNCHANGED <<ou, cloud, phase, waited, account, emails, submit, termVars>>

(* Mutant: a failed capture is not held against the account. *)
ProvisionedWithoutSnapshot(p) ==
    at[p] \in {"done", "nosnapshot"} /\ submit[p] # "raised"

Provisioned(p) == at[p] = "done" /\ submit[p] # "raised"

\* The summary.  An account limit that was met ends the command at once,
\* after a request to raise it; otherwise quotas may have to be waited for.
AllProvisioned ==
    /\ phase = "provision"
    /\ \A p \in Pairs :
          at[p] \in {"done", "nosnapshot", "failed", "limit"}
    /\ \/ /\ TRUE \in Waits
          /\ \A p \in Pairs : at[p] # "limit"
          /\ GoesOn("wait")
       \/ /\ FALSE \in Waits \/ \E p \in Pairs : at[p] = "limit"
          /\ IF \A p \in Pairs : Provisioned(p) /\ submit[p] # "failed"
             THEN Ends("ok", FALSE) ELSE Fails
    /\ UNCHANGED <<ou, cloud, termVars, counts>>

\* A poll finds every quota of the accounts that came through high enough.
QuotasVerified ==
    /\ phase = "wait"
    /\ \A p \in WithQuotas :
          at[p] \in {"done", "nosnapshot"} => account[p] \in granted
    /\ IF \A p \in Pairs : Provisioned(p) THEN Ends("ok", TRUE) ELSE Fails
    /\ UNCHANGED <<ou, cloud, termVars, counts>>

\* The deadline passes with a quota too low, or unreadable.
QuotaTimeout ==
    /\ phase = "wait"
    /\ Fails
    /\ UNCHANGED <<ou, cloud, termVars, counts>>

\* Ctrl-C or a crash: nothing is undone.
KillInit ==
    /\ InitRuns
    /\ Fault
    /\ Fails
    /\ UNCHANGED <<ou, cloud, termVars>>

PairSteps(p) ==
    \/ Reuse(p) \/ Refused(p) \/ Create(p) \/ EmailInUse(p)
    \/ CreationRejected(p) \/ Opened(p)
    \/ PollTimesOut(p) \/ Move(p) \/ TagScenario(p) \/ TagSha(p)
    \/ CreationFails(p) \/ RoleReady(p) \/ OpsRole(p) \/ RoleFails(p)
    \/ RequestQuotas(p) \/ QuotasFail(p) \/ Capture(p) \/ CaptureFails(p)

InitSteps ==
    \/ FindOU \/ AttachSCP \/ SetupFails
    \/ \E p \in Pairs : PairSteps(p)
    \/ AllCreated \/ AllProvisioned \/ QuotasVerified \/ QuotaTimeout

----------------------------------------------------------------------------
(* env terminate *)

Active == {a \in inside : status[a] = "ACTIVE"}

\* The tags that include and exclude patterns let pass.
Passing(pass) ==
    {a \in Active : IF tag[a] = Untagged THEN Untagged \in pass
                    ELSE tag[a][1] \in pass}

(* Mutant: a filter that leaves no account is taken to the prompt, too. *)
ListAndPrompt ==
    /\ term = "idle"
    /\ terms < MaxTerminates
    /\ terms' = terms + 1
    /\ ou # "absent"
    /\ \E pass \in Filters : chosen' = Passing(pass)
    /\ term' = "prompt"
    /\ UNCHANGED <<ou, cloud, initVars, todo, moved, disturbed, inits, faults>>

\* The accounts are listed, filtered and shown; if none is left, the OU is
\* stripped and deleted without a question.
List ==
    /\ term = "idle"
    /\ terms < MaxTerminates
    /\ terms' = terms + 1
    /\ ou # "absent"
    /\ \E pass \in Filters : chosen' = Passing(pass)
    /\ term' = IF chosen' = {} THEN "strip" ELSE "prompt"
    /\ UNCHANGED <<ou, cloud, initVars, todo, moved, disturbed, inits, faults>>

\* The operator agrees: the accounts are listed again, and the list shown is
\* the filter.  An empty filter would let every account pass.
Confirm ==
    /\ term = "prompt"
    /\ term' = "work"
    /\ todo' = {a \in Active : chosen = {} \/ a \in chosen}
    /\ UNCHANGED <<ou, cloud, initVars, chosen, moved, counts>>

Decline ==
    /\ term = "prompt"
    /\ term' = "idle"
    /\ chosen' = {}
    /\ UNCHANGED <<ou, cloud, initVars, todo, moved, counts>>

Disturbs == disturbed' = TRUE /\ UNCHANGED <<inits, terms, faults>>

MoveToRoot(a) ==
    /\ term = "work" /\ moved = NoAccount /\ a \in todo
    /\ inside' = inside \ {a}
    /\ moved' = a
    /\ Disturbs
    /\ UNCHANGED <<ou, status, tag, opsRole, baseline, asked, granted,
                   initVars, term, chosen, todo>>

\* Nobody can get into a closed account: its tag and quotas no longer count.
Close ==
    /\ term = "work" /\ moved # NoAccount
    /\ status' = [status EXCEPT ![moved] = "CLOSED"]
    /\ tag' = [tag EXCEPT ![moved] = Untagged]
    /\ asked' = asked \ {moved} /\ granted' = granted \ {moved}
    /\ todo' = todo \ {moved} /\ moved' = NoAccount
    /\ Disturbs
    /\ UNCHANGED <<ou, inside, opsRole, baseline, initVars, term, chosen>>

\* --no-close: only the tag is taken off.
Untag ==
    /\ term = "work" /\ moved # NoAccount
    /\ tag' = [tag EXCEPT ![moved] = Untagged]
    /\ todo' = todo \ {moved} /\ moved' = NoAccount
    /\ Disturbs
    /\ UNCHANGED <<ou, status, inside, opsRole, baseline, asked, granted,
                   initVars, term, chosen>>

\* A call for an account fails; the loop goes on with the next one.
AccountFails(a) ==
    /\ term = "work" /\ a \in todo /\ moved \in {NoAccount, a}
    /\ Fault
    /\ todo' = todo \ {a} /\ moved' = NoAccount
    /\ UNCHANGED <<ou, cloud, initVars, term, chosen>>

Worked ==
    /\ term = "work" /\ todo = {}
    /\ term' = "strip"
    /\ chosen' = {}
    /\ UNCHANGED <<ou, cloud, initVars, todo, moved, counts>>

\* detach_all_scps on the OU.  Its failure is only logged.
Strip ==
    /\ term = "strip"
    /\ term' = "drop"
    /\ IF ou = "protected"
       THEN \/ ou' = "bare" /\ Disturbs
            \/ Fault /\ UNCHANGED ou
       ELSE UNCHANGED <<ou, counts>>
    /\ UNCHANGED <<cloud, initVars, chosen, todo, moved>>

\* The OU is deleted if it is empty; AWS deletes no other.
Drop ==
    /\ term = "drop"
    /\ term' = "idle"
    /\ IF inside = {}
       THEN \/ ou' = "absent" /\ Disturbs
            \/ Fault /\ UNCHANGED ou
       ELSE UNCHANGED <<ou, counts>>
    /\ UNCHANGED <<cloud, initVars, chosen, todo, moved>>

KillTerminate ==
    /\ term \in {"work", "strip", "drop"}
    /\ Fault
    /\ term' = "idle"
    /\ chosen' = {} /\ todo' = {} /\ moved' = NoAccount
    /\ UNCHANGED <<ou, cloud, initVars>>

TerminateSteps ==
    \/ Confirm \/ Decline
    \/ \E a \in Accounts : MoveToRoot(a) \/ AccountFails(a)
    \/ Close \/ Untag \/ Worked \/ Strip \/ Drop

----------------------------------------------------------------------------
Next ==
    \/ AWS
    \/ Begin \/ InitSteps \/ KillInit
    \/ List \/ TerminateSteps \/ KillTerminate

(* A running init takes its next step: its calls return, its polls have    *)
(* time limits.  AWS owes it nothing, and the operator need not answer.    *)
Spec == Init /\ [][Next]_vars /\ WF_initVars(InitRuns /\ InitSteps)

----------------------------------------------------------------------------
(* Whatever was killed, failed or was terminated and provisioned again, no *)
(* pair ever has two accounts in the OU: every later command would refuse  *)
(* to work on it (DuplicateScenarioAccountError, manager.py:183 and 238).  *)
OneAccountPerPair == \A p \in Pairs : Cardinality(Members(p)) <= 1

(* An init that exits with success, no terminate having interfered, leaves *)
(* every pair ready to be set up: an account in the protected OU, with the *)
(* operations role and its pristine baseline, the quotas in effect if they *)
(* were waited for and requested if not (ProvisioningSummary.all_succeeded,*)
(* provisioning.py:193).                                                   *)
Ready(p) ==
    \E a \in Members(p) :
        /\ a \in opsRole \cap baseline
        /\ p \in WithQuotas =>
              a \in IF waited THEN granted ELSE granted \cup asked

SuccessMeansReady ==
    phase = "ok" /\ ~disturbed =>
        /\ ou = "protected"
        /\ \A p \in Pairs : Ready(p)

(* No account leaves the OU unless the operator was shown it and agreed,   *)
(* though terminate lists the accounts again after the prompt, accounts    *)
(* come and go meanwhile, and an empty filter means all of them            *)
(* (cli/env.py:1023, manager.py:395).                                      *)
OnlyConfirmedLeave == [][\A a \in inside \ inside' : a \in chosen]_vars

(* An init that has begun ends, whatever AWS does with its requests. *)
InitEnds == []<>~InitRuns
============================================================================
