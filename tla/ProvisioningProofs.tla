------------------------- MODULE ProvisioningProofs -------------------------
(***************************************************************************)
(* Proofs about Provisioning for any number of pairs, accounts, commands   *)
(* and faults.                                                             *)
(***************************************************************************)
EXTENDS Provisioning, FiniteSetTheorems, TLAPS

(* The next-state relation without its grouping. *)
LEMMA StepCases ==
  ASSUME [Next]_vars
  PROVE  \/ \E a \in Accounts : Opens(a) \/ Grants(a)
         \/ Begin \/ FindOU \/ AttachSCP \/ SetupFails
         \/ \E p \in Pairs :
              \/ Reuse(p) \/ Refused(p) \/ Create(p) \/ EmailInUse(p)
              \/ CreationRejected(p) \/ Opened(p) \/ PollTimesOut(p)
              \/ Move(p) \/ TagScenario(p) \/ TagSha(p) \/ CreationFails(p)
              \/ RoleReady(p) \/ OpsRole(p) \/ RoleFails(p)
              \/ RequestQuotas(p) \/ QuotasFail(p)
              \/ Capture(p) \/ CaptureFails(p)
         \/ AllCreated \/ AllProvisioned \/ QuotasVerified \/ QuotaTimeout
         \/ KillInit
         \/ List \/ Confirm \/ Decline
         \/ \E a \in Accounts : MoveToRoot(a) \/ AccountFails(a)
         \/ Close \/ Untag \/ Worked \/ Strip \/ Drop \/ KillTerminate
         \/ UNCHANGED vars
BY DEF Next, AWS, InitSteps, PairSteps, TerminateSteps

(* An account that may be asked for is one there is room for. *)
LEMMA ChosenHasRoom ==
  ASSUME Room # {}
  PROVE  (CHOOSE a \in Room : TRUE) \in Room
<1>1. \E a : a \in Room
  OBVIOUS
<1> QED BY <1>1

LEMMA ChosenIsMember ==
  ASSUME NEW p \in Pairs, Members(p) # {}
  PROVE  (CHOOSE a \in Members(p) : TRUE) \in Members(p)
<1>1. \E a : a \in Members(p)
  OBVIOUS
<1> QED BY <1>1

-----------------------------------------------------------------------------
(* Types.  The number of addresses tried stays within its bound because a  *)
(* pair that is queued has tried none, and what a command moves or gives a *)
(* role to is an account because a pair that has come so far has one.      *)

NoneTried == \A p \in Pairs : at[p] = "queued" => emails[p] = 0
HasAccount ==
    \A p \in Pairs : at[p] \in {"queued", "failed", "limit"} \/ account[p] \in Accounts

Typed == TypeOK /\ NoneTried /\ HasAccount

LEMMA CountsTyped ==
  ASSUME TypeOK,
         Fault \/ Disturbs \/ UNCHANGED counts
  PROVE  disturbed' \in BOOLEAN /\ {inits', terms', faults'} \subseteq Nat
<1>1. inits \in Nat /\ terms \in Nat /\ faults \in Nat /\ disturbed \in BOOLEAN
  BY DEF TypeOK
<1>2. inits' \in Nat /\ terms' \in Nat /\ faults' \in Nat /\ disturbed' \in BOOLEAN
  <2>1. CASE Fault
    BY <1>1, <2>1 DEF Fault
  <2>2. CASE Disturbs
    BY <1>1, <2>2 DEF Disturbs
  <2>3. CASE UNCHANGED counts
    BY <1>1, <2>3 DEF counts
  <2> QED BY <2>1, <2>2, <2>3
<1> QED BY <1>2

LEMMA NoResultsTyped ==
  ASSUME NoResults
  PROVE  /\ at' \in [Pairs -> Places]
         /\ account' \in [Pairs -> Accounts \cup {NoAccount}]
         /\ emails' \in [Pairs -> 0 .. MaxEmails]
         /\ submit' \in [Pairs -> {"met", "pending", "failed", "raised"}]
         /\ NoneTried' /\ HasAccount'
BY ProvisioningAssumption DEF NoResults, NoneTried, HasAccount, Places

LEMMA GoesTyped ==
  ASSUME Typed, NEW p \in Pairs, NEW to \in Places \ {"queued"}, Goes(p, to),
         emails' = emails,
         \A q \in Pairs \ {p} : account'[q] = account[q],
         to = "failed" \/ account'[p] \in Accounts
  PROVE  /\ at' \in [Pairs -> Places]
         /\ NoneTried' /\ HasAccount'
<1>1. /\ at' \in [Pairs -> Places]
      /\ at'[p] = to
      /\ \A q \in Pairs \ {p} : at'[q] = at[q]
  BY DEF Typed, TypeOK, Goes
<1> QED BY <1>1 DEF Typed, NoneTried, HasAccount

LEMMA AskTyped ==
  ASSUME Typed, NEW p \in Pairs, at[p] = "queued", Ask(p)
  PROVE  /\ at' \in [Pairs -> Places]
         /\ account' \in [Pairs -> Accounts \cup {NoAccount}]
         /\ emails' \in [Pairs -> 0 .. MaxEmails]
         /\ status' \in [Accounts -> Statuses]
         /\ NoneTried' /\ HasAccount'
<1>1. at' \in [Pairs -> Places] /\ at'[p] = (IF Room = {} THEN "limit" ELSE "opening")
      /\ \A q \in Pairs \ {p} : at'[q] = at[q]
  <2>1. CASE Room = {}
    BY <2>1 DEF Ask, Goes, Typed, TypeOK, Places
  <2>2. CASE Room # {}
    BY <2>2 DEF Ask, Goes, Typed, TypeOK, Places, Creating
  <2> QED BY <2>1, <2>2
<1>2. emails' \in [Pairs -> 0 .. MaxEmails] /\ \A q \in Pairs \ {p} : emails'[q] = emails[q]
  <2>1. emails[p] + 1 \in 0 .. MaxEmails
    BY ProvisioningAssumption DEF Typed, NoneTried
  <2> QED BY <2>1 DEF Ask, Typed, TypeOK
<1>3. /\ account' \in [Pairs -> Accounts \cup {NoAccount}]
      /\ status' \in [Accounts -> Statuses]
      /\ \A q \in Pairs \ {p} : account'[q] = account[q]
      /\ Room # {} => account'[p] \in Accounts
  <2>1. CASE Room = {}
    BY <2>1 DEF Ask, Typed, TypeOK
  <2>2. CASE Room # {}
    <3> DEFINE a == CHOOSE a \in Room : TRUE
    <3>1. a \in Accounts
      BY <2>2, ChosenHasRoom DEF Room
    <3>2. status' = [status EXCEPT ![a] = "opening"] /\ account' = [account EXCEPT ![p] = a]
      BY <2>2 DEF Ask
    <3> HIDE DEF a
    <3> QED BY <3>1, <3>2 DEF Typed, TypeOK, Statuses
  <2> QED BY <2>1, <2>2
<1> QED BY <1>1, <1>2, <1>3 DEF Typed, NoneTried, HasAccount

CountsOK == disturbed \in BOOLEAN /\ {inits, terms, faults} \subseteq Nat
CloudOK ==
    /\ ou \in {"absent", "bare", "protected"}
    /\ status \in [Accounts -> Statuses]
    /\ tag \in [Accounts -> Pairs \cup {Untagged}]
    /\ {inside, opsRole, baseline, asked, granted} \subseteq SUBSET Accounts
PairsOK ==
    /\ at \in [Pairs -> Places]
    /\ account \in [Pairs -> Accounts \cup {NoAccount}]
    /\ emails \in [Pairs -> 0 .. MaxEmails]
    /\ submit \in [Pairs -> {"met", "pending", "failed", "raised"}]
    /\ NoneTried /\ HasAccount
RunOK ==
    /\ phase \in Ended \cup {"ou", "scp", "create", "provision", "wait"}
    /\ waited \in BOOLEAN
TermOK ==
    /\ term \in {"idle", "prompt", "work", "strip", "drop"}
    /\ {chosen, todo} \subseteq SUBSET Accounts
    /\ moved \in Accounts \cup {NoAccount}

LEMMA TypedParts == Typed <=> CountsOK /\ CloudOK /\ PairsOK /\ RunOK /\ TermOK
BY DEF Typed, TypeOK, CountsOK, CloudOK, PairsOK, RunOK, TermOK

(* The steps of init keep the types ... *)
LEMMA InitTyped ==
  ASSUME Typed,
         \/ Begin \/ FindOU \/ AttachSCP \/ SetupFails
         \/ AllCreated \/ AllProvisioned \/ QuotasVerified \/ QuotaTimeout \/ KillInit
  PROVE  Typed'
<1> USE DEF GoesOn, Ends, Fails
<1>1. CloudOK /\ PairsOK /\ RunOK /\ TermOK /\ CountsOK
  BY TypedParts
<1>2. TermOK' /\ CloudOK'
  BY <1>1 DEF Begin, FindOU, AttachSCP, SetupFails, AllCreated, AllProvisioned,
              QuotasVerified, QuotaTimeout, KillInit, TermOK, CloudOK, cloud, termVars
<1>3. CountsOK'
  <2>1. CASE Begin
    BY <1>1, <2>1 DEF Begin, CountsOK
  <2>2. CASE ~Begin
    <3>1. Fault \/ UNCHANGED counts
      BY <2>2 DEF FindOU, AttachSCP, SetupFails, AllCreated, AllProvisioned,
                  QuotasVerified, QuotaTimeout, KillInit
    <3> QED BY <3>1, CountsTyped DEF Typed, CountsOK
  <2> QED BY <2>1, <2>2
<1>4. PairsOK' /\ RunOK'
  <2>1. CASE NoResults /\ phase' \in Ended \cup {"ou"} /\ waited' \in BOOLEAN
    BY <2>1, NoResultsTyped DEF PairsOK, RunOK
  <2>2. CASE UNCHANGED <<at, account, emails, submit, waited>>
             /\ phase' \in {"ou", "scp", "create", "provision", "wait"}
    BY <1>1, <2>2 DEF PairsOK, RunOK, NoneTried, HasAccount
  <2>3. \/ NoResults /\ phase' \in Ended \cup {"ou"} /\ waited' \in BOOLEAN
        \/ /\ UNCHANGED <<at, account, emails, submit, waited>>
           /\ phase' \in {"ou", "scp", "create", "provision", "wait"}
    BY DEF Begin, FindOU, AttachSCP, SetupFails, AllCreated, AllProvisioned,
           QuotasVerified, QuotaTimeout, KillInit, Ended
  <2> QED BY <2>1, <2>2, <2>3
<1> QED BY <1>2, <1>3, <1>4, TypedParts, PTL

(* ... those of a pair ... *)
PairStep(p) ==
    \/ Reuse(p) \/ Refused(p) \/ Create(p) \/ EmailInUse(p)
    \/ CreationRejected(p) \/ Opened(p) \/ PollTimesOut(p)
    \/ Move(p) \/ TagScenario(p) \/ TagSha(p) \/ CreationFails(p)
    \/ RoleReady(p) \/ OpsRole(p) \/ RoleFails(p)
    \/ RequestQuotas(p) \/ QuotasFail(p)
    \/ Capture(p) \/ CaptureFails(p)

(* All but the beginning of a creation move the pair from one place to     *)
(* another and keep its account, but for the one that is found.            *)
LEMMA PairGoes ==
  ASSUME Typed, NEW p \in Pairs, PairStep(p), ~Create(p), ~EmailInUse(p)
  PROVE  /\ \E to \in Places \ {"queued"} :
               Goes(p, to) /\ (to = "failed" \/ account'[p] \in Accounts)
         /\ emails' = emails
         /\ account' \in [Pairs -> Accounts \cup {NoAccount}]
         /\ \A q \in Pairs \ {p} : account'[q] = account[q]
         /\ submit' \in [Pairs -> {"met", "pending", "failed", "raised"}]
<1> USE DEF Places, Creating, Provisioning, Typed, TypeOK
<1>1. CASE Reuse(p)
  <2>1. (CHOOSE a \in Members(p) : TRUE) \in Accounts
    <3>1. Cardinality(Members(p)) = 1
      BY <1>1 DEF Reuse
    <3>2. Cardinality({}) = 0
      BY FS_EmptySet
    <3>3. Members(p) # {}
      <4> SUFFICES ASSUME Members(p) = {} PROVE FALSE
        OBVIOUS
      <4>1. Cardinality(Members(p)) = Cardinality({})
        OBVIOUS
      <4> QED BY <3>1, <3>2, <4>1
    <3> QED BY <3>3, ChosenIsMember, Zenon DEF Members, TypeOK
  <2> QED BY <1>1, <2>1 DEF Reuse
<1>2. ASSUME at[p] \notin {"queued", "failed", "limit"}, UNCHANGED account
      PROVE  account'[p] \in Accounts
  BY <1>2 DEF HasAccount
<1>3. CASE \/ Refused(p) \/ CreationRejected(p) \/ Opened(p) \/ PollTimesOut(p)
           \/ TagScenario(p) \/ TagSha(p) \/ CreationFails(p)
           \/ RoleFails(p) \/ CaptureFails(p)
  BY <1>2, <1>3 DEF Refused, CreationRejected, Opened, PollTimesOut, TagScenario, TagSha,
                    CreationFails, RoleFails, CaptureFails
<1>4. CASE Move(p) \/ RoleReady(p) \/ OpsRole(p) \/ Capture(p)
  BY <1>2, <1>4 DEF Move, RoleReady, OpsRole, Capture
<1>5. CASE RequestQuotas(p)
  BY <1>2, <1>5 DEF RequestQuotas
<1>6. CASE QuotasFail(p)
  BY <1>2, <1>6 DEF QuotasFail
<1> QED BY <1>1, <1>3, <1>4, <1>5, <1>6 DEF PairStep

LEMMA PairTyped ==
  ASSUME Typed, NEW p \in Pairs, PairStep(p)
  PROVE  Typed'
<1>1. CloudOK /\ PairsOK /\ RunOK /\ TermOK /\ CountsOK
  BY TypedParts
<1>2. TermOK' /\ RunOK'
  BY <1>1 DEF PairStep, Reuse, Refused, Create, Ask, EmailInUse, CreationRejected, Opened,
              PollTimesOut, Move, TagScenario, TagSha, CreationFails, RoleReady, OpsRole,
              RoleFails, RequestQuotas, QuotasFail, Capture, CaptureFails,
              TermOK, RunOK, termVars
<1>3. CountsOK'
  <2>1. Fault \/ UNCHANGED counts
    BY DEF PairStep, Reuse, Refused, Create, EmailInUse, CreationRejected, Opened,
           PollTimesOut, Move, TagScenario, TagSha, CreationFails, RoleReady, OpsRole,
           RoleFails, RequestQuotas, QuotasFail, Capture, CaptureFails
  <2> QED BY <2>1, CountsTyped DEF Typed, CountsOK
<1>4. PairsOK'
  <2>1. CASE Create(p)
    BY <2>1, <1>1, AskTyped DEF Create, Ask, PairsOK
  <2>2. CASE EmailInUse(p)
    <3>1. emails[p] + 1 \in 0 .. MaxEmails
      BY <1>1, <2>2, ProvisioningAssumption DEF EmailInUse, PairsOK
    <3> QED BY <1>1, <2>2, <3>1 DEF EmailInUse, PairsOK, NoneTried, HasAccount
  <2>3. CASE ~Create(p) /\ ~EmailInUse(p)
    <3>1. PICK to \in Places \ {"queued"} :
             Goes(p, to) /\ (to = "failed" \/ account'[p] \in Accounts)
      BY <2>3, PairGoes
    <3>2. /\ emails' = emails
          /\ \A q \in Pairs \ {p} : account'[q] = account[q]
          /\ account' \in [Pairs -> Accounts \cup {NoAccount}]
          /\ submit' \in [Pairs -> {"met", "pending", "failed", "raised"}]
      BY <2>3, PairGoes
    <3>3. at' \in [Pairs -> Places] /\ NoneTried' /\ HasAccount'
      BY <3>1, <3>2, GoesTyped
    <3> QED BY <1>1, <3>2, <3>3 DEF PairsOK
  <2> QED BY <2>1, <2>2, <2>3
<1>5. CloudOK'
  <2>1. CASE Create(p)
    BY <2>1, <1>1, AskTyped DEF Create, Ask, CloudOK
  <2>2. CASE CreationRejected(p)
    BY <2>2, <1>1 DEF CreationRejected, CloudOK, Statuses
  <2>3. ASSUME at[p] \notin {"queued", "failed", "limit"}
        PROVE  account[p] \in Accounts
    BY <2>3 DEF Typed, HasAccount
  <2>4. CASE Move(p) \/ OpsRole(p) \/ RequestQuotas(p) \/ Capture(p)
    BY <2>3, <2>4, <1>1 DEF Move, OpsRole, RequestQuotas, Capture, CloudOK
  <2>5. CASE TagScenario(p)
    BY <2>5, <1>1 DEF TagScenario, CloudOK
  <2>6. CASE UNCHANGED <<ou, cloud>>
    BY <2>6, <1>1 DEF cloud, CloudOK
  <2>7. \/ Create(p) \/ CreationRejected(p) \/ TagScenario(p)
        \/ Move(p) \/ OpsRole(p) \/ RequestQuotas(p) \/ Capture(p)
        \/ UNCHANGED <<ou, cloud>>
    BY DEF PairStep, Reuse, Refused, EmailInUse, Opened, PollTimesOut, TagSha,
           CreationFails, RoleReady, RoleFails, QuotasFail, CaptureFails
  <2> QED BY <2>1, <2>2, <2>4, <2>5, <2>6, <2>7
<1> QED BY <1>2, <1>3, <1>4, <1>5, TypedParts, PTL

(* ... and those of terminate and of AWS. *)
LEMMA TerminateTyped ==
  ASSUME Typed,
         \/ List \/ Confirm \/ Decline \/ Close \/ Untag \/ Worked \/ Strip \/ Drop
         \/ KillTerminate
         \/ \E a \in Accounts : MoveToRoot(a) \/ AccountFails(a)
  PROVE  Typed'
<1>1. CloudOK /\ PairsOK /\ RunOK /\ TermOK /\ CountsOK
  BY TypedParts
<1>2. PairsOK' /\ RunOK'
  <2>1. UNCHANGED initVars
    BY DEF List, Confirm, Decline, Close, Untag, Worked, Strip, Drop, KillTerminate,
           MoveToRoot, AccountFails
  <2> QED BY <1>1, <2>1 DEF initVars, PairsOK, RunOK, NoneTried, HasAccount
<1>3. CountsOK'
  <2>1. CASE List
    BY <1>1, <2>1 DEF List, CountsOK
  <2>2. CASE ~List
    <3>1. Fault \/ Disturbs \/ UNCHANGED counts
      BY <2>2 DEF Confirm, Decline, Close, Untag, Worked, Strip, Drop, KillTerminate,
                  MoveToRoot, AccountFails, counts
    <3> QED BY <3>1, CountsTyped DEF Typed, CountsOK
  <2> QED BY <2>1, <2>2
<1>4. TermOK' /\ CloudOK'
  <2>1. CASE List \/ Confirm
    <3>1. Active \in SUBSET Accounts
      BY <1>1 DEF Active, CloudOK
    <3>2. \A pass : Passing(pass) \in SUBSET Accounts
      BY <3>1 DEF Passing
    <3> QED BY <1>1, <2>1, <3>1, <3>2 DEF List, Confirm, TermOK, CloudOK, cloud
  <2>2. CASE Decline \/ Worked \/ KillTerminate \/ Strip \/ Drop
    BY <1>1, <2>2 DEF Decline, Worked, KillTerminate, Strip, Drop, TermOK, CloudOK, cloud
  <2>3. CASE Close
    BY <1>1, <2>3 DEF Close, TermOK, CloudOK, Statuses
  <2>4. CASE Untag
    BY <1>1, <2>4 DEF Untag, TermOK, CloudOK
  <2>5. ASSUME NEW a \in Accounts, MoveToRoot(a) \/ AccountFails(a)
        PROVE  TermOK' /\ CloudOK'
    BY <1>1, <2>5 DEF MoveToRoot, AccountFails, TermOK, CloudOK, cloud
  <2> QED BY <2>1, <2>2, <2>3, <2>4, <2>5
<1> QED BY <1>2, <1>3, <1>4, TypedParts, PTL

LEMMA CloudTyped ==
  ASSUME Typed, NEW a \in Accounts, Opens(a) \/ Grants(a)
  PROVE  Typed'
<1>1. CloudOK /\ PairsOK /\ RunOK /\ TermOK /\ CountsOK
  BY TypedParts
<1>2. UNCHANGED <<initVars, termVars, counts>>
  BY DEF Opens, Grants
<1>3. PairsOK' /\ RunOK' /\ TermOK' /\ CountsOK'
  BY <1>1, <1>2 DEF initVars, termVars, counts, PairsOK, RunOK, TermOK, CountsOK,
                    NoneTried, HasAccount
<1>4. CloudOK'
  BY <1>1 DEF Opens, Grants, CloudOK, Statuses
<1> QED BY <1>3, <1>4, TypedParts, PTL

LEMMA TypingInductive ==
  ASSUME Typed, [Next]_vars
  PROVE  Typed'
<1>1. CASE UNCHANGED vars
  BY <1>1 DEF vars, cloud, initVars, termVars, counts, Typed, TypeOK, NoneTried, HasAccount
<1>2. CASE ~UNCHANGED vars
  BY <1>2, StepCases, InitTyped, PairTyped, TerminateTyped, CloudTyped DEF PairStep
<1> QED BY <1>1, <1>2

LEMMA InitialTyped == Init => Typed
<1> SUFFICES ASSUME Init PROVE Typed
  OBVIOUS
<1>1. CountsOK
  <2>1. inits \in Nat /\ terms \in Nat /\ faults \in Nat
    BY DEF Init
  <2> QED BY <2>1 DEF Init, CountsOK
<1>4. RunOK /\ TermOK
  BY DEF Init, RunOK, TermOK, Ended
<1>2. CloudOK
  BY DEF Init, CloudOK, Statuses
<1>3. PairsOK
  BY ProvisioningAssumption DEF Init, PairsOK, NoneTried, HasAccount, Places
<1> QED BY <1>1, <1>2, <1>3, <1>4, TypedParts

(* Every variable keeps its type, whatever fails and whoever is killed: no *)
(* more addresses are tried for a pair than allowed                        *)
(* (EMAIL_COLLISION_MAX_ATTEMPTS), and what is moved, tagged or given a    *)
(* role is an account.                                                     *)
THEOREM ProvisioningTypesCorrect == Spec => []TypeOK
<1>1. Typed /\ [Next]_vars => Typed'
  BY TypingInductive
<1>2. Typed => TypeOK
  BY DEF Typed
<1> QED BY InitialTyped, <1>1, <1>2, PTL DEF Spec

-----------------------------------------------------------------------------
(* Only what was shown leaves the OU: a list that was shown is not empty,  *)
(* and what is to be taken out is on it.                                   *)

Shown ==
    /\ term = "prompt" => chosen # {}
    /\ term = "work" => todo \subseteq chosen

LEMMA ShownInductive ==
  ASSUME Shown, [Next]_vars
  PROVE  Shown'
<1>1. CASE UNCHANGED termVars
  BY <1>1 DEF termVars, Shown
<1>2. CASE List \/ Confirm
  BY <1>2 DEF List, Confirm, Shown
<1>3. CASE \/ Decline \/ Close \/ Untag \/ Worked \/ Strip \/ Drop \/ KillTerminate
           \/ \E a \in Accounts : MoveToRoot(a) \/ AccountFails(a)
  BY <1>3 DEF Decline, Close, Untag, Worked, Strip, Drop, KillTerminate,
              MoveToRoot, AccountFails, Shown
<1>4. CASE \/ Begin \/ FindOU \/ AttachSCP \/ SetupFails
           \/ AllCreated \/ AllProvisioned \/ QuotasVerified \/ QuotaTimeout \/ KillInit
           \/ \E a \in Accounts : Opens(a) \/ Grants(a)
           \/ UNCHANGED vars
  <2>1. UNCHANGED termVars
    BY <1>4 DEF Begin, FindOU, AttachSCP, SetupFails, AllCreated, AllProvisioned,
                QuotasVerified, QuotaTimeout, KillInit, Opens, Grants, vars
  <2> QED BY <2>1, <1>1
<1>5. ASSUME NEW p \in Pairs, PairStep(p)
      PROVE  Shown'
  <2>1. UNCHANGED termVars
    BY <1>5 DEF PairStep, Reuse, Refused, Create, Ask, EmailInUse, CreationRejected, Opened,
                PollTimesOut, Move, TagScenario, TagSha, CreationFails, RoleReady, OpsRole,
                RoleFails, RequestQuotas, QuotasFail, Capture, CaptureFails
  <2> QED BY <2>1, <1>1
<1> QED BY StepCases, <1>2, <1>3, <1>4, <1>5 DEF PairStep

(* No account leaves the OU unless the operator was shown it and agreed    *)
(* (cli/env.py:1023, manager.py:395).                                      *)
THEOREM OnlyShownAccountsLeave == Spec => OnlyConfirmedLeave
<1>1. Init => Shown
  BY DEF Init, Shown
<1>2. Shown /\ [Next]_vars => Shown'
  BY ShownInductive
<1>3. ASSUME Shown, [Next]_vars
      PROVE  [\A a \in inside \ inside' : a \in chosen]_vars
  <2> SUFFICES ASSUME NEW a \in inside, a \notin inside' PROVE a \in chosen
    OBVIOUS
  <2>1. \E b \in Accounts : MoveToRoot(b)
    <3>1. CASE \E p \in Pairs : PairStep(p)
      BY <3>1 DEF PairStep, Reuse, Refused, Create, Ask, EmailInUse, CreationRejected, Opened,
                  PollTimesOut, Move, TagScenario, TagSha, CreationFails, RoleReady, OpsRole,
                  RoleFails, RequestQuotas, QuotasFail, Capture, CaptureFails, cloud
    <3>2. CASE \/ Begin \/ FindOU \/ AttachSCP \/ SetupFails
               \/ AllCreated \/ AllProvisioned \/ QuotasVerified \/ QuotaTimeout \/ KillInit
      BY <3>2 DEF Begin, FindOU, AttachSCP, SetupFails, AllCreated, AllProvisioned,
                  QuotasVerified, QuotaTimeout, KillInit, cloud
    <3>3. CASE \/ List \/ Confirm \/ Decline \/ Close \/ Untag \/ Worked \/ Strip \/ Drop
               \/ KillTerminate \/ \E b \in Accounts : AccountFails(b)
      BY <3>3 DEF List, Confirm, Decline, Close, Untag, Worked, Strip, Drop,
                  KillTerminate, AccountFails, cloud
    <3>4. CASE UNCHANGED vars \/ \E b \in Accounts : Opens(b) \/ Grants(b)
      BY <3>4 DEF vars, cloud, Opens, Grants
    <3> QED BY <1>3, StepCases, <3>1, <3>2, <3>3, <3>4 DEF PairStep
  <2> QED BY <1>3, <2>1 DEF MoveToRoot, Shown
<1> QED BY <1>1, <1>2, <1>3, PTL DEF Spec, OnlyConfirmedLeave

-----------------------------------------------------------------------------
(* One account per pair.  An account that AWS has not opened yet is at the *)
(* root without a tag.  While a pair's account is being made it has no     *)
(* tag, no other pair is making it, and the pair has no account in the OU: *)
(* it gets one only by the last step, the tag.                             *)

Early == {"opening", "move", "tag"}

Unopened ==
    \A a \in Accounts :
        status[a] \in {"none", "opening"} => tag[a] = Untagged /\ a \notin inside

Making ==
    \A p \in Pairs : at[p] \in Early =>
        /\ account[p] \in Accounts
        /\ status[account[p]] # "none"
        /\ at[p] # "opening" => status[account[p]] # "opening"
        /\ tag[account[p]] = Untagged
        /\ Members(p) = {}

Apart ==
    \A p, q \in Pairs :
        p # q /\ at[p] \in Early /\ at[q] \in Early => account[p] # account[q]

Unique == \A p \in Pairs : \A a, b \in Members(p) : a = b

UInv == Unopened /\ Making /\ Apart /\ Unique

(* Most steps make no account and change nothing of one. *)
Harmless ==
    /\ UNCHANGED <<status, inside, tag>>
    /\ \A p \in Pairs :
          \/ at'[p] \notin Early
          \/ at'[p] = at[p] /\ account'[p] = account[p]

LEMMA HarmlessKeeps ==
  ASSUME UInv, Harmless
  PROVE  UInv'
<1>1. \A p \in Pairs : Members(p)' = Members(p)
  BY DEF Harmless, Members
<1>2. Unopened' /\ Unique'
  BY <1>1 DEF UInv, Unopened, Unique, Harmless
<1>3. Making' /\ Apart'
  BY <1>1 DEF UInv, Making, Apart, Harmless
<1> QED BY <1>2, <1>3 DEF UInv

LEMMA InitHarmless ==
  ASSUME \/ Begin \/ FindOU \/ AttachSCP \/ SetupFails
         \/ AllCreated \/ AllProvisioned \/ QuotasVerified \/ QuotaTimeout \/ KillInit
  PROVE  Harmless
<1>1. UNCHANGED <<status, inside, tag>>
  BY DEF Begin, FindOU, AttachSCP, SetupFails, AllCreated, AllProvisioned,
         QuotasVerified, QuotaTimeout, KillInit, cloud
<1>2. NoResults \/ UNCHANGED <<at, account>>
  BY DEF Begin, FindOU, AttachSCP, SetupFails, AllCreated, AllProvisioned,
         QuotasVerified, QuotaTimeout, KillInit, GoesOn, Ends, Fails
<1> QED BY <1>1, <1>2 DEF Harmless, NoResults, Early

LEMMA PairHarmless ==
  ASSUME Typed, NEW p \in Pairs, PairStep(p),
         ~Create(p), ~CreationRejected(p), ~Opened(p), ~Move(p), ~TagScenario(p)
  PROVE  Harmless
<1>1. UNCHANGED <<status, inside, tag>>
  BY DEF PairStep, Reuse, Refused, EmailInUse, PollTimesOut, TagSha, CreationFails,
         RoleReady, OpsRole, RoleFails, RequestQuotas, QuotasFail, Capture, CaptureFails,
         cloud
<1>2. \/ UNCHANGED <<at, account>>
      \/ /\ \E to \in Places \ Early : Goes(p, to)
         /\ \A q \in Pairs \ {p} : account'[q] = account[q]
  <2>1. CASE Reuse(p) \/ EmailInUse(p)
    BY <2>1 DEF Reuse, EmailInUse, Places, Early, Typed, TypeOK
  <2>2. CASE ~Reuse(p) /\ ~EmailInUse(p)
    BY <2>2 DEF PairStep, Refused, PollTimesOut, TagSha, CreationFails,
                RoleReady, OpsRole, RoleFails, RequestQuotas, QuotasFail, Capture,
                CaptureFails, Places, Creating, Provisioning, Early
  <2> QED BY <2>1, <2>2
<1> QED BY <1>1, <1>2 DEF Harmless, Goes, Typed, TypeOK

(* An account is asked for when the pair has none and there is room. *)
LEMMA CreateKeeps ==
  ASSUME Typed, UInv, NEW p \in Pairs, Create(p)
  PROVE  UInv'
<1>1. CASE Room = {}
  <2>1. Harmless
    BY <1>1 DEF Create, Ask, Goes, Harmless, Early, Typed, TypeOK
  <2> QED BY <2>1, HarmlessKeeps
<1>2. CASE Room # {}
  <2> DEFINE new == CHOOSE a \in Room : TRUE
  <2>1. new \in Accounts /\ status[new] = "none"
    BY <1>2, ChosenHasRoom DEF Room
  <2>2. /\ status' = [status EXCEPT ![new] = "opening"]
        /\ account' = [account EXCEPT ![p] = new]
        /\ at' = [at EXCEPT ![p] = "opening"]
        /\ UNCHANGED <<inside, tag>>
        /\ Members(p) = {}
    BY <1>2 DEF Create, Ask, Goes
  <2> HIDE DEF new
  <2>3. tag[new] = Untagged /\ new \notin inside
    BY <2>1 DEF UInv, Unopened
  <2>4. /\ status'[new] = "opening"
        /\ \A a \in Accounts \ {new} : status'[a] = status[a]
        /\ at'[p] = "opening" /\ account'[p] = new
        /\ \A q \in Pairs \ {p} : at'[q] = at[q] /\ account'[q] = account[q]
    BY <2>1, <2>2 DEF Typed, TypeOK
  <2>5. \A q \in Pairs : Members(q)' = Members(q)
    BY <2>2, <2>3, <2>4, inside \subseteq Accounts DEF Members, Typed, TypeOK
  <2>6. \A q \in Pairs : at[q] \in Early => account[q] # new
    BY <2>1 DEF UInv, Making
  <2>7. Unopened'
    BY <2>2, <2>3, <2>4 DEF UInv, Unopened
  <2>8. Making'
    <3> SUFFICES ASSUME NEW q \in Pairs, at'[q] \in Early
                 PROVE  /\ account'[q] \in Accounts
                        /\ status'[account'[q]] # "none"
                        /\ at'[q] # "opening" => status'[account'[q]] # "opening"
                        /\ tag'[account'[q]] = Untagged
                        /\ Members(q)' = {}
      BY DEF Making
    <3>1. CASE q = p
      BY <3>1, <2>1, <2>2, <2>3, <2>4, <2>5
    <3>2. CASE q # p
      BY <3>2, <2>2, <2>4, <2>5, <2>6 DEF UInv, Making
    <3> QED BY <3>1, <3>2
  <2>9. Apart'
    BY <2>4, <2>6 DEF UInv, Apart
  <2> QED BY <2>5, <2>7, <2>8, <2>9 DEF UInv, Unique
<1> QED BY <1>1, <1>2

LEMMA CreationRejectedKeeps ==
  ASSUME Typed, UInv, NEW p \in Pairs, CreationRejected(p)
  PROVE  UInv'
<1>1. /\ at[p] = "opening" /\ account[p] \in Accounts
      /\ status[account[p]] = "opening"
      /\ status' = [status EXCEPT ![account[p]] = "none"]
      /\ at' = [at EXCEPT ![p] = "failed"]
      /\ UNCHANGED <<inside, tag, account>>
  BY DEF CreationRejected, Goes, Typed, HasAccount
<1>2. /\ status'[account[p]] = "none"
      /\ \A a \in Accounts \ {account[p]} : status'[a] = status[a]
      /\ at'[p] = "failed"
      /\ \A q \in Pairs \ {p} : at'[q] = at[q]
  BY <1>1 DEF Typed, TypeOK
<1>3. \A q \in Pairs : Members(q)' = Members(q)
  BY <1>1, <1>2, inside \subseteq Accounts DEF Members, Typed, TypeOK
<1>4. \A q \in Pairs \ {p} : at[q] \in Early => account[q] # account[p]
  BY <1>1 DEF UInv, Apart, Early
<1>5. Unopened'
  BY <1>1, <1>2 DEF UInv, Unopened
<1>6. Making'
  BY <1>1, <1>2, <1>3, <1>4 DEF UInv, Making, Early
<1>7. Apart'
  BY <1>1, <1>2 DEF UInv, Apart, Early
<1> QED BY <1>3, <1>5, <1>6, <1>7 DEF UInv, Unique

LEMMA OpenedKeeps ==
  ASSUME Typed, UInv, NEW p \in Pairs, Opened(p)
  PROVE  UInv'
<1>1. /\ at[p] = "opening" /\ status[account[p]] = "ACTIVE"
      /\ at'[p] = "move"
      /\ \A q \in Pairs \ {p} : at'[q] = at[q]
      /\ UNCHANGED <<status, inside, tag, account>>
  BY DEF Opened, Goes, cloud, Typed, TypeOK
<1>2. \A q \in Pairs : Members(q)' = Members(q)
  BY <1>1 DEF Members
<1>3. \A q \in Pairs : at'[q] \in Early => at[q] \in Early
  BY <1>1 DEF Early
<1>4. Making'
  BY <1>1, <1>2, <1>3 DEF UInv, Making
<1> QED BY <1>1, <1>2, <1>3, <1>4 DEF UInv, Unopened, Apart, Unique

(* The account that is moved has no tag: it is no member of any pair. *)
LEMMA MoveKeeps ==
  ASSUME Typed, UInv, NEW p \in Pairs, Move(p)
  PROVE  UInv'
<1>1. CASE ou = "absent"
  <2>1. Harmless
    BY <1>1 DEF Move, Goes, Harmless, Early, Typed, TypeOK
  <2> QED BY <2>1, HarmlessKeeps
<1>2. CASE ou # "absent"
  <2>1. /\ at[p] = "move"
        /\ at'[p] = "tag"
        /\ \A q \in Pairs \ {p} : at'[q] = at[q]
        /\ inside' = inside \cup {account[p]}
        /\ UNCHANGED <<status, tag, account>>
    BY <1>2 DEF Move, Goes, Typed, TypeOK
  <2>2. status[account[p]] \notin {"none", "opening"} /\ tag[account[p]] = Untagged
    BY <2>1 DEF UInv, Making, Early
  <2>3. \A q \in Pairs : Members(q)' = Members(q)
    BY <2>1, <2>2, ProvisioningAssumption DEF Members
  <2>4. \A q \in Pairs : at'[q] \in Early => at[q] \in Early
    BY <2>1 DEF Early
  <2>5. Making'
    BY <2>1, <2>3, <2>4 DEF UInv, Making
  <2> QED BY <2>1, <2>2, <2>3, <2>4, <2>5 DEF UInv, Unopened, Apart, Unique
<1> QED BY <1>1, <1>2

(* The one step that gives a pair an account, and it has none then. *)
LEMMA TagKeeps ==
  ASSUME Typed, UInv, NEW p \in Pairs, TagScenario(p)
  PROVE  UInv'
<1>1. /\ at[p] = "tag" /\ account[p] \in Accounts
      /\ at'[p] = "sha"
      /\ \A q \in Pairs \ {p} : at'[q] = at[q]
      /\ tag' = [tag EXCEPT ![account[p]] = p]
      /\ UNCHANGED <<status, inside, account>>
  BY DEF TagScenario, Goes, Typed, TypeOK, HasAccount
<1>2. tag'[account[p]] = p /\ \A a \in Accounts \ {account[p]} : tag'[a] = tag[a]
  BY <1>1 DEF Typed, TypeOK
<1>3. status[account[p]] \notin {"none", "opening"} /\ Members(p) = {}
  BY <1>1 DEF UInv, Making, Early
<1>4. /\ Members(p)' \subseteq {account[p]}
      /\ \A q \in Pairs \ {p} : Members(q)' \subseteq Members(q)
  BY <1>1, <1>2, <1>3, inside \subseteq Accounts DEF Members, Typed, TypeOK
<1>5. Unopened'
  BY <1>1, <1>2, <1>3 DEF UInv, Unopened
<1>6. \A q \in Pairs : at'[q] \in Early => q # p /\ at[q] \in Early /\ account[q] # account[p]
  BY <1>1 DEF UInv, Apart, Early
<1>7. Making'
  BY <1>1, <1>2, <1>4, <1>6 DEF UInv, Making
<1>8. Apart' /\ Unique'
  BY <1>1, <1>4, <1>6 DEF UInv, Apart, Unique
<1> QED BY <1>5, <1>7, <1>8 DEF UInv

LEMMA OpensKeeps ==
  ASSUME Typed, UInv, NEW a \in Accounts, Opens(a)
  PROVE  UInv'
<1>1. /\ status[a] = "opening" /\ status'[a] = "ACTIVE"
      /\ \A b \in Accounts \ {a} : status'[b] = status[b]
      /\ UNCHANGED <<inside, tag, at, account>>
  BY DEF Opens, initVars, Typed, TypeOK
<1>2. a \notin inside
  BY <1>1 DEF UInv, Unopened
<1>3. \A q \in Pairs : Members(q)' = Members(q)
  BY <1>1, <1>2, inside \subseteq Accounts DEF Members, Typed, TypeOK
<1>4. Unopened'
  BY <1>1 DEF UInv, Unopened
<1>5. Making'
  BY <1>1, <1>3 DEF UInv, Making
<1> QED BY <1>1, <1>3, <1>4, <1>5 DEF UInv, Apart, Unique

(* Taking an account out of the OU, closing it or taking its tag off may   *)
(* leave a pair without one, and gives none to any.                        *)
LEMMA TakingOutKeeps ==
  ASSUME Typed, UInv,
         Close \/ Untag \/ \E a \in Accounts : MoveToRoot(a)
  PROVE  UInv'
<1>1. UNCHANGED <<at, account>>
  BY DEF Close, Untag, MoveToRoot, initVars
<1>2. /\ inside' \subseteq inside
      /\ \A a \in Accounts : status'[a] \in {status[a], "CLOSED"}
      /\ \A a \in Accounts : tag'[a] \in {tag[a], Untagged}
  <2>1. CASE Close
    <3>1. moved \in Accounts
      BY <2>1 DEF Close, Typed, TypeOK
    <3> QED BY <2>1, <3>1 DEF Close, Typed, TypeOK
  <2>2. CASE Untag
    BY <2>2 DEF Untag, Typed, TypeOK
  <2>3. CASE \E a \in Accounts : MoveToRoot(a)
    BY <2>3 DEF MoveToRoot
  <2> QED BY <2>1, <2>2, <2>3
<1>3. \A q \in Pairs : Members(q)' \subseteq Members(q)
  BY <1>2, inside \subseteq Accounts, ProvisioningAssumption DEF Members, Typed, TypeOK
<1>4. Unopened'
  BY <1>2 DEF UInv, Unopened
<1>5. Making'
  BY <1>1, <1>2, <1>3 DEF UInv, Making
<1> QED BY <1>1, <1>3, <1>4, <1>5 DEF UInv, Apart, Unique

LEMMA UInvInductive ==
  ASSUME Typed, UInv, [Next]_vars
  PROVE  UInv'
<1>1. CASE \/ Begin \/ FindOU \/ AttachSCP \/ SetupFails
           \/ AllCreated \/ AllProvisioned \/ QuotasVerified \/ QuotaTimeout \/ KillInit
  BY <1>1, InitHarmless, HarmlessKeeps
<1>2. ASSUME NEW p \in Pairs, PairStep(p)
      PROVE  UInv'
  <2>1. CASE \/ Create(p) \/ CreationRejected(p) \/ Opened(p) \/ Move(p)
             \/ TagScenario(p)
    BY <2>1, CreateKeeps, CreationRejectedKeeps, OpenedKeeps, MoveKeeps, TagKeeps
  <2>2. CASE ~(\/ Create(p) \/ CreationRejected(p) \/ Opened(p) \/ Move(p)
               \/ TagScenario(p))
    BY <1>2, <2>2, PairHarmless, HarmlessKeeps
  <2> QED BY <2>1, <2>2
<1>3. CASE \/ List \/ Confirm \/ Decline \/ Worked \/ Strip \/ Drop \/ KillTerminate
           \/ UNCHANGED vars
           \/ \E a \in Accounts : AccountFails(a) \/ Grants(a)
  <2>1. Harmless
    BY <1>3 DEF List, Confirm, Decline, Worked, Strip, Drop, KillTerminate, AccountFails,
                Grants, vars, cloud, initVars, Harmless
  <2> QED BY <2>1, HarmlessKeeps
<1>4. CASE Close \/ Untag \/ \E a \in Accounts : MoveToRoot(a)
  BY <1>4, TakingOutKeeps
<1>5. ASSUME NEW a \in Accounts, Opens(a)
      PROVE  UInv'
  BY <1>5, OpensKeeps
<1> QED BY StepCases, <1>1, <1>2, <1>3, <1>4, <1>5 DEF PairStep

(* No pair ever has two accounts in the OU, however many commands were     *)
(* killed or failed half-way: DuplicateScenarioAccountError (manager.py:183 *)
(* and 238) is about accounts made by other hands.                         *)
THEOREM NoDuplicateAccounts == Spec => []OneAccountPerPair
<1>1. Init => Typed /\ UInv
  <2> SUFFICES ASSUME Init PROVE UInv
    BY InitialTyped
  <2> QED BY DEF Init, UInv, Unopened, Making, Apart, Unique, Members, Early
<1>2. Typed /\ UInv /\ [Next]_vars => (Typed /\ UInv)'
  BY TypingInductive, UInvInductive
<1>3. UInv => OneAccountPerPair
  <2> SUFFICES ASSUME UInv, NEW p \in Pairs PROVE Cardinality(Members(p)) <= 1
    BY DEF OneAccountPerPair
  <2>1. CASE Members(p) = {}
    <3>1. Cardinality({}) = 0
      BY FS_EmptySet
    <3>2. Cardinality(Members(p)) = Cardinality({})
      BY <2>1
    <3> QED BY <3>1, <3>2
  <2>2. CASE Members(p) # {}
    <3>1. PICK a : a \in Members(p)
      BY <2>2
    <3>2. Members(p) = {a}
      BY <3>1 DEF UInv, Unique
    <3>3. Cardinality({a}) = 1
      BY FS_Singleton
    <3>4. Cardinality(Members(p)) = Cardinality({a})
      BY <3>2
    <3> QED BY <3>3, <3>4
  <2> QED BY <2>1, <2>2
<1> QED BY <1>1, <1>2, <1>3, PTL DEF Spec

-----------------------------------------------------------------------------
(* What success means.  As long as no terminate interferes, a pair's       *)
(* account has what the pair's place says it has.                          *)

Placed == {"sha", "created", "done", "nosnapshot"} \cup Provisioning

Along(p) ==
    /\ at[p] = "move" => status[account[p]] = "ACTIVE"
    /\ at[p] = "tag" => status[account[p]] = "ACTIVE" /\ account[p] \in inside
    /\ at[p] \in Placed => account[p] \in Members(p)
    /\ at[p] \in {"quotas", "baseline", "done", "nosnapshot"} => account[p] \in opsRole
    /\ at[p] = "done" => account[p] \in baseline
    /\ at[p] \in {"baseline", "done", "nosnapshot"} /\ p \in WithQuotas
          /\ submit[p] \notin {"failed", "raised"}
       => account[p] \in granted \cup asked

Progress ==
    ~disturbed =>
        /\ phase \in {"create", "provision", "wait", "ok"} => ou = "protected"
        /\ \A p \in Pairs : Along(p)
        /\ phase = "ok" => \A p \in Pairs : Ready(p)

TakesOut == Close \/ Untag \/ \E a \in Accounts : MoveToRoot(a)

(* Only terminate takes anything from an account. *)
Grows ==
    /\ \A a \in Accounts : status[a] = "ACTIVE" => status'[a] = "ACTIVE"
    /\ inside \subseteq inside'
    /\ opsRole \subseteq opsRole' /\ baseline \subseteq baseline'
    /\ granted \subseteq granted'
    /\ granted \cup asked \subseteq granted' \cup asked'
    /\ \A p \in Pairs : Members(p) \subseteq Members(p)'

LEMMA SameCloudGrows ==
  ASSUME UNCHANGED cloud
  PROVE  Grows
BY DEF cloud, Grows, Members

LEMMA PairGrows ==
  ASSUME Typed, UInv, NEW p \in Pairs, PairStep(p)
  PROVE  Grows
<1>1. CASE Create(p)
  <2>1. CASE Room = {}
    BY <1>1, <2>1 DEF Create, Ask, Grows, Members
  <2>2. CASE Room # {}
    <3> DEFINE new == CHOOSE a \in Room : TRUE
    <3>1. new \in Accounts /\ status[new] = "none"
      BY <2>2, ChosenHasRoom DEF Room
    <3>2. status' = [status EXCEPT ![new] = "opening"]
      BY <1>1, <2>2 DEF Create, Ask
    <3> HIDE DEF new
    <3>3. \A a \in Accounts : status[a] = "ACTIVE" => status'[a] = "ACTIVE"
      BY <3>1, <3>2 DEF Typed, TypeOK
    <3>4. UNCHANGED <<inside, tag, opsRole, baseline, asked, granted>>
      BY <1>1 DEF Create, Ask
    <3> QED BY <3>3, <3>4, inside \subseteq Accounts DEF Grows, Members, Typed, TypeOK
  <2> QED BY <2>1, <2>2
<1>2. CASE CreationRejected(p)
  <2>1. \A a \in Accounts : status[a] = "ACTIVE" => status'[a] = "ACTIVE"
    BY <1>2 DEF CreationRejected, Typed, TypeOK
  <2>2. UNCHANGED <<inside, tag, opsRole, baseline, asked, granted>>
    BY <1>2 DEF CreationRejected
  <2> QED BY <2>1, <2>2, inside \subseteq Accounts DEF Grows, Members, Typed, TypeOK
<1>3. CASE TagScenario(p)
  <2>1. tag[account[p]] = Untagged
    BY <1>3 DEF TagScenario, UInv, Making, Early
  <2>2. \A a \in Accounts : tag[a] # Untagged => tag'[a] = tag[a]
    BY <1>3, <2>1 DEF TagScenario, Typed, TypeOK
  <2>3. UNCHANGED <<status, inside, opsRole, baseline, asked, granted>>
    BY <1>3 DEF TagScenario
  <2> QED BY <2>2, <2>3, inside \subseteq Accounts, ProvisioningAssumption
        DEF Grows, Members, Typed, TypeOK
<1>4. CASE Move(p) \/ OpsRole(p) \/ RequestQuotas(p) \/ Capture(p)
  BY <1>4 DEF Move, OpsRole, RequestQuotas, Capture, Grows, Members
<1>5. CASE UNCHANGED cloud
  BY <1>5, SameCloudGrows
<1>6. \/ Create(p) \/ CreationRejected(p) \/ TagScenario(p)
      \/ Move(p) \/ OpsRole(p) \/ RequestQuotas(p) \/ Capture(p)
      \/ UNCHANGED cloud
  BY DEF PairStep, Reuse, Refused, EmailInUse, Opened, PollTimesOut, TagSha,
         CreationFails, RoleReady, RoleFails, QuotasFail, CaptureFails
<1> QED BY <1>1, <1>2, <1>3, <1>4, <1>5, <1>6

(* Where nothing is taken, a pair that makes no step has what it had. *)
LEMMA AlongKept ==
  ASSUME Typed, NEW p \in Pairs, Along(p), Grows,
         at'[p] = at[p], account'[p] = account[p], submit'[p] = submit[p]
  PROVE  Along(p)'
<1>1. at[p] \in {"move", "tag"} => account[p] \in Accounts
  BY DEF Typed, HasAccount
<1> QED BY <1>1 DEF Along, Grows

(* A pair's own steps give its account what the new place asks for. *)
LEMMA AlongOwn ==
  ASSUME Typed, UInv, NEW p \in Pairs, Along(p), PairStep(p)
  PROVE  Along(p)'
<1> USE DEF Goes, Placed, Creating, Provisioning
<1>0. Grows
  BY PairGrows
<1>1. at[p] \notin {"queued", "failed", "limit"} => account[p] \in Accounts
  BY DEF Typed, HasAccount
<1>2. CASE Reuse(p)
  <2>1. Cardinality(Members(p)) = 1
    BY <1>2 DEF Reuse
  <2>2. Cardinality({}) = 0
    BY FS_EmptySet
  <2>3. Members(p) # {}
    <3> SUFFICES ASSUME Members(p) = {} PROVE FALSE
      OBVIOUS
    <3>1. Cardinality(Members(p)) = Cardinality({})
      OBVIOUS
    <3> QED BY <2>1, <2>2, <3>1
  <2>4. account'[p] = (CHOOSE a \in Members(p) : TRUE) /\ at'[p] = "created"
    BY <1>2 DEF Reuse, Typed, TypeOK
  <2>5. account'[p] \in Members(p)
    BY <2>3, <2>4, ChosenIsMember
  <2>6. account'[p] \in Members(p)'
    BY <1>0, <2>5 DEF Grows
  <2> QED BY <2>4, <2>6 DEF Along
<1>3. CASE Create(p)
  <2>1. at'[p] \in {"limit", "opening"}
    BY <1>3 DEF Create, Ask, Typed, TypeOK
  <2> QED BY <2>1 DEF Along
<1>4. CASE EmailInUse(p)
  BY <1>4, <1>0, AlongKept DEF EmailInUse
<1>5. CASE Refused(p) \/ CreationRejected(p) \/ PollTimesOut(p) \/ CreationFails(p)
           \/ RoleFails(p)
  <2>1. at'[p] = "failed"
    BY <1>5 DEF Refused, CreationRejected, PollTimesOut, CreationFails, RoleFails,
                Typed, TypeOK
  <2> QED BY <2>1 DEF Along
<1>6. CASE Opened(p)
  <2>1. at'[p] = "move" /\ status'[account'[p]] = "ACTIVE"
    BY <1>6 DEF Opened, cloud, Typed, TypeOK
  <2> QED BY <2>1 DEF Along
<1>7. CASE Move(p)
  <2>1. \/ at'[p] = "failed"
        \/ at'[p] = "tag" /\ status'[account'[p]] = "ACTIVE" /\ account'[p] \in inside'
    BY <1>7 DEF Move, Along, Typed, TypeOK
  <2> QED BY <2>1 DEF Along
<1>8. CASE TagScenario(p)
  <2>1. /\ at[p] = "tag" /\ at'[p] = "sha" /\ account'[p] = account[p]
        /\ tag'[account[p]] = p
        /\ UNCHANGED <<status, inside>>
    BY <1>8, <1>1 DEF TagScenario, Typed, TypeOK
  <2>2. account'[p] \in Members(p)'
    BY <2>1 DEF Along, Members
  <2> QED BY <2>1, <2>2 DEF Along
<1>9. CASE TagSha(p) \/ RoleReady(p)
  <2>1. /\ at[p] \in Placed /\ at'[p] \in {"created", "role", "failed"}
        /\ account'[p] = account[p]
    BY <1>9 DEF TagSha, RoleReady, Typed, TypeOK
  <2>2. account'[p] \in Members(p)'
    BY <2>1, <1>0 DEF Along, Grows
  <2> QED BY <2>1, <2>2 DEF Along
<1>10. CASE OpsRole(p)
  <2>1. /\ at[p] = "role" /\ account'[p] = account[p]
        /\ \/ at'[p] = "failed"
           \/ at'[p] = "quotas" /\ account[p] \in opsRole'
    BY <1>10 DEF OpsRole, Typed, TypeOK
  <2>2. account'[p] \in Members(p)'
    BY <2>1, <1>0 DEF Along, Grows
  <2> QED BY <2>1, <2>2 DEF Along
<1>11. CASE RequestQuotas(p)
  <2>1. /\ at[p] = "quotas" /\ at'[p] = "baseline" /\ account'[p] = account[p]
        /\ p \in WithQuotas => account[p] \in granted' \cup asked'
    BY <1>11 DEF RequestQuotas, Typed, TypeOK
  <2>2. account'[p] \in Members(p)' /\ account'[p] \in opsRole'
    BY <2>1, <1>0 DEF Along, Grows
  <2> QED BY <2>1, <2>2 DEF Along
<1>12. CASE QuotasFail(p)
  <2>1. /\ at[p] = "quotas" /\ at'[p] = "baseline" /\ account'[p] = account[p]
        /\ p \in WithQuotas => submit'[p] \in {"failed", "raised"}
    BY <1>12 DEF QuotasFail, Typed, TypeOK
  <2>2. account'[p] \in Members(p)' /\ account'[p] \in opsRole'
    BY <2>1, <1>0 DEF Along, Grows
  <2> QED BY <2>1, <2>2 DEF Along
<1>13. CASE Capture(p) \/ CaptureFails(p)
  <2>1. /\ at[p] = "baseline" /\ account'[p] = account[p] /\ submit' = submit
        /\ \/ at'[p] = "nosnapshot"
           \/ at'[p] = "done" /\ account[p] \in baseline'
    BY <1>13 DEF Capture, CaptureFails, Typed, TypeOK
  <2>2. account'[p] \in Members(p)' /\ account'[p] \in opsRole'
    BY <2>1, <1>0 DEF Along, Grows
  <2> QED BY <2>1, <2>2, <1>0 DEF Along, Grows
<1> QED BY <1>2, <1>3, <1>4, <1>5, <1>6, <1>7, <1>8, <1>9, <1>10, <1>11, <1>12, <1>13
      DEF PairStep

LEMMA PairProgress ==
  ASSUME Typed, UInv, Progress, NEW p \in Pairs, PairStep(p)
  PROVE  Progress'
<1>1. /\ phase' = phase /\ phase \in {"create", "provision"} /\ ou' = ou
      /\ disturbed' = disturbed
      /\ \A q \in Pairs \ {p} :
            at'[q] = at[q] /\ account'[q] = account[q] /\ submit'[q] = submit[q]
  <2>1. /\ phase' = phase /\ phase \in {"create", "provision"} /\ ou' = ou
        /\ disturbed' = disturbed
    BY DEF PairStep, Reuse, Refused, Create, Ask, EmailInUse, CreationRejected, Opened,
           PollTimesOut, Move, TagScenario, TagSha, CreationFails, RoleReady, OpsRole,
           RoleFails, RequestQuotas, QuotasFail, Capture, CaptureFails, Fault, counts
  <2>2. \A q \in Pairs \ {p} : account'[q] = account[q]
    BY DEF PairStep, Reuse, Refused, Create, Ask, EmailInUse, CreationRejected, Opened,
           PollTimesOut, Move, TagScenario, TagSha, CreationFails, RoleReady, OpsRole,
           RoleFails, RequestQuotas, QuotasFail, Capture, CaptureFails, Typed, TypeOK
  <2>3. \A q \in Pairs \ {p} : at'[q] = at[q]
    BY DEF PairStep, Reuse, Refused, Create, Ask, EmailInUse, CreationRejected, Opened,
           PollTimesOut, Move, TagScenario, TagSha, CreationFails, RoleReady, OpsRole,
           RoleFails, RequestQuotas, QuotasFail, Capture, CaptureFails, Goes, Typed, TypeOK
  <2>4. \A q \in Pairs \ {p} : submit'[q] = submit[q]
    BY DEF PairStep, Reuse, Refused, Create, Ask, EmailInUse, CreationRejected, Opened,
           PollTimesOut, Move, TagScenario, TagSha, CreationFails, RoleReady, OpsRole,
           RoleFails, RequestQuotas, QuotasFail, Capture, CaptureFails, Typed, TypeOK
  <2> QED BY <2>1, <2>2, <2>3, <2>4
<1> SUFFICES ASSUME ~disturbed, NEW q \in Pairs PROVE Along(q)'
  BY <1>1 DEF Progress
<1>2. Along(q)
  BY DEF Progress
<1>3. CASE q = p
  BY <1>2, <1>3, AlongOwn
<1>4. CASE q # p
  BY <1>1, <1>2, <1>4, PairGrows, AlongKept
<1> QED BY <1>3, <1>4

(* Steps of others that take nothing. *)
LEMMA AsideProgress ==
  ASSUME Typed, Progress, Grows, UNCHANGED <<ou, initVars, disturbed>>
  PROVE  Progress'
<1>1. UNCHANGED <<phase, waited, at, account, submit>>
  BY DEF initVars
<1>2. ASSUME NEW p \in Pairs, Along(p)
      PROVE  Along(p)'
  BY <1>1, <1>2, AlongKept
<1>3. ASSUME NEW p \in Pairs, Ready(p)
      PROVE  Ready(p)'
  <2>1. PICK a \in Members(p) :
          /\ a \in opsRole \cap baseline
          /\ p \in WithQuotas => a \in IF waited THEN granted ELSE granted \cup asked
    BY <1>3 DEF Ready
  <2>2. a \in Members(p)' /\ a \in opsRole' \cap baseline'
    BY <2>1 DEF Grows
  <2>3. p \in WithQuotas => a \in IF waited' THEN granted' ELSE granted' \cup asked'
    BY <2>1, <1>1 DEF Grows
  <2> QED BY <2>2, <2>3 DEF Ready
<1> QED BY <1>1, <1>2, <1>3 DEF Progress

LEMMA NothingKnown ==
  ASSUME NoResults, NEW p \in Pairs
  PROVE  Along(p)'
<1>1. at'[p] = "queued"
  BY DEF NoResults
<1> QED BY <1>1 DEF Along, Placed, Provisioning

(* The summaries: success is declared only over pairs that are done. *)
LEMMA RunProgress ==
  ASSUME Progress,
         \/ Begin \/ FindOU \/ AttachSCP \/ SetupFails
         \/ AllCreated \/ AllProvisioned \/ QuotasVerified \/ QuotaTimeout \/ KillInit
  PROVE  Progress'
<1> USE DEF GoesOn, Ends, Fails
<1>1. CASE Begin
  BY <1>1, NothingKnown DEF Begin, Progress
<1>2. CASE ~Begin
  <2>1. UNCHANGED cloud /\ disturbed' = disturbed
    BY <1>2 DEF FindOU, AttachSCP, SetupFails, AllCreated, AllProvisioned,
                QuotasVerified, QuotaTimeout, KillInit, Fault, counts
  <2>2. SUFFICES ASSUME ~disturbed
                 PROVE  /\ phase' \in {"create", "provision", "wait", "ok"}
                              => ou' = "protected"
                        /\ \A p \in Pairs : Along(p)'
                        /\ phase' = "ok" => \A p \in Pairs : Ready(p)'
    BY <2>1 DEF Progress
  <2>3. phase' \in {"create", "provision", "wait", "ok"} => ou' = "protected"
    BY <1>2, <2>2 DEF FindOU, AttachSCP, SetupFails, AllCreated, AllProvisioned,
                QuotasVerified, QuotaTimeout, KillInit, Progress
  <2>4. ASSUME NEW p \in Pairs
        PROVE  Along(p)'
    <3>1. CASE NoResults
      BY <3>1, NothingKnown
    <3>2. CASE UNCHANGED <<at, account, submit>>
      BY <3>2, <2>1, <2>2 DEF Progress, Along, Members, cloud
    <3>3. NoResults \/ UNCHANGED <<at, account, submit>>
      BY <1>2 DEF FindOU, AttachSCP, SetupFails, AllCreated, AllProvisioned,
                  QuotasVerified, QuotaTimeout, KillInit
    <3> QED BY <3>1, <3>2, <3>3
  <2>5. ASSUME phase' = "ok", NEW p \in Pairs
        PROVE  Ready(p)'
    <3>1. /\ Provisioned(p)
          /\ p \in WithQuotas =>
                IF waited' THEN account[p] \in granted ELSE submit[p] # "failed"
      <4>1. CASE AllProvisioned
        BY <4>1, <2>5 DEF AllProvisioned
      <4>2. CASE QuotasVerified
        BY <4>2, <2>5 DEF QuotasVerified, Provisioned
      <4>3. AllProvisioned \/ QuotasVerified
        BY <1>2, <2>5 DEF FindOU, AttachSCP, SetupFails, AllCreated, QuotaTimeout, KillInit
      <4> QED BY <4>1, <4>2, <4>3
    <3>2. /\ account[p] \in Members(p) /\ account[p] \in opsRole \cap baseline
          /\ p \in WithQuotas /\ ~waited' => account[p] \in granted \cup asked
      BY <3>1, <2>2 DEF Provisioned, Progress, Along, Placed
    <3>3. Members(p)' = Members(p)
      BY <2>1 DEF Members, cloud
    <3> QED BY <3>1, <3>2, <3>3, <2>1 DEF Ready, cloud
  <2> QED BY <2>3, <2>4, <2>5
<1> QED BY <1>1, <1>2

LEMMA ProgressInductive ==
  ASSUME Typed, UInv, Progress, [Next]_vars
  PROVE  Progress'
<1>1. CASE \/ Begin \/ FindOU \/ AttachSCP \/ SetupFails
           \/ AllCreated \/ AllProvisioned \/ QuotasVerified \/ QuotaTimeout \/ KillInit
  BY <1>1, RunProgress
<1>2. ASSUME NEW p \in Pairs, PairStep(p)
      PROVE  Progress'
  BY <1>2, PairProgress
<1>3. CASE TakesOut
  <2>1. disturbed'
    BY <1>3 DEF TakesOut, Close, Untag, MoveToRoot, Disturbs
  <2> QED BY <2>1 DEF Progress
<1>4. CASE Strip \/ Drop
  <2>1. CASE disturbed'
    BY <2>1 DEF Progress
  <2>2. CASE ~disturbed'
    <3>1. UNCHANGED <<ou, cloud, initVars, disturbed>>
      BY <1>4, <2>2 DEF Strip, Drop, Disturbs, Fault, counts
    <3> QED BY <3>1, SameCloudGrows, AsideProgress
  <2> QED BY <2>1, <2>2
<1>5. CASE \/ List \/ Confirm \/ Decline \/ Worked \/ KillTerminate
           \/ UNCHANGED vars \/ \E a \in Accounts : AccountFails(a)
  <2>1. UNCHANGED <<ou, cloud, initVars, disturbed>>
    BY <1>5 DEF List, Confirm, Decline, Worked, KillTerminate, AccountFails, vars,
                Fault, counts
  <2> QED BY <2>1, SameCloudGrows, AsideProgress
<1>6. ASSUME NEW a \in Accounts, Opens(a) \/ Grants(a)
      PROVE  Progress'
  <2>1. UNCHANGED <<ou, initVars, disturbed>>
    BY <1>6 DEF Opens, Grants, counts
  <2>2. CASE Opens(a)
    <3>1. /\ \A b \in Accounts : status[b] = "ACTIVE" => status'[b] = "ACTIVE"
          /\ UNCHANGED <<inside, tag, opsRole, baseline, asked, granted>>
      BY <2>2 DEF Opens, Typed, TypeOK
    <3>2. Grows
      BY <3>1, inside \subseteq Accounts DEF Grows, Members, Typed, TypeOK
    <3> QED BY <2>1, <3>2, AsideProgress
  <2>3. CASE Grants(a)
    <3>1. Grows
      BY <2>3 DEF Grants, Grows, Members
    <3> QED BY <2>1, <3>1, AsideProgress
  <2> QED BY <1>6, <2>2, <2>3
<1> QED BY StepCases, <1>1, <1>2, <1>3, <1>4, <1>5, <1>6 DEF PairStep, TakesOut

(* An init that exits with success, no terminate having interfered, leaves *)
(* every pair ready to be set up (ProvisioningSummary.all_succeeded,       *)
(* provisioning.py:193).                                                   *)
THEOREM SuccessLeavesReady == Spec => []SuccessMeansReady
<1>1. Init => Typed /\ UInv /\ Progress
  <2> SUFFICES ASSUME Init PROVE UInv /\ Progress
    BY InitialTyped
  <2>1. UInv
    BY DEF Init, UInv, Unopened, Making, Apart, Unique, Members, Early
  <2>2. Progress
    BY DEF Init, Progress, Along, Placed, Provisioning
  <2> QED BY <2>1, <2>2
<1>2. Typed /\ UInv /\ Progress /\ [Next]_vars => (Typed /\ UInv /\ Progress)'
  BY TypingInductive, UInvInductive, ProgressInductive
<1>3. Progress => SuccessMeansReady
  BY DEF Progress, SuccessMeansReady
<1> QED BY <1>1, <1>2, <1>3, PTL DEF Spec
=============================================================================
