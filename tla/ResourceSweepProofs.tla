------------------------- MODULE ResourceSweepProofs -------------------------
(***************************************************************************)
(* Proofs about ResourceSweep for any resources, levels, handlers,         *)
(* dependencies and faults.                                                *)
(***************************************************************************)
EXTENDS ResourceSweep, TLAPS

LEMMA StepCases ==
  ASSUME [Next]_vars
  PROVE  \/ Prepared \/ Filter \/ Submitted \/ Polled \/ TimesOut \/ Shutdown
         \/ \E i \in Items :
              \/ Goes(i) \/ Stays(i) \/ Prepare(i)
              \/ Fails(i) \/ DeletesAtOnce(i) \/ Defers(i) \/ Accepted(i) \/ Misreads(i)
              \/ AlreadyDeleting(i) \/ DeletesAndWaits(i) \/ Waits(i)
              \/ Accepts(i) \/ AlreadyHandled(i) \/ Rejects(i)
              \/ Succeeded(i) \/ Failed(i) \/ StatusUnknown(i)
         \/ UNCHANGED vars
BY DEF Next, Cloud, Sweep

-----------------------------------------------------------------------------
(* Types *)

Deleter == {"submit", "poll", "done"}

LEMMA BatchTyped ==
  ASSUME NEW set \in SUBSET Items
  PROVE  Batch(set) \subseteq set
BY DEF Batch

LEMMA TakesTyped ==
  ASSUME NEW set \in SUBSET Items, Takes(set)
  PROVE  /\ remaining' \subseteq Items /\ todo' \subseteq Items /\ queue' \subseteq Items
         /\ pass' \in {1, 2} /\ phase' \in {"submit", "done"}
BY BatchTyped DEF Takes

LEMMA EndPassTyped ==
  ASSUME TypeOK,
         NEW left \in SUBSET Items, NEW bad \in SUBSET Items, EndPass(left, bad)
  PROVE  /\ remaining' \subseteq Items /\ todo' \subseteq Items /\ queue' \subseteq Items
         /\ pass' \in {1, 2} /\ phase' \in {"submit", "done"}
         /\ tokens' \subseteq Items /\ failed' \subseteq Items /\ failures' \subseteq Items
<1>1. CASE pass < Passes /\ left # {}
  BY <1>1 DEF EndPass, Passes, TypeOK
<1>2. CASE ~(pass < Passes /\ left # {})
  <2>1. Takes(queue) /\ queue \in SUBSET Items
    BY <1>2 DEF EndPass, TypeOK
  <2> QED BY <1>2, <2>1, TakesTyped DEF EndPass, TypeOK
<1> QED BY <1>1, <1>2

LEMMA VerdictTyped ==
  ASSUME TypeOK, NEW i \in Items,
         NEW what \in {"none", "running", "ok", "failed"}, Settle(i, what)
  PROVE  verdict' \in [Items -> {"none", "running", "ok", "failed"}]
BY DEF Settle, TypeOK

(* What has a handler is there, and nobody is at it, until the handler, or *)
(* the prepare step, takes it up.                                          *)
Untouched ==
  /\ phase = "prepare" => todo \subseteq By("environment") /\ todo \subseteq live \ deleting
  /\ \A i \in Items \ (By("cloud control") \cup By("environment")) :
       phase = "prepare" \/ (phase = "custom" /\ i \in todo) => i \in live \ deleting

Typed == TypeOK /\ Untouched

LEMMA TypingInductive ==
  ASSUME Typed, [Next]_vars
  PROVE  TypeOK'
<1> USE DEF Typed
<1>1. ASSUME NEW i \in Items, Goes(i) \/ Stays(i)
      PROVE  TypeOK'
  <2>1. verdict' \in [Items -> {"none", "running", "ok", "failed"}]
    BY <1>1, VerdictTyped DEF Goes, Stays
  <2>2. live' \subseteq Items /\ deleting' \subseteq live' /\ struck' \subseteq Items
    BY <1>1 DEF Goes, Stays, Strike, TypeOK
  <2> QED BY <1>1, <2>1, <2>2 DEF Goes, Stays, TypeOK, batch
<1>2. CASE Prepared \/ Submitted \/ Shutdown \/ UNCHANGED vars
  BY <1>2 DEF Prepared, Submitted, Shutdown, vars, cloud, batch, TypeOK
<1>3. CASE Filter
  <2>1. PICK set \in SUBSET Items : Takes(set)
    BY <1>3 DEF Filter, By
  <2> QED BY <1>3, <2>1, TakesTyped DEF Filter, TypeOK, cloud
<1>4. CASE Polled
  <2>1. EndPass(remaining, failed)
    BY <1>4 DEF Polled
  <2> QED BY <1>4, <2>1, EndPassTyped DEF Polled, TypeOK, cloud
<1>5. CASE TimesOut
  <2>1. EndPass(remaining \ tokens, failed \ tokens)
    BY <1>5 DEF TimesOut
  <2>2. remaining \ tokens \in SUBSET Items /\ failed \ tokens \in SUBSET Items
    BY DEF TypeOK
  <2> QED BY <1>5, <2>1, <2>2, EndPassTyped DEF TimesOut, TypeOK, cloud
<1>6. ASSUME NEW i \in Items,
             \/ Fails(i) \/ Defers(i) \/ Misreads(i) \/ AlreadyDeleting(i) \/ Waits(i)
      PROVE  TypeOK'
  BY <1>6 DEF Fails, Defers, Misreads, AlreadyDeleting, Waits, Handles, Strike,
       TypeOK, cloud, batch
<1>7. ASSUME NEW i \in Items, Prepare(i)
      PROVE  TypeOK'
  BY <1>7 DEF Prepare, Strike, Untouched, TypeOK, batch
<1>8. ASSUME NEW i \in Items, Accepted(i) \/ DeletesAndWaits(i) \/ DeletesAtOnce(i)
      PROVE  TypeOK'
  <2>1. i \in todo /\ phase = "custom"
    BY <1>8 DEF Accepted, DeletesAndWaits, DeletesAtOnce, Handles
  <2>2. Handler[i] \in {"service", "replicated", "instance"} => i \in live \ deleting
    BY <2>1 DEF Untouched, By
  <2>3. CASE Accepted(i)
    BY <2>2, <2>3 DEF Accepted, Handles, TypeOK, batch
  <2>4. CASE DeletesAndWaits(i)
    BY <2>4 DEF DeletesAndWaits, Handles, TypeOK, batch
  <2>5. CASE DeletesAtOnce(i)
    BY <2>2, <2>5 DEF DeletesAtOnce, Handles, TypeOK, batch
  <2> QED BY <1>8, <2>3, <2>4, <2>5
<1>9. ASSUME NEW i \in Items, Accepts(i) \/ AlreadyHandled(i) \/ Rejects(i)
      PROVE  TypeOK'
  BY <1>9 DEF Accepts, AlreadyHandled, Rejects, Submit, Strike, TypeOK
<1>10. ASSUME NEW i \in Items, Succeeded(i) \/ Failed(i) \/ StatusUnknown(i)
       PROVE  TypeOK'
  BY <1>10 DEF Succeeded, Failed, StatusUnknown, Polls, Strike, TypeOK, cloud
<1> QED BY StepCases, <1>1, <1>2, <1>3, <1>4, <1>5, <1>6, <1>7, <1>8, <1>9, <1>10

LEMMA EndPassLeaves ==
  ASSUME NEW left, NEW bad, EndPass(left, bad)
  PROVE  phase' \in {"submit", "done"}
BY DEF EndPass, Takes

LEMMA UntouchedInductive ==
  ASSUME Typed, [Next]_vars
  PROVE  Untouched'
<1> USE DEF Typed
<1>1. ASSUME NEW i \in Items, Goes(i) \/ Stays(i)
      PROVE  Untouched'
  BY <1>1 DEF Goes, Stays, Untouched, By
<1>2. CASE Prepared \/ Submitted \/ Shutdown \/ UNCHANGED vars
  BY <1>2 DEF Prepared, Submitted, Shutdown, vars, cloud, Untouched, By
<1>3. CASE Filter \/ Polled \/ TimesOut
  <2>1. phase' \in {"submit", "done"}
    BY <1>3, EndPassLeaves DEF Filter, Takes, Polled, TimesOut
  <2> QED BY <2>1 DEF Untouched
<1>4. ASSUME NEW i \in Items, Prepare(i)
      PROVE  Untouched'
  BY <1>4 DEF Prepare, Untouched, By
<1>5. ASSUME NEW i \in Items,
             \/ Fails(i) \/ Defers(i) \/ Misreads(i) \/ AlreadyDeleting(i)
             \/ Accepted(i) \/ DeletesAndWaits(i) \/ DeletesAtOnce(i)
      PROVE  Untouched'
  <2>1. /\ phase = "custom" /\ phase' = phase /\ todo' = todo \ {i}
        /\ live \ {i} \subseteq live' /\ deleting' \subseteq deleting \cup {i}
    BY <1>5 DEF Fails, Defers, Misreads, AlreadyDeleting, Accepted, DeletesAndWaits,
         DeletesAtOnce, Handles
  <2> QED BY <2>1 DEF Untouched, By
<1>6. ASSUME NEW i \in Items, Waits(i)
      PROVE  Untouched'
  BY <1>6 DEF Waits, cloud, Untouched, By
<1>7. ASSUME NEW i \in Items, Accepts(i) \/ AlreadyHandled(i) \/ Rejects(i)
      PROVE  Untouched'
  BY <1>7 DEF Accepts, AlreadyHandled, Rejects, Submit, Untouched
<1>8. ASSUME NEW i \in Items, Succeeded(i) \/ Failed(i) \/ StatusUnknown(i)
      PROVE  Untouched'
  BY <1>8 DEF Succeeded, Failed, StatusUnknown, Polls, Untouched
<1> QED BY StepCases, <1>1, <1>2, <1>3, <1>4, <1>5, <1>6, <1>7, <1>8

LEMMA InitialTyped == Init => Typed
BY SweepAssumption DEF Init, Typed, TypeOK, Untouched, By

(* Every variable keeps its type: only what is live is being deleted, and  *)
(* a batch is gone through at most twice (_PASSES_PER_BATCH).              *)
THEOREM SweepTypesCorrect == Spec => []TypeOK
<1>1. Typed /\ [Next]_vars => Typed'
  BY TypingInductive, UntouchedInductive DEF Typed
<1>2. Typed => TypeOK
  BY DEF Typed
<1> QED BY <1>1, <1>2, InitialTyped, PTL DEF Spec

-----------------------------------------------------------------------------
(* What the sweep need not answer for stays so. *)

Excused == failures \cup deferred \cup Excluded \cup Unfollowed

LEMMA ExcusedStays ==
  ASSUME Typed, [Next]_vars
  PROVE  Excused \subseteq Excused'
<1>1. /\ failures \subseteq failures' /\ deferred \subseteq deferred'
      /\ foreign' = foreign /\ struck \subseteq struck'
  <2>1. CASE \/ Prepared \/ Filter \/ Submitted \/ Polled \/ TimesOut \/ Shutdown
             \/ UNCHANGED vars
    BY <2>1 DEF Prepared, Filter, Submitted, Polled, TimesOut, Shutdown, EndPass, vars
  <2>2. ASSUME NEW i \in Items,
               \/ Goes(i) \/ Stays(i) \/ Prepare(i) \/ Waits(i)
               \/ Accepts(i) \/ AlreadyHandled(i) \/ Rejects(i)
               \/ Succeeded(i) \/ Failed(i) \/ StatusUnknown(i)
        PROVE  /\ failures \subseteq failures' /\ deferred \subseteq deferred'
               /\ foreign' = foreign /\ struck \subseteq struck'
    BY <2>2 DEF Goes, Stays, Prepare, Waits, Accepts, AlreadyHandled, Rejects, Submit,
         Succeeded, Failed, StatusUnknown, Polls, Strike
  <2>3. ASSUME NEW i \in Items,
               \/ Fails(i) \/ DeletesAtOnce(i) \/ Defers(i) \/ Accepted(i) \/ Misreads(i)
               \/ AlreadyDeleting(i) \/ DeletesAndWaits(i)
        PROVE  /\ failures \subseteq failures' /\ deferred \subseteq deferred'
               /\ foreign' = foreign /\ struck \subseteq struck'
    BY <2>3 DEF Fails, DeletesAtOnce, Defers, Accepted, Misreads, AlreadyDeleting,
         DeletesAndWaits, Handles, Strike
  <2> QED BY StepCases, <2>1, <2>2, <2>3
<1> QED BY <1>1 DEF Excused, Unfollowed, By

LEMMA LiveShrinks ==
  ASSUME Typed, [Next]_vars
  PROVE  live' \subseteq live
<1>1. CASE \/ Prepared \/ Filter \/ Submitted \/ Polled \/ TimesOut \/ Shutdown
           \/ UNCHANGED vars
  BY <1>1 DEF Prepared, Filter, Submitted, Polled, TimesOut, Shutdown, vars, cloud
<1>2. ASSUME NEW i \in Items,
             \/ Goes(i) \/ Stays(i) \/ Prepare(i) \/ Waits(i)
             \/ Accepts(i) \/ AlreadyHandled(i) \/ Rejects(i)
             \/ Succeeded(i) \/ Failed(i) \/ StatusUnknown(i)
      PROVE  live' \subseteq live
  BY <1>2 DEF Goes, Stays, Prepare, Waits, Accepts, AlreadyHandled, Rejects, Submit,
       Succeeded, Failed, StatusUnknown, Polls, cloud
<1>3. ASSUME NEW i \in Items,
             \/ Fails(i) \/ DeletesAtOnce(i) \/ Defers(i) \/ Accepted(i) \/ Misreads(i)
             \/ AlreadyDeleting(i) \/ DeletesAndWaits(i)
      PROVE  live' \subseteq live
  BY <1>3 DEF Fails, DeletesAtOnce, Defers, Accepted, Misreads, AlreadyDeleting,
       DeletesAndWaits
<1> QED BY StepCases, <1>1, <1>2, <1>3

-----------------------------------------------------------------------------
(* What has a handler: until its turn it is in todo, then somebody waits   *)
(* for it, or it is gone or excused.                                       *)

HandlersTold ==
  /\ phase \in Deleter => waiting = {}
  /\ phase \in {"custom"} \cup Deleter =>
       \A i \in live \ (By("cloud control") \cup Excused) :
         phase = "custom" /\ i \in todo \cup waiting

LEMMA HandlersToldInductive ==
  ASSUME Typed, HandlersTold, [Next]_vars
  PROVE  HandlersTold'
<1> USE DEF Deleter
<1>1. live' \subseteq live /\ Excused \subseteq Excused'
  BY LiveShrinks, ExcusedStays
<1>2. By("cloud control")' = By("cloud control")
  BY DEF By
<1>3. ASSUME NEW i \in Items, Goes(i) \/ Stays(i) \/ Prepare(i)
      PROVE  HandlersTold'
  <2>1. UNCHANGED <<phase, waiting>> /\ (phase = "prepare" \/ todo' = todo)
    BY <1>3 DEF Goes, Stays, Prepare
  <2> QED BY <1>1, <1>2, <2>1 DEF HandlersTold
<1>4. CASE Prepared
  BY <1>4 DEF Prepared, HandlersTold, Typed, TypeOK, cloud
<1>5. CASE Filter
  <2>1. /\ waiting = {} /\ waiting' = {} /\ todo = {} /\ phase = "custom"
        /\ phase' \in {"submit", "done"}
    BY <1>5 DEF Filter, Takes
  <2> QED BY <1>1, <1>2, <2>1 DEF HandlersTold
<1>6. CASE Submitted \/ Polled \/ TimesOut
  <2>1. phase \in Deleter /\ phase' \in Deleter /\ waiting' = waiting
    BY <1>6, EndPassLeaves DEF Submitted, Polled, TimesOut
  <2> QED BY <1>1, <1>2, <2>1 DEF HandlersTold
<1>7. CASE Shutdown
  BY <1>7 DEF Shutdown, HandlersTold
<1>8. CASE UNCHANGED vars
  BY <1>1, <1>2, <1>8 DEF vars, cloud, HandlersTold
<1>9. ASSUME NEW i \in Items,
             \/ Fails(i) \/ DeletesAtOnce(i) \/ Defers(i) \/ Accepted(i) \/ Misreads(i)
             \/ AlreadyDeleting(i) \/ DeletesAndWaits(i)
      PROVE  HandlersTold'
  <2>1. /\ phase = "custom" /\ phase' = "custom" /\ todo' = todo \ {i}
        /\ waiting \subseteq waiting'
    BY <1>9 DEF Fails, DeletesAtOnce, Defers, Accepted, Misreads, AlreadyDeleting,
         DeletesAndWaits, Handles
  <2>2. i \in Excused' \/ i \notin live' \/ i \in waiting'
    BY <1>9 DEF Fails, DeletesAtOnce, Defers, Accepted, Misreads, AlreadyDeleting,
         DeletesAndWaits, Excused, Unfollowed, By, Strike
  <2> QED BY <1>1, <1>2, <2>1, <2>2 DEF HandlersTold
<1>10. ASSUME NEW i \in Items, Waits(i)
       PROVE  HandlersTold'
  <2>1. UNCHANGED <<phase, todo>> /\ waiting' = waiting \ {i} /\ i \in waiting
    BY <1>10 DEF Waits
  <2>2. i \in Excused' \/ i \notin live'
    BY <1>10 DEF Waits, cloud, Excused
  <2> QED BY <1>1, <1>2, <2>1, <2>2 DEF HandlersTold
<1>11. ASSUME NEW i \in Items,
              \/ Accepts(i) \/ AlreadyHandled(i) \/ Rejects(i)
              \/ Succeeded(i) \/ Failed(i) \/ StatusUnknown(i)
       PROVE  HandlersTold'
  <2>1. phase \in Deleter /\ phase' = phase /\ waiting' = waiting
    BY <1>11 DEF Accepts, AlreadyHandled, Rejects, Submit,
         Succeeded, Failed, StatusUnknown, Polls
  <2> QED BY <1>1, <1>2, <2>1 DEF HandlersTold
<1> QED BY StepCases, <1>3, <1>4, <1>5, <1>6, <1>7, <1>8, <1>9, <1>10, <1>11

-----------------------------------------------------------------------------
(* What is left to Cloud Control: it waits in the queue, for its request   *)
(* to be submitted or for the request to end, or has failed; and a         *)
(* deletion the deleter began stays on record.                             *)

OkMeansGone == \A i \in Items : verdict[i] = "ok" => i \notin live

Emptied ==
  /\ phase \in {"prepare", "custom"} => tokens = {} /\ failed = {}
  /\ phase = "poll" => todo = {}
  /\ phase = "done" => queue = {} /\ todo = {} /\ tokens = {} /\ failed = {}

OnRecord ==
  /\ \A i \in deleting \cap By("cloud control") :
       i \in foreign \cup tokens \cup failed \cup failures
  /\ phase \in Deleter =>
       \A i \in (live \cap By("cloud control")) \ Excused :
         i \in queue \cup todo \cup tokens \cup failed

LEMMA OkMeansGoneInductive ==
  ASSUME Typed, OkMeansGone, [Next]_vars
  PROVE  OkMeansGone'
<1>1. live' \subseteq live
  BY LiveShrinks
<1>2. ASSUME NEW i \in Items, Goes(i) \/ Stays(i) \/ Accepts(i)
      PROVE  OkMeansGone'
  <2>1. \A j \in Items \ {i} : verdict'[j] = verdict[j]
    BY <1>2 DEF Goes, Stays, Accepts, Settle, Typed, TypeOK
  <2>2. verdict'[i] = "ok" => i \notin live' \/ verdict[i] = "ok"
    BY <1>2 DEF Goes, Stays, Accepts, Settle, Typed, TypeOK
  <2> QED BY <1>1, <2>1, <2>2 DEF OkMeansGone
<1>3. CASE \/ Prepared \/ Filter \/ Submitted \/ Polled \/ TimesOut \/ Shutdown
           \/ UNCHANGED vars
  BY <1>3 DEF Prepared, Filter, Submitted, Polled, TimesOut, Shutdown, vars, cloud, OkMeansGone
<1>4. ASSUME NEW i \in Items,
             \/ Prepare(i) \/ Waits(i) \/ AlreadyHandled(i) \/ Rejects(i)
             \/ Succeeded(i) \/ Failed(i) \/ StatusUnknown(i)
      PROVE  OkMeansGone'
  BY <1>1, <1>4 DEF Prepare, Waits, AlreadyHandled, Rejects, Submit,
       Succeeded, Failed, StatusUnknown, Polls, cloud, OkMeansGone
<1>5. ASSUME NEW i \in Items,
             \/ Fails(i) \/ DeletesAtOnce(i) \/ Defers(i) \/ Accepted(i) \/ Misreads(i)
             \/ AlreadyDeleting(i) \/ DeletesAndWaits(i)
      PROVE  OkMeansGone'
  BY <1>1, <1>5 DEF Fails, DeletesAtOnce, Defers, Accepted, Misreads, AlreadyDeleting,
       DeletesAndWaits, Handles, OkMeansGone
<1> QED BY StepCases, <1>2, <1>3, <1>4, <1>5

LEMMA TakesAll ==
  ASSUME NEW set, Takes(set)
  PROVE  /\ set = queue' \cup todo' /\ todo' = Batch(set) /\ remaining' = Batch(set)
         /\ queue' = set \ Batch(set)
         /\ phase' = "submit" \/ (phase' = "done" /\ queue' = {} /\ todo' = {})
BY DEF Takes, Batch

(* The end of a pass loses nothing that is pending or has failed. *)
LEMMA EndPassKeeps ==
  ASSUME NEW left, NEW bad, EndPass(left, bad)
  PROVE  /\ queue \subseteq queue' \cup todo'
         /\ bad \cup tokens \subseteq tokens' \cup failed' \cup failures'
         /\ \/ phase' = "submit"
            \/ phase' = "done" /\ queue' = {} /\ todo' = {} /\ tokens' = {} /\ failed' = {}
<1>1. CASE pass < Passes /\ left # {}
  BY <1>1 DEF EndPass
<1>2. CASE ~(pass < Passes /\ left # {})
  BY <1>2, TakesAll DEF EndPass
<1> QED BY <1>1, <1>2

LEMMA EmptiedInductive ==
  ASSUME Emptied, [Next]_vars
  PROVE  Emptied'
<1>1. CASE Filter
  <2>1. tokens' = {} /\ failed' = {}
    BY <1>1 DEF Filter, Emptied
  <2>2. phase' = "submit" \/ (phase' = "done" /\ queue' = {} /\ todo' = {})
    BY <1>1, TakesAll DEF Filter
  <2> QED BY <2>1, <2>2 DEF Emptied
<1>2. CASE Polled \/ TimesOut
  <2>1. \/ phase' = "submit"
        \/ phase' = "done" /\ queue' = {} /\ todo' = {} /\ tokens' = {} /\ failed' = {}
    BY <1>2, EndPassKeeps DEF Polled, TimesOut
  <2> QED BY <2>1 DEF Emptied
<1>3. CASE Prepared \/ Submitted \/ Shutdown \/ UNCHANGED vars
  BY <1>3 DEF Prepared, Submitted, Shutdown, vars, batch, Emptied
<1>4. ASSUME NEW i \in Items,
             \/ Goes(i) \/ Stays(i) \/ Prepare(i) \/ Waits(i)
             \/ AlreadyHandled(i) \/ Accepts(i) \/ Rejects(i)
             \/ Succeeded(i) \/ Failed(i) \/ StatusUnknown(i)
      PROVE  Emptied'
  BY <1>4 DEF Goes, Stays, Prepare, Waits, AlreadyHandled, Accepts, Rejects, Submit,
       Succeeded, Failed, StatusUnknown, Polls, batch, Emptied
<1>5. ASSUME NEW i \in Items,
             \/ Fails(i) \/ DeletesAtOnce(i) \/ Defers(i) \/ Accepted(i) \/ Misreads(i)
             \/ AlreadyDeleting(i) \/ DeletesAndWaits(i)
      PROVE  Emptied'
  BY <1>5 DEF Fails, DeletesAtOnce, Defers, Accepted, Misreads, AlreadyDeleting,
       DeletesAndWaits, Handles, batch, Emptied
<1> QED BY StepCases, <1>1, <1>2, <1>3, <1>4, <1>5

LEMMA OnRecordInductive ==
  ASSUME Typed, OkMeansGone, Emptied, OnRecord, [Next]_vars
  PROVE  OnRecord'
<1> USE DEF Deleter
<1>1. live' \subseteq live /\ Excused \subseteq Excused'
  BY LiveShrinks, ExcusedStays
<1>2. By("cloud control")' = By("cloud control")
  BY DEF By
<1>3. ASSUME NEW i \in Items, Goes(i) \/ Stays(i)
      PROVE  OnRecord'
  <2>1. deleting' \subseteq deleting /\ UNCHANGED <<foreign, phase, todo, batch, failures>>
    BY <1>3 DEF Goes, Stays
  <2> QED BY <1>1, <1>2, <2>1 DEF OnRecord, batch
<1>4. CASE Prepared \/ Submitted \/ Shutdown \/ UNCHANGED vars
  <2>1. UNCHANGED <<deleting, foreign, batch, failures>>
    BY <1>4 DEF Prepared, Submitted, Shutdown, vars, cloud
  <2>2. phase' \in Deleter => phase \in Deleter /\ todo' = todo
    BY <1>4 DEF Prepared, Submitted, Shutdown, vars
  <2> QED BY <1>1, <1>2, <2>1, <2>2 DEF OnRecord, batch
<1>5. CASE Filter
  <2>1. UNCHANGED <<deleting, foreign, tokens, failed, failures>>
    BY <1>5 DEF Filter, cloud
  <2>2. (live \cap By("cloud control")) \ Excused \subseteq queue' \cup todo'
    <3>1. PICK unverified :
            Takes((By("cloud control") \ Excluded) \cap (live \cup unverified))
      BY <1>5 DEF Filter
    <3>2. (By("cloud control") \ Excluded) \cap (live \cup unverified) = queue' \cup todo'
      BY <3>1, TakesAll
    <3> QED BY <3>2 DEF Excused
  <2> QED BY <1>1, <1>2, <2>1, <2>2 DEF OnRecord
<1>6. CASE Polled \/ TimesOut
  <2>1. UNCHANGED <<deleting, foreign>> /\ todo = {}
    BY <1>6 DEF Polled, TimesOut, cloud, Emptied
  <2>2. /\ queue \subseteq queue' \cup todo'
        /\ tokens \cup failed \subseteq tokens' \cup failed' \cup failures'
    <3>1. CASE Polled
      BY <3>1, EndPassKeeps DEF Polled
    <3>2. CASE TimesOut
      BY <3>2, EndPassKeeps DEF TimesOut
    <3> QED BY <1>6, <3>1, <3>2
  <2>3. failures \subseteq Excused /\ failures' \subseteq Excused' /\ failures \subseteq failures'
    BY <1>6 DEF Polled, TimesOut, EndPass, Excused
  <2>4. phase \in Deleter
    BY <1>6 DEF Polled, TimesOut
  <2> QED BY <1>1, <1>2, <2>1, <2>2, <2>3, <2>4 DEF OnRecord
<1>7. ASSUME NEW i \in Items,
             \/ Prepare(i)
             \/ Fails(i) \/ DeletesAtOnce(i) \/ Defers(i) \/ Accepted(i) \/ Misreads(i)
             \/ AlreadyDeleting(i) \/ DeletesAndWaits(i)
      PROVE  OnRecord'
  <2>1. deleting' \cap By("cloud control") \subseteq deleting
    <3>1. deleting' \subseteq deleting \cup (Items \ By("cloud control"))
      <4>1. CASE Prepare(i)
        BY <4>1 DEF Prepare, By, Typed, Untouched
      <4>2. CASE Accepted(i) \/ DeletesAndWaits(i)
        <5>1. deleting' = deleting \cup {i} /\ i \in Items
          BY <4>2 DEF Accepted, DeletesAndWaits
        <5>2. Handler[i] # "cloud control"
          BY <4>2 DEF Accepted, DeletesAndWaits
        <5>3. i \notin By("cloud control")
          BY <5>2 DEF By
        <5> QED BY <5>1, <5>3
      <4>3. CASE Fails(i) \/ DeletesAtOnce(i) \/ Defers(i) \/ Misreads(i) \/ AlreadyDeleting(i)
        BY <4>3 DEF Fails, DeletesAtOnce, Defers, Misreads, AlreadyDeleting
      <4> QED BY <1>7, <4>1, <4>2, <4>3
    <3> QED BY <3>1
  <2>2. /\ UNCHANGED <<foreign, batch>> /\ failures \subseteq failures'
        /\ phase' \notin Deleter
    BY <1>7 DEF Prepare, Fails, DeletesAtOnce, Defers, Accepted, Misreads, AlreadyDeleting,
         DeletesAndWaits, Handles
  <2> QED BY <1>2, <2>1, <2>2 DEF OnRecord, batch
<1>8. ASSUME NEW i \in Items, Waits(i)
      PROVE  OnRecord'
  <2>1. UNCHANGED <<deleting, foreign, phase, todo, batch>> /\ failures \subseteq failures'
    BY <1>8 DEF Waits, cloud
  <2> QED BY <1>1, <1>2, <2>1 DEF OnRecord, batch
<1>9. ASSUME NEW i \in Items, Accepts(i)
      PROVE  OnRecord'
  <2>1. /\ deleting' = deleting \cup {i} /\ tokens' = tokens \cup {i} /\ todo' = todo \ {i}
        /\ UNCHANGED <<foreign, phase, queue, failed, failures>>
    BY <1>9 DEF Accepts, Submit
  <2> QED BY <1>1, <1>2, <2>1 DEF OnRecord
<1>10. ASSUME NEW i \in Items, AlreadyHandled(i)
       PROVE  OnRecord'
  <2>1. /\ todo' = todo \ {i}
        /\ i \notin live \/ i \in deleting
        /\ UNCHANGED <<deleting, foreign, phase, queue, tokens, failed, failures>>
    BY <1>10 DEF AlreadyHandled, Submit
  <2>2. i \in live' /\ i \in By("cloud control") => i \in Excused \/ i \in tokens \cup failed
    <3>1. failures \cup foreign \subseteq Excused
      BY DEF Excused, Unfollowed
    <3>2. i \in deleting /\ i \in By("cloud control") =>
            i \in foreign \cup tokens \cup failed \cup failures
      BY DEF OnRecord
    <3> QED BY <1>1, <2>1, <3>1, <3>2
  <2> QED BY <1>1, <1>2, <2>1, <2>2 DEF OnRecord
<1>11. ASSUME NEW i \in Items, Rejects(i)
       PROVE  OnRecord'
  <2>1. /\ todo' = todo \ {i} /\ failed' = failed \cup {i}
        /\ UNCHANGED <<deleting, foreign, phase, queue, tokens, failures>>
    BY <1>11 DEF Rejects, Submit
  <2> QED BY <1>1, <1>2, <2>1 DEF OnRecord
<1>12. ASSUME NEW i \in Items, Succeeded(i)
       PROVE  OnRecord'
  <2>1. /\ tokens' = tokens \ {i} /\ failed' = failed \ {i}
        /\ UNCHANGED <<deleting, live, foreign, phase, queue, todo, failures>>
    BY <1>12 DEF Succeeded, Polls, cloud
  <2>2. i \notin live /\ i \notin deleting
    BY <1>12 DEF Succeeded, OkMeansGone, Typed, TypeOK
  <2> QED BY <1>1, <1>2, <2>1, <2>2 DEF OnRecord
<1>13. ASSUME NEW i \in Items, Failed(i) \/ StatusUnknown(i)
       PROVE  OnRecord'
  <2>1. /\ tokens' = tokens \ {i} /\ failed' = failed \cup {i}
        /\ UNCHANGED <<deleting, foreign, phase, queue, todo, failures>>
    BY <1>13 DEF Failed, StatusUnknown, Polls, cloud
  <2> QED BY <1>1, <1>2, <2>1 DEF OnRecord
<1> QED BY StepCases, <1>3, <1>4, <1>5, <1>6, <1>7, <1>8, <1>9, <1>10, <1>11, <1>12, <1>13

Told == Typed /\ HandlersTold /\ OkMeansGone /\ Emptied /\ OnRecord

LEMMA InitialTold == Init => Told
<1>1. Init => HandlersTold /\ OkMeansGone /\ Emptied /\ OnRecord
  BY DEF Init, HandlersTold, OkMeansGone, Emptied, OnRecord, Deleter
<1> QED BY <1>1, InitialTyped DEF Told

LEMMA ToldInductive ==
  ASSUME Told, [Next]_vars
  PROVE  Told'
BY TypingInductive, UntouchedInductive, HandlersToldInductive, OkMeansGoneInductive,
   EmptiedInductive, OnRecordInductive DEF Told, Typed

(* A sweep that has ended reports every resource it was asked for that is  *)
(* still there, but for those put off, those Cloud Control cannot delete   *)
(* and those whose deletion the code does not follow                       *)
(* (Deleter._execute_batches).                                             *)
THEOREM SilenceIsTrue == Spec => []SilenceMeansGone
<1>1. Told /\ [Next]_vars => Told'
  BY ToldInductive
<1>2. Told => SilenceMeansGone
  <2> SUFFICES ASSUME Told, phase = "done", NEW i \in (Items \cap live) \ failures
               PROVE  i \in deferred \cup Excluded \cup Unfollowed
    BY DEF SilenceMeansGone
  <2>1. CASE i \in By("cloud control")
    BY <2>1 DEF Told, OnRecord, Emptied, Deleter, Excused
  <2>2. CASE i \notin By("cloud control")
    BY <2>2 DEF Told, HandlersTold, Deleter, Excused
  <2> QED BY <2>1, <2>2
<1> QED BY <1>1, <1>2, InitialTold, PTL DEF Spec

-----------------------------------------------------------------------------
(* The order of deletion.  What is under way is of one level, above all    *)
(* that is queued.                                                         *)

Current == remaining \cup todo \cup tokens \cup failed

Ordered ==
  phase \in Deleter =>
    /\ \A b, c \in Current : Level[b] = Level[c]
    /\ \A q \in queue, b \in Current : Level[q] < Level[b]

LEMMA BatchesOrdered ==
  ASSUME NEW set \in SUBSET Items
  PROVE  /\ \A b, c \in Batch(set) : Level[b] = Level[c]
         /\ \A q \in set \ Batch(set), b \in Batch(set) : Level[q] < Level[b]
<1>1. \A i \in set : Level[i] \in Nat
  BY SweepAssumption
<1>2. ASSUME NEW b \in Batch(set), NEW c \in Batch(set)
      PROVE  Level[b] = Level[c]
  BY <1>1, <1>2 DEF Batch
<1>3. ASSUME NEW q \in set \ Batch(set), NEW b \in Batch(set)
      PROVE  Level[q] < Level[b]
  <2>1. PICK j \in set : ~(Level[q] >= Level[j])
    BY <1>3 DEF Batch
  <2>2. Level[b] >= Level[j] /\ b \in set
    BY <1>3 DEF Batch
  <2> QED BY <1>1, <1>3, <2>1, <2>2
<1> QED BY <1>2, <1>3

LEMMA TakesOrdered ==
  ASSUME NEW set \in SUBSET Items, Takes(set), tokens' = {}, failed' = {}
  PROVE  Ordered'
<1>1. Current' = Batch(set) /\ queue' = set \ Batch(set)
  BY TakesAll DEF Current
<1> QED BY <1>1, BatchesOrdered DEF Ordered

LEMMA EndPassOrdered ==
  ASSUME TypeOK, Ordered, phase \in Deleter,
         NEW left \in SUBSET remaining, NEW bad \in SUBSET failed, EndPass(left, bad)
  PROVE  Ordered'
<1>1. CASE pass < Passes /\ left # {}
  <2>1. Current' \subseteq Current /\ queue' = queue
    BY <1>1 DEF EndPass, Current
  <2> QED BY <2>1 DEF Ordered
<1>2. CASE ~(pass < Passes /\ left # {})
  BY <1>2, TakesOrdered DEF EndPass, TypeOK
<1> QED BY <1>1, <1>2

LEMMA OrderedInductive ==
  ASSUME Told, Ordered, [Next]_vars
  PROVE  Ordered'
<1> USE DEF Deleter
<1>1. CASE Filter
  <2>1. tokens' = {} /\ failed' = {}
    BY <1>1 DEF Filter, Told, Emptied
  <2>2. PICK set \in SUBSET Items : Takes(set)
    BY <1>1 DEF Filter, By
  <2> QED BY <2>1, <2>2, TakesOrdered
<1>2. CASE Polled
  BY <1>2, EndPassOrdered DEF Polled, Told, Typed
<1>3. CASE TimesOut
  <2>1. remaining \ tokens \in SUBSET remaining /\ failed \ tokens \in SUBSET failed
    OBVIOUS
  <2> QED BY <1>3, <2>1, EndPassOrdered DEF TimesOut, Told, Typed
<1>4. CASE Prepared \/ Submitted \/ Shutdown \/ UNCHANGED vars
  <2>1. phase' \in Deleter => phase \in Deleter /\ UNCHANGED <<todo, batch>>
    BY <1>4 DEF Prepared, Submitted, Shutdown, vars
  <2> QED BY <2>1 DEF Ordered, Current, batch
<1>5. ASSUME NEW i \in Items,
             \/ Goes(i) \/ Stays(i) \/ Waits(i)
      PROVE  Ordered'
  BY <1>5 DEF Goes, Stays, Waits, Ordered, Current, batch
<1>6. ASSUME NEW i \in Items,
             \/ AlreadyHandled(i) \/ Accepts(i) \/ Rejects(i)
             \/ Succeeded(i) \/ Failed(i) \/ StatusUnknown(i)
      PROVE  Ordered'
  <2>1. phase \in Deleter /\ queue' = queue /\ Current' \subseteq Current
    BY <1>6 DEF AlreadyHandled, Accepts, Rejects, Submit,
         Succeeded, Failed, StatusUnknown, Polls, Current
  <2> QED BY <2>1 DEF Ordered
<1>7. ASSUME NEW i \in Items,
             \/ Prepare(i)
             \/ Fails(i) \/ DeletesAtOnce(i) \/ Defers(i) \/ Accepted(i) \/ Misreads(i)
             \/ AlreadyDeleting(i) \/ DeletesAndWaits(i)
      PROVE  Ordered'
  BY <1>7 DEF Prepare, Fails, DeletesAtOnce, Defers, Accepted, Misreads, AlreadyDeleting,
       DeletesAndWaits, Handles, Ordered
<1> QED BY StepCases, <1>1, <1>2, <1>3, <1>4, <1>5, <1>6, <1>7

(* What the levels of the deleter are for: roles are below all that may    *)
(* use them, and are left to Cloud Control.                                *)
RolesLast ==
  \A u \in Items : \A r \in Uses[u] :
    /\ Handler[r] = "cloud control"
    /\ Handler[u] = "cloud control" => Level[r] < Level[u]

(* When the sweep begins to delete what others use, they are gone, or the  *)
(* sweep has stopped looking after them.                                   *)
UsersClear ==
  \A r \in deleting \ foreign : \A u \in live : r \in Uses[u] => u \in Excused

LEMMA UsersClearInductive ==
  ASSUME RolesLast, Told, Ordered, UsersClear, [Next]_vars
  PROVE  UsersClear'
<1>1. live' \subseteq live /\ Excused \subseteq Excused' /\ live \subseteq Items
  BY LiveShrinks, ExcusedStays DEF Told, Typed, TypeOK
<1>2. foreign' = foreign
  BY StepCases DEF Prepared, Filter, Submitted, Polled, TimesOut, Shutdown, vars,
     Goes, Stays, Prepare, Fails, DeletesAtOnce, Defers, Accepted, Misreads, AlreadyDeleting,
     DeletesAndWaits, Handles, Waits, Accepts, AlreadyHandled, Rejects, Submit,
     Succeeded, Failed, StatusUnknown, Polls
<1>3. ASSUME NEW i \in Items, Accepts(i)
      PROVE  UsersClear'
  <2>1. deleting' = deleting \cup {i} /\ i \in todo /\ phase = "submit"
    BY <1>3 DEF Accepts, Submit
  <2>2. ASSUME NEW u \in live, i \in Uses[u], u \notin Excused
        PROVE  FALSE
    <3>1. u \in By("cloud control")
      BY <2>1, <2>2 DEF Told, HandlersTold, Deleter
    <3>2. Level[i] < Level[u]
      BY <1>1, <2>2, <3>1 DEF RolesLast, By
    <3>3. u \in queue \cup Current
      BY <2>1, <2>2, <3>1 DEF Told, OnRecord, Deleter, Current
    <3>4. i \in Current
      BY <2>1 DEF Current
    <3>5. Level[u] = Level[i] \/ Level[u] < Level[i]
      BY <2>1, <3>3, <3>4 DEF Ordered, Deleter
    <3>6. Level[i] \in Nat /\ Level[u] \in Nat
      BY <1>1, SweepAssumption
    <3> QED BY <3>2, <3>5, <3>6
  <2> QED BY <1>1, <1>2, <2>1, <2>2 DEF UsersClear
<1>4. ASSUME NEW i \in Items, Prepare(i) \/ Accepted(i) \/ DeletesAndWaits(i)
      PROVE  UsersClear'
  <2>1. deleting' \subseteq deleting \cup {i}
    BY <1>4 DEF Prepare, Accepted, DeletesAndWaits
  <2>2. Handler[i] # "cloud control"
    BY <1>4 DEF Prepare, Accepted, DeletesAndWaits, Told, Typed, Untouched, By
  <2>3. \A u \in Items : i \notin Uses[u]
    BY <2>2 DEF RolesLast
  <2> QED BY <1>1, <1>2, <2>1, <2>3 DEF UsersClear
<1>5. CASE deleting' \subseteq deleting
  BY <1>1, <1>2, <1>5 DEF UsersClear
<1>6. CASE \/ Prepared \/ Filter \/ Submitted \/ Polled \/ TimesOut \/ Shutdown
           \/ UNCHANGED vars
  BY <1>5, <1>6 DEF Prepared, Filter, Submitted, Polled, TimesOut, Shutdown, vars, cloud
<1>7. ASSUME NEW i \in Items,
             \/ Goes(i) \/ Stays(i) \/ Waits(i) \/ AlreadyHandled(i) \/ Rejects(i)
             \/ Succeeded(i) \/ Failed(i) \/ StatusUnknown(i)
      PROVE  UsersClear'
  BY <1>5, <1>7 DEF Goes, Stays, Waits, AlreadyHandled, Rejects, Submit,
       Succeeded, Failed, StatusUnknown, Polls, cloud
<1>8. ASSUME NEW i \in Items,
             \/ Fails(i) \/ DeletesAtOnce(i) \/ Defers(i) \/ Misreads(i) \/ AlreadyDeleting(i)
      PROVE  UsersClear'
  BY <1>5, <1>8 DEF Fails, DeletesAtOnce, Defers, Misreads, AlreadyDeleting
<1> QED BY StepCases, <1>3, <1>4, <1>6, <1>7, <1>8

(* Only the end of its own deletion, or a handler's call, takes a          *)
(* resource.                                                               *)
LEMMA OnlyTheseTake ==
  ASSUME [Next]_vars, NEW r \in live \ live'
  PROVE  r \in deleting \/ (r \in Items /\ Handler[r] # "cloud control")
<1>1. ASSUME NEW i \in Items, Goes(i) \/ DeletesAtOnce(i)
      PROVE  r \in deleting \/ (r \in Items /\ Handler[r] # "cloud control")
  BY <1>1 DEF Goes, DeletesAtOnce
<1>2. CASE live' = live
  BY <1>2
<1>3. CASE \/ Prepared \/ Filter \/ Submitted \/ Polled \/ TimesOut \/ Shutdown
           \/ UNCHANGED vars
  BY <1>2, <1>3 DEF Prepared, Filter, Submitted, Polled, TimesOut, Shutdown, vars, cloud
<1>4. ASSUME NEW i \in Items,
             \/ Stays(i) \/ Prepare(i) \/ Waits(i) \/ Accepts(i) \/ AlreadyHandled(i)
             \/ Rejects(i) \/ Succeeded(i) \/ Failed(i) \/ StatusUnknown(i)
      PROVE  live' = live
  BY <1>4 DEF Stays, Prepare, Waits, Accepts, AlreadyHandled, Rejects, Submit,
       Succeeded, Failed, StatusUnknown, Polls, cloud
<1>5. ASSUME NEW i \in Items,
             \/ Fails(i) \/ Defers(i) \/ Accepted(i) \/ Misreads(i)
             \/ AlreadyDeleting(i) \/ DeletesAndWaits(i)
      PROVE  live' = live
  BY <1>5 DEF Fails, Defers, Accepted, Misreads, AlreadyDeleting, DeletesAndWaits
<1> QED BY StepCases, <1>1, <1>2, <1>3, <1>4, <1>5

(* When roles are below all that use them, no role goes while a deletion   *)
(* that works with it is still followed (_order_batches).                  *)
THEOREM RolesGoLast == RolesLast /\ Spec => UsersGoFirst
<1> DEFINE Inv == RolesLast /\ Told /\ Ordered /\ UsersClear
           Clear == \A r \in (live \ live') \ foreign : \A u \in live :
                      r \in Uses[u] => u \in failures \cup deferred \cup Excluded \cup Unfollowed
<1>1. RolesLast /\ Init => Inv
  <2>1. Init => Ordered /\ UsersClear
    BY DEF Init, Ordered, UsersClear, Deleter
  <2> QED BY <2>1, InitialTold
<1>2. Inv /\ [Next]_vars => Inv'
  <2>1. RolesLast => RolesLast'
    BY DEF RolesLast
  <2> QED BY <2>1, ToldInductive, OrderedInductive, UsersClearInductive
<1>3. Inv /\ [Next]_vars => [Clear]_vars
  <2> SUFFICES ASSUME Inv, [Next]_vars,
                      NEW r \in (live \ live') \ foreign, NEW u \in live, r \in Uses[u]
               PROVE  u \in Excused
    BY DEF Excused
  <2>1. u \in Items
    BY DEF Told, Typed, TypeOK
  <2>2. Handler[r] = "cloud control"
    BY <2>1 DEF RolesLast
  <2>3. r \in deleting
    BY <2>2, OnlyTheseTake
  <2> QED BY <2>3 DEF UsersClear
<1> QED BY <1>1, <1>2, <1>3, PTL DEF Spec, UsersGoFirst

-----------------------------------------------------------------------------
(* Two passes.  What may hold up a deletion; all of it stays.              *)

Trouble == struck \cup Excused
CC == By("cloud control")
Clean == CC \ (struck \cup foreign)

LEMMA TroubleStays ==
  ASSUME Typed, [Next]_vars
  PROVE  /\ live' \subseteq live /\ foreign' = foreign /\ Excused \subseteq Excused'
         /\ Trouble \subseteq Trouble' /\ Clean' \subseteq Clean /\ struck \subseteq struck'
<1>1. struck \subseteq struck' /\ foreign' = foreign
  <2>1. CASE \/ Prepared \/ Filter \/ Submitted \/ Polled \/ TimesOut \/ Shutdown
             \/ UNCHANGED vars
    BY <2>1 DEF Prepared, Filter, Submitted, Polled, TimesOut, Shutdown, vars
  <2>2. ASSUME NEW i \in Items,
               \/ Goes(i) \/ Stays(i) \/ Prepare(i) \/ Waits(i)
               \/ Accepts(i) \/ AlreadyHandled(i) \/ Rejects(i)
               \/ Succeeded(i) \/ Failed(i) \/ StatusUnknown(i)
        PROVE  struck \subseteq struck' /\ foreign' = foreign
    BY <2>2 DEF Goes, Stays, Prepare, Waits, Accepts, AlreadyHandled, Rejects, Submit,
         Succeeded, Failed, StatusUnknown, Polls, Strike
  <2>3. ASSUME NEW i \in Items,
               \/ Fails(i) \/ DeletesAtOnce(i) \/ Defers(i) \/ Accepted(i) \/ Misreads(i)
               \/ AlreadyDeleting(i) \/ DeletesAndWaits(i)
        PROVE  struck \subseteq struck' /\ foreign' = foreign
    BY <2>3 DEF Fails, DeletesAtOnce, Defers, Accepted, Misreads, AlreadyDeleting,
         DeletesAndWaits, Handles, Strike
  <2> QED BY StepCases, <2>1, <2>2, <2>3
<1>2. live' \subseteq live /\ Excused \subseteq Excused'
  BY LiveShrinks, ExcusedStays
<1> QED BY <1>1, <1>2 DEF Trouble, Clean, CC, By

(* A request is answered once: from running to ok or failed. *)
LEMMA VerdictMoves ==
  ASSUME Typed, [Next]_vars, NEW x \in Items, verdict'[x] # verdict[x]
  PROVE  \/ Goes(x) /\ verdict[x] = "running"
         \/ Stays(x) /\ verdict[x] = "running" /\ verdict'[x] = "failed"
         \/ Accepts(x) /\ verdict'[x] = "running"
<1>1. ASSUME NEW i \in Items, Goes(i) \/ Stays(i) \/ Accepts(i)
      PROVE  \/ Goes(x) /\ verdict[x] = "running"
             \/ Stays(x) /\ verdict[x] = "running" /\ verdict'[x] = "failed"
             \/ Accepts(x) /\ verdict'[x] = "running"
  <2>1. i = x
    BY <1>1 DEF Goes, Stays, Accepts, Settle, Typed, TypeOK
  <2> QED BY <1>1, <2>1 DEF Goes, Stays, Accepts, Settle, Typed, TypeOK
<1>2. CASE \/ Prepared \/ Filter \/ Submitted \/ Polled \/ TimesOut \/ Shutdown
           \/ UNCHANGED vars
  BY <1>2 DEF Prepared, Filter, Submitted, Polled, TimesOut, Shutdown, vars, cloud
<1>3. ASSUME NEW i \in Items,
             \/ Prepare(i) \/ Waits(i) \/ AlreadyHandled(i) \/ Rejects(i)
             \/ Succeeded(i) \/ Failed(i) \/ StatusUnknown(i)
      PROVE  FALSE
  BY <1>3 DEF Prepare, Waits, AlreadyHandled, Rejects, Submit,
       Succeeded, Failed, StatusUnknown, Polls, cloud
<1>4. ASSUME NEW i \in Items,
             \/ Fails(i) \/ DeletesAtOnce(i) \/ Defers(i) \/ Accepted(i) \/ Misreads(i)
             \/ AlreadyDeleting(i) \/ DeletesAndWaits(i)
      PROVE  FALSE
  BY <1>4 DEF Fails, DeletesAtOnce, Defers, Accepted, Misreads, AlreadyDeleting,
       DeletesAndWaits, Handles
<1> QED BY StepCases, <1>1, <1>2, <1>3, <1>4

(* What a step can do to the deleter's own state. *)
Item(i) ==
  \/ Accepts(i) \/ AlreadyHandled(i) \/ Rejects(i)
  \/ Succeeded(i) \/ Failed(i) \/ StatusUnknown(i)

LEMMA BatchMoves ==
  ASSUME [Next]_vars, phase' \in Deleter
  PROVE  \/ phase \in Deleter /\ UNCHANGED <<todo, batch>>
         \/ Filter \/ Polled \/ TimesOut
         \/ \E i \in Items : Item(i)
<1> USE DEF Deleter, Item
<1>1. CASE Prepared \/ Submitted \/ Shutdown \/ UNCHANGED vars
  BY <1>1 DEF Prepared, Submitted, Shutdown, vars
<1>2. ASSUME NEW i \in Items, Goes(i) \/ Stays(i) \/ Waits(i)
      PROVE  phase \in Deleter /\ UNCHANGED <<todo, batch>>
  BY <1>2 DEF Goes, Stays, Waits
<1>3. ASSUME NEW i \in Items,
             \/ Prepare(i)
             \/ Fails(i) \/ DeletesAtOnce(i) \/ Defers(i) \/ Accepted(i) \/ Misreads(i)
             \/ AlreadyDeleting(i) \/ DeletesAndWaits(i)
      PROVE  FALSE
  BY <1>3 DEF Prepare, Fails, DeletesAtOnce, Defers, Accepted, Misreads, AlreadyDeleting,
       DeletesAndWaits, Handles
<1> QED BY StepCases, <1>1, <1>2, <1>3

LEMMA ItemMoves ==
  ASSUME NEW i, Item(i)
  PROVE  /\ phase \in Deleter /\ phase' = phase /\ pass' = pass /\ queue' = queue
         /\ failures' = failures /\ live' = live
         /\ Current' \subseteq Current
         /\ todo' \subseteq todo /\ remaining' \subseteq remaining
         /\ \A x : x # i => /\ x \in todo <=> x \in todo'
                            /\ x \in tokens <=> x \in tokens'
                            /\ x \in failed <=> x \in failed'
BY DEF Item, Accepts, AlreadyHandled, Rejects, Submit, Succeeded, Failed, StatusUnknown, Polls,
       Current, Deleter, cloud

LEMMA NextPass ==
  ASSUME TypeOK, NEW left, NEW bad, EndPass(left, bad)
  PROVE  \/ /\ pass = 1 /\ pass' = 2 /\ left # {}
            /\ todo' = left /\ remaining' = left /\ failed' = bad
            /\ UNCHANGED <<tokens, queue, failures>>
         \/ /\ pass' = 1 /\ (pass = 2 \/ left = {})
            /\ tokens' = {} /\ failed' = {} /\ todo' = remaining'
            /\ failures' = failures \cup tokens \cup bad
BY DEF EndPass, Takes, Passes, TypeOK

(* The end of a pass, by itself or by a time-out. *)
LEMMA PassEnds ==
  ASSUME Told, Polled \/ TimesOut
  PROVE  /\ todo = {} /\ phase \in Deleter /\ UNCHANGED cloud
         /\ tokens \subseteq struck'
         /\ \E left \in SUBSET remaining :
              /\ remaining \ tokens \subseteq left
              /\ EndPass(left, failed \ tokens)
<1>1. todo = {} /\ phase \in Deleter /\ UNCHANGED cloud
  BY DEF Told, Emptied, Polled, TimesOut, Deleter
<1>2. CASE Polled
  <2>1. tokens = {} /\ EndPass(remaining, failed \ tokens)
    <3>1. tokens = {} /\ EndPass(remaining, failed)
      BY <1>2 DEF Polled
    <3>2. failed \ tokens = failed
      BY <3>1
    <3> QED BY <3>1, <3>2
  <2> QED BY <1>1, <2>1
<1>3. CASE TimesOut
  <2>1. tokens \subseteq struck' /\ EndPass(remaining \ tokens, failed \ tokens)
    BY <1>3 DEF TimesOut
  <2> QED BY <1>1, <2>1
<1> QED BY <1>2, <1>3

-----------------------------------------------------------------------------
(* The handlers leave alone what is left to Cloud Control, and a deletion  *)
(* of the deleter's goes on as long as its request runs.                   *)

HandledApart ==
  /\ phase \in {"prepare", "custom"} => todo \cap CC = {}
  /\ waiting \cap CC = {}

Followed == \A x \in deleting \cap CC : verdict[x] = "running" \/ x \in foreign

LEMMA HandledApartInductive ==
  ASSUME HandledApart, [Next]_vars
  PROVE  HandledApart'
<1> USE DEF HandledApart
<1>1. CC' = CC
  BY DEF CC, By
<1>2. CASE Prepared
  BY <1>1, <1>2 DEF Prepared, CC
<1>3. CASE Filter \/ Polled \/ TimesOut
  BY <1>1, <1>3, EndPassLeaves DEF Filter, Takes, Polled, TimesOut
<1>4. CASE Submitted \/ Shutdown \/ UNCHANGED vars
  BY <1>1, <1>4 DEF Submitted, Shutdown, vars
<1>5. ASSUME NEW i \in Items,
             \/ Goes(i) \/ Stays(i) \/ Prepare(i) \/ Waits(i)
             \/ AlreadyHandled(i) \/ Accepts(i) \/ Rejects(i)
             \/ Succeeded(i) \/ Failed(i) \/ StatusUnknown(i)
      PROVE  HandledApart'
  BY <1>1, <1>5 DEF Goes, Stays, Prepare, Waits, AlreadyHandled, Accepts, Rejects, Submit,
       Succeeded, Failed, StatusUnknown, Polls
<1>6. ASSUME NEW i \in Items,
             \/ Fails(i) \/ DeletesAtOnce(i) \/ Defers(i) \/ Accepted(i) \/ Misreads(i)
             \/ AlreadyDeleting(i)
      PROVE  HandledApart'
  BY <1>1, <1>6 DEF Fails, DeletesAtOnce, Defers, Accepted, Misreads, AlreadyDeleting, Handles
<1>7. ASSUME NEW i \in Items, DeletesAndWaits(i)
      PROVE  HandledApart'
  BY <1>1, <1>7 DEF DeletesAndWaits, Handles, CC, By
<1> QED BY StepCases, <1>2, <1>3, <1>4, <1>5, <1>6, <1>7

LEMMA FollowedInductive ==
  ASSUME Typed, HandledApart, Followed, [Next]_vars
  PROVE  Followed'
<1>1. CC' = CC /\ foreign' = foreign
  BY TroubleStays DEF CC, By
<1>2. ASSUME NEW x \in deleting' \cap CC, x \notin deleting
      PROVE  verdict'[x] = "running"
  <2>1. ASSUME NEW i \in Items, Accepts(i)
        PROVE  verdict'[x] = "running"
    BY <1>2, <2>1 DEF Accepts, Typed, TypeOK
  <2>2. ASSUME NEW i \in Items, Prepare(i) \/ Accepted(i) \/ DeletesAndWaits(i)
        PROVE  FALSE
    <3>1. i = x
      BY <1>2, <2>2 DEF Prepare, Accepted, DeletesAndWaits
    <3>2. i \in todo /\ phase \in {"prepare", "custom"}
      BY <2>2 DEF Prepare, Accepted, DeletesAndWaits, Handles
    <3> QED BY <1>2, <3>1, <3>2 DEF HandledApart
  <2>3. CASE \/ Prepared \/ Filter \/ Submitted \/ Polled \/ TimesOut \/ Shutdown
             \/ UNCHANGED vars
    BY <1>2, <2>3 DEF Prepared, Filter, Submitted, Polled, TimesOut, Shutdown, vars, cloud
  <2>4. ASSUME NEW i \in Items,
               \/ Goes(i) \/ Stays(i) \/ Waits(i) \/ AlreadyHandled(i) \/ Rejects(i)
               \/ Succeeded(i) \/ Failed(i) \/ StatusUnknown(i)
               \/ Fails(i) \/ DeletesAtOnce(i) \/ Defers(i) \/ Misreads(i) \/ AlreadyDeleting(i)
        PROVE  FALSE
    BY <1>2, <2>4 DEF Goes, Stays, Waits, AlreadyHandled, Rejects, Succeeded, Failed,
         StatusUnknown, Polls, Fails, DeletesAtOnce, Defers, Misreads, AlreadyDeleting, cloud
  <2> QED BY StepCases, <2>1, <2>2, <2>3, <2>4
<1>3. ASSUME NEW x \in deleting' \cap CC, x \in deleting
      PROVE  verdict'[x] = "running" \/ x \in foreign
  <2>1. x \in Items
    BY DEF CC, By
  <2>2. ~Goes(x) /\ ~Stays(x)
    BY <1>3 DEF Goes, Stays
  <2>3. verdict'[x] = verdict[x] \/ verdict'[x] = "running"
    BY <2>1, <2>2, VerdictMoves
  <2> QED BY <1>3, <2>3 DEF Followed
<1> QED BY <1>1, <1>2, <1>3 DEF Followed

-----------------------------------------------------------------------------
(* In its first pass the deleter has failed, or waits for, only what it    *)
(* will take up again; what failed was refused.                            *)

FirstPass ==
  phase \in Deleter /\ pass = 1 =>
    /\ todo \cup tokens \cup failed \subseteq remaining
    /\ todo \cap (tokens \cup failed) = {}

FailedTold ==
  phase \in Deleter =>
    \A x \in failed \ struck : pass = 1 \/ x \in todo => verdict[x] = "failed"

LEMMA FirstPassInductive ==
  ASSUME Told, FirstPass, [Next]_vars
  PROVE  FirstPass'
<1> SUFFICES ASSUME phase' \in Deleter, pass' = 1
             PROVE  /\ todo' \cup tokens' \cup failed' \subseteq remaining'
                    /\ todo' \cap (tokens' \cup failed') = {}
  BY DEF FirstPass
<1>1. CASE phase \in Deleter /\ UNCHANGED <<todo, batch>>
  BY <1>1 DEF FirstPass, batch
<1>2. CASE Filter
  BY <1>2 DEF Filter, Takes, Told, Emptied
<1>3. CASE Polled \/ TimesOut
  BY <1>3, PassEnds, NextPass DEF Told, Typed
<1>4. ASSUME NEW i \in Items, Item(i)
      PROVE  /\ todo' \cup tokens' \cup failed' \subseteq remaining'
             /\ todo' \cap (tokens' \cup failed') = {}
  <2>1. phase \in Deleter /\ pass = 1
    BY <1>4, ItemMoves
  <2>2. phase = "poll" => todo = {}
    BY DEF Told, Emptied
  <2>3. CASE Accepts(i) \/ AlreadyHandled(i) \/ Rejects(i)
    BY <2>1, <2>3 DEF FirstPass, Accepts, AlreadyHandled, Rejects, Submit
  <2>4. CASE Succeeded(i) \/ Failed(i) \/ StatusUnknown(i)
    BY <2>1, <2>2, <2>4 DEF FirstPass, Succeeded, Failed, StatusUnknown, Polls
  <2> QED BY <1>4, <2>3, <2>4 DEF Item
<1> QED BY BatchMoves, <1>1, <1>2, <1>3, <1>4

LEMMA FailedToldInductive ==
  ASSUME Told, FirstPass, FailedTold, [Next]_vars
  PROVE  FailedTold'
<1> SUFFICES ASSUME phase' \in Deleter, NEW x \in failed' \ struck', pass' = 1 \/ x \in todo'
             PROVE  verdict'[x] = "failed"
  BY DEF FailedTold
<1>1. x \notin struck /\ x \in Items
  BY ToldInductive, TroubleStays DEF Told, Typed, TypeOK
<1>2. ASSUME verdict[x] = "failed", ~Accepts(x)
      PROVE  verdict'[x] = "failed"
  BY <1>1, <1>2, VerdictMoves DEF Told
<1>3. CASE phase \in Deleter /\ UNCHANGED <<todo, batch>>
  <2>1. verdict[x] = "failed"
    BY <1>1, <1>3 DEF FailedTold, batch
  <2>2. ~Accepts(x)
    BY <1>3 DEF Accepts, Submit
  <2> QED BY <1>2, <2>1, <2>2
<1>4. CASE Filter
  BY <1>4 DEF Filter, Told, Emptied
<1>5. CASE Polled \/ TimesOut
  <2>1. x \in failed /\ pass = 1 /\ UNCHANGED cloud /\ phase \in Deleter
    BY <1>5, PassEnds, NextPass DEF Told, Typed
  <2> QED BY <1>1, <2>1 DEF FailedTold, cloud
<1>6. ASSUME NEW i \in Items, Item(i)
      PROVE  verdict'[x] = "failed"
  <2>1. phase \in Deleter /\ pass' = pass /\ todo' \subseteq todo
    BY <1>6, ItemMoves
  <2>2. CASE x \in failed
    <3>1. verdict[x] = "failed"
      BY <1>1, <2>1, <2>2 DEF FailedTold
    <3>2. ~Accepts(x)
      BY <2>1, <2>2 DEF Accepts, Submit, FirstPass
    <3> QED BY <1>2, <3>1, <3>2
  <2>3. CASE x \notin failed
    <3>1. x = i
      BY <1>6, <2>3, ItemMoves
    <3>2. Failed(i)
      BY <1>6, <2>3, <3>1
         DEF Item, Accepts, AlreadyHandled, Rejects, Submit, Succeeded, StatusUnknown, Polls, Strike
    <3> QED BY <3>1, <3>2 DEF Failed, Polls, cloud
  <2> QED BY <2>2, <2>3
<1> QED BY BatchMoves, <1>3, <1>4, <1>5, <1>6

-----------------------------------------------------------------------------
(* What the deleter comes to after the handlers and the higher levels      *)
(* waits only for its own level.                                           *)

Settled(x) == \A k \in Items : Before(k, x) => k \notin live \/ k \in Excused
AskedSettled == \A x \in CC : verdict[x] # "none" => Settled(x)

LEMMA CurrentSettled ==
  ASSUME Told, Ordered, phase \in Deleter, NEW x \in Current
  PROVE  Settled(x)
<1> SUFFICES ASSUME NEW k \in Items, Before(k, x), k \in live, k \notin Excused
             PROVE  FALSE
  BY DEF Settled
<1>1. CASE Handler[k] # "cloud control"
  BY <1>1 DEF Told, HandlersTold, By, Deleter
<1>2. CASE Handler[k] = "cloud control"
  <2>1. Level[k] > Level[x] /\ x \in Items /\ Level[k] \in Nat /\ Level[x] \in Nat
    BY <1>2, SweepAssumption DEF Before, Current, Told, Typed, TypeOK
  <2>2. k \in queue \cup Current
    BY <1>2 DEF Told, OnRecord, By, Current
  <2>3. CASE k \in queue
    BY <2>1, <2>3 DEF Ordered
  <2>4. CASE k \in Current
    BY <2>1, <2>4 DEF Ordered
  <2> QED BY <2>2, <2>3, <2>4
<1> QED BY <1>1, <1>2

LEMMA SettledStays ==
  ASSUME Typed, [Next]_vars, NEW x, Settled(x)
  PROVE  Settled(x)'
BY TroubleStays DEF Settled, Before

LEMMA AskedSettledInductive ==
  ASSUME Told, Ordered, AskedSettled, [Next]_vars
  PROVE  AskedSettled'
<1> SUFFICES ASSUME NEW x \in CC, verdict'[x] # "none"
             PROVE  Settled(x)'
  BY DEF AskedSettled, CC, By
<1>1. CASE verdict[x] # "none"
  BY <1>1, SettledStays DEF AskedSettled, Told
<1>2. CASE verdict[x] = "none"
  <2>1. Accepts(x)
    BY <1>2, VerdictMoves DEF Told, CC, By
  <2>2. phase \in Deleter /\ x \in Current
    BY <2>1 DEF Accepts, Submit, Deleter, Current
  <2> QED BY <2>2, CurrentSettled, SettledStays DEF Told
<1> QED BY <1>1, <1>2

LEMMA RefusedByLive ==
  ASSUME NEW x, Stays(x), x \notin struck'
  PROVE  /\ Needs[x] \cap live # {}
         /\ UNCHANGED <<live, phase, todo, batch>>
BY DEF Stays, Strike, Free

(* What waits for nothing of its own level is refused only for trouble.    *)
Simple(x) == \A k \in Needs[x] : Before(k, x)
SimpleTold ==
  \A x \in Clean : Simple(x) /\ verdict[x] = "failed" => Needs[x] \cap Trouble # {}

LEMMA SimpleToldInductive ==
  ASSUME Told, AskedSettled, SimpleTold, [Next]_vars
  PROVE  SimpleTold'
<1> SUFFICES ASSUME NEW x \in Clean', Simple(x), verdict'[x] = "failed"
             PROVE  Needs[x] \cap Trouble' # {}
  BY DEF SimpleTold, Simple, Before
<1>1. Trouble \subseteq Trouble' /\ x \in Clean
  BY TroubleStays DEF Told
<1>2. CASE verdict[x] = "failed"
  BY <1>1, <1>2 DEF SimpleTold
<1>3. CASE verdict[x] # "failed"
  <2>1. x \in Items /\ x \in CC /\ x \notin struck'
    BY DEF Clean, CC, By
  <2>2. Stays(x) /\ verdict[x] = "running"
    <3>1. ~Goes(x)
      BY <2>1, <1>3 DEF Goes, Settle, Told, Typed, TypeOK
    <3> QED BY <1>3, <2>1, <3>1, VerdictMoves DEF Told
  <2>3. PICK k \in Needs[x] : k \in live
    BY <2>1, <2>2, RefusedByLive
  <2>4. k \in Excused
    BY <2>1, <2>2, <2>3 DEF AskedSettled, Settled, Simple, Told, Typed, TypeOK
  <2> QED BY <1>1, <2>3, <2>4 DEF Trouble
<1> QED BY <1>2, <1>3

-----------------------------------------------------------------------------
(* The second pass *)

(* Of the level at hand, what waits for nothing of that level is gone.     *)
Resolved(x) == x \in live => ({x} \cup Needs[x]) \cap Trouble # {}
SecondPass ==
  phase \in Deleter /\ pass = 2 =>
    \A x \in Current : \A j \in CC : Simple(j) /\ Level[j] = Level[x] => Resolved(j)

LEMMA SecondPassInductive ==
  ASSUME Told, Ordered, FailedTold, SimpleTold, SecondPass, [Next]_vars
  PROVE  SecondPass'
<1> SUFFICES ASSUME phase' \in Deleter, pass' = 2, NEW x \in Current', NEW j \in CC,
                    Simple(j), Level[j] = Level[x], j \in live'
             PROVE  ({j} \cup Needs[j]) \cap Trouble' # {}
  BY DEF SecondPass, Resolved, Simple, Before, CC, By
<1>1. j \in live /\ Trouble \subseteq Trouble' /\ j \in Items
  BY TroubleStays DEF Told, CC, By
<1>2. ASSUME phase \in Deleter, pass = 2, x \in Current
      PROVE  ({j} \cup Needs[j]) \cap Trouble' # {}
  BY <1>1, <1>2 DEF SecondPass, Resolved
<1>3. CASE phase \in Deleter /\ UNCHANGED <<todo, batch>>
  BY <1>2, <1>3 DEF Current, batch
<1>4. CASE Filter
  <2>1. pass' = 1
    BY <1>4 DEF Filter, Takes
  <2> QED BY <2>1
<1>5. CASE Polled \/ TimesOut
  <2> SUFFICES ASSUME j \notin Trouble'
               PROVE  Needs[j] \cap Trouble # {}
    BY <1>1
  <2>1. /\ todo = {} /\ phase \in Deleter /\ UNCHANGED cloud
        /\ tokens \subseteq struck'
        /\ pass = 1 /\ x \in Current
    <3>1. PICK left \in SUBSET remaining : EndPass(left, failed \ tokens)
      BY <1>5, PassEnds
    <3>2. /\ pass = 1 /\ todo' = left /\ remaining' = left /\ failed' = failed \ tokens
          /\ tokens' = tokens
      BY <3>1, NextPass DEF Told, Typed
    <3> QED BY <1>5, <3>2, PassEnds DEF Current
  <2>2. j \notin Excused /\ j \notin struck' /\ j \notin struck
    BY <1>1 DEF Trouble
  <2>3. j \in queue \cup todo \cup tokens \cup failed
    BY <1>1, <2>1, <2>2 DEF Told, OnRecord, CC
  <2>4. j \notin queue
    <3>1. Level[j] \in Nat
      BY <1>1, SweepAssumption
    <3> QED BY <2>1, <3>1 DEF Ordered
  <2>5. j \in failed \ struck
    BY <2>1, <2>2, <2>3, <2>4 DEF Trouble
  <2>6. verdict[j] = "failed" /\ j \in Clean
    BY <2>1, <2>2, <2>5 DEF FailedTold, Clean, Excused, Unfollowed
  <2> QED BY <2>6 DEF SimpleTold
<1>6. ASSUME NEW i \in Items, Item(i)
      PROVE  ({j} \cup Needs[j]) \cap Trouble' # {}
  BY <1>2, <1>6, ItemMoves
<1> QED BY BatchMoves, <1>3, <1>4, <1>5, <1>6

(* The second pass refuses only what is behind trouble. *)
Explained(x) == Chain(x) \cap Trouble # {}

RefusedTold ==
  phase \in Deleter /\ pass = 2 =>
    \A x \in tokens \cap Clean : Direct(x) /\ verdict[x] = "failed" => Explained(x)

FailedTwice ==
  phase \in Deleter /\ pass = 2 =>
    \A x \in (failed \cap live \cap Clean) \ (todo \cup tokens) : Direct(x) => Explained(x)

FailuresTold ==
  \A x \in failures \cap live \cap Clean : Direct(x) => Explained(x)

TwoPasses ==
  /\ Told /\ Ordered /\ HandledApart /\ Followed /\ FirstPass /\ FailedTold
  /\ AskedSettled /\ SimpleTold /\ SecondPass
  /\ RefusedTold /\ FailedTwice /\ FailuresTold

LEMMA ExplainedStays ==
  ASSUME Typed, [Next]_vars, NEW x, Explained(x)
  PROVE  Explained(x)'
BY TroubleStays DEF Explained, Chain, Beside, Before

LEMMA RefusedToldInductive ==
  ASSUME TwoPasses, [Next]_vars
  PROVE  RefusedTold'
<1> USE DEF TwoPasses
<1> SUFFICES ASSUME phase' \in Deleter, pass' = 2, NEW x \in tokens' \cap Clean', Direct(x),
                    verdict'[x] = "failed"
             PROVE  Explained(x)'
  BY DEF RefusedTold, Direct, Beside, Before
<1>1. x \in Clean /\ x \in Items /\ x \in CC /\ x \notin struck'
  BY TroubleStays DEF Told, Clean, CC, By
<1>2. SUFFICES Explained(x)
  BY ExplainedStays DEF Told
<1>3. CASE verdict[x] # "failed"
  <2>1. Stays(x) /\ verdict[x] = "running"
    <3>1. ~Goes(x)
      BY <1>1, <1>3 DEF Goes, Settle, Told, Typed, TypeOK
    <3> QED BY <1>1, <1>3, <3>1, VerdictMoves DEF Told
  <2>2. PICK j \in Needs[x] : j \in live
    BY <1>1, <2>1, RefusedByLive
  <2>3. phase \in Deleter /\ pass = 2 /\ x \in tokens /\ x \in Current
    BY <1>1, <2>1, RefusedByLive DEF batch, Current
  <2>4. j \in Items
    BY <2>2 DEF Told, Typed, TypeOK
  <2>5. CASE Before(j, x)
    <3>1. j \in Excused
      BY <1>1, <2>1, <2>2, <2>4, <2>5 DEF AskedSettled, Settled
    <3> QED BY <2>2, <3>1 DEF Explained, Chain, Trouble
  <2>6. CASE ~Before(j, x)
    <3>1. j \in Beside(x)
      BY <2>2, <2>6 DEF Beside
    <3>2. j \in CC /\ Simple(j) /\ Level[j] = Level[x]
      BY <2>4, <2>6, <3>1 DEF Direct, Simple, Before, CC, By
    <3>3. ({j} \cup Needs[j]) \cap Trouble # {}
      BY <2>2, <2>3, <3>2 DEF SecondPass, Resolved
    <3>4. {j} \cup Needs[j] \subseteq Chain(x)
      BY <2>2, <3>1 DEF Chain
    <3> QED BY <3>3, <3>4 DEF Explained
  <2> QED BY <2>5, <2>6
<1>4. CASE verdict[x] = "failed"
  <2>1. ASSUME phase \in Deleter, pass = 2, x \in tokens
        PROVE  Explained(x)
    BY <1>1, <1>4, <2>1 DEF RefusedTold
  <2>2. CASE phase \in Deleter /\ UNCHANGED <<todo, batch>>
    BY <2>1, <2>2 DEF batch
  <2>3. CASE Filter
    <3>1. pass' = 1
      BY <2>3 DEF Filter, Takes
    <3> QED BY <3>1
  <2>4. CASE Polled \/ TimesOut
    <3>1. tokens \subseteq struck' /\ tokens' \subseteq tokens
      BY <2>4, PassEnds, NextPass DEF Told, Typed
    <3> QED BY <1>1, <3>1
  <2>5. ASSUME NEW i \in Items, Item(i)
        PROVE  Explained(x)
    <3>1. ~Accepts(x)
      BY <1>1 DEF Accepts, Told, Typed, TypeOK
    <3>2. x \in tokens
      BY <2>5, <3>1 DEF Item, Accepts, AlreadyHandled, Rejects, Submit, Succeeded, Failed,
           StatusUnknown, Polls
    <3> QED BY <2>1, <2>5, <3>2, ItemMoves
  <2> QED BY BatchMoves, <2>2, <2>3, <2>4, <2>5
<1> QED BY <1>3, <1>4

LEMMA FailedTwiceInductive ==
  ASSUME TwoPasses, [Next]_vars
  PROVE  FailedTwice'
<1> USE DEF TwoPasses
<1> SUFFICES ASSUME phase' \in Deleter, pass' = 2,
                    NEW x \in (failed' \cap live' \cap Clean') \ (todo' \cup tokens'), Direct(x)
             PROVE  Explained(x)'
  BY DEF FailedTwice, Direct, Beside, Before
<1>1. x \in Clean /\ x \in Items /\ x \in CC /\ x \notin struck' /\ x \notin struck
      /\ x \notin foreign /\ x \in live
  BY TroubleStays DEF Told, Clean, CC, By
<1>2. SUFFICES Explained(x)
  BY ExplainedStays DEF Told
<1>3. ASSUME phase \in Deleter, pass = 2, x \in failed, x \notin todo \cup tokens
      PROVE  Explained(x)
  BY <1>1, <1>3 DEF FailedTwice
<1>4. CASE phase \in Deleter /\ UNCHANGED <<todo, batch>>
  BY <1>3, <1>4 DEF batch
<1>5. CASE Filter
  <2>1. pass' = 1
    BY <1>5 DEF Filter, Takes
  <2> QED BY <2>1
<1>6. CASE Polled \/ TimesOut
  <2>1. PICK left \in SUBSET remaining :
          remaining \ tokens \subseteq left /\ EndPass(left, failed \ tokens)
    BY <1>6, PassEnds
  <2>2. pass = 1 /\ todo' = left /\ failed' = failed \ tokens /\ phase \in Deleter
    BY <1>6, <2>1, PassEnds, NextPass DEF Told, Typed
  <2>3. failed \subseteq remaining
    BY <2>2 DEF FirstPass
  <2> QED BY <2>1, <2>2, <2>3
<1>7. ASSUME NEW i \in Items, Item(i)
      PROVE  Explained(x)
  <2>1. phase \in Deleter /\ pass = 2
    BY <1>7, ItemMoves
  <2>2. CASE x # i
    BY <1>3, <1>7, <2>1, <2>2, ItemMoves
  <2>3. CASE x = i
    <3>1. CASE Accepts(x)
      BY <3>1 DEF Accepts, Submit
    <3>2. CASE Rejects(x) \/ StatusUnknown(x)
      BY <1>1, <3>2 DEF Rejects, StatusUnknown, Strike
    <3>3. CASE Succeeded(x)
      BY <3>3 DEF Succeeded
    <3>4. CASE Failed(x)
      BY <1>1, <2>1, <3>4 DEF Failed, Polls, RefusedTold
    <3>5. CASE AlreadyHandled(x)
      <4>1. x \in deleting /\ x \in todo /\ x \in failed
        BY <1>1, <3>5 DEF AlreadyHandled, Submit
      <4>2. verdict[x] = "running"
        BY <1>1, <4>1 DEF Followed
      <4>3. verdict[x] = "failed"
        BY <1>1, <2>1, <4>1 DEF FailedTold
      <4> QED BY <4>2, <4>3
    <3> QED BY <1>7, <2>3, <3>1, <3>2, <3>3, <3>4, <3>5 DEF Item
  <2> QED BY <2>2, <2>3
<1> QED BY BatchMoves, <1>4, <1>5, <1>6, <1>7

(* What makes a failure of a deletion: the end of a batch, or its handler. *)
LEMMA FailuresMove ==
  ASSUME [Next]_vars, NEW x \in failures', x \notin failures
  PROVE  Polled \/ TimesOut \/ Fails(x) \/ Waits(x)
<1>1. CASE Prepared \/ Filter \/ Submitted \/ Shutdown \/ UNCHANGED vars
  BY <1>1 DEF Prepared, Filter, Submitted, Shutdown, vars
<1>2. ASSUME NEW i \in Items,
             \/ Goes(i) \/ Stays(i) \/ Prepare(i)
             \/ DeletesAtOnce(i) \/ Defers(i) \/ Accepted(i) \/ Misreads(i)
             \/ AlreadyDeleting(i) \/ DeletesAndWaits(i)
             \/ Accepts(i) \/ AlreadyHandled(i) \/ Rejects(i)
             \/ Succeeded(i) \/ Failed(i) \/ StatusUnknown(i)
      PROVE  FALSE
  BY <1>2 DEF Goes, Stays, Prepare, DeletesAtOnce, Defers, Accepted, Misreads, AlreadyDeleting,
       DeletesAndWaits, Accepts, AlreadyHandled, Rejects, Submit, Succeeded, Failed,
       StatusUnknown, Polls
<1>3. ASSUME NEW i \in Items, Fails(i) \/ Waits(i)
      PROVE  Fails(x) \/ Waits(x)
  <2>1. i = x
    BY <1>3 DEF Fails, Waits
  <2> QED BY <1>3, <2>1
<1> QED BY StepCases, <1>1, <1>2, <1>3

LEMMA FailuresToldInductive ==
  ASSUME TwoPasses, [Next]_vars
  PROVE  FailuresTold'
<1> USE DEF TwoPasses
<1> SUFFICES ASSUME NEW x \in failures' \cap live' \cap Clean', Direct(x)
             PROVE  Explained(x)'
  BY DEF FailuresTold, Direct, Beside, Before
<1>1. x \in Clean /\ x \in CC /\ x \notin struck' /\ x \in live
  BY TroubleStays DEF Told, Clean, CC, By
<1>2. SUFFICES Explained(x)
  BY ExplainedStays DEF Told
<1>3. CASE x \in failures
  BY <1>1, <1>3 DEF FailuresTold
<1>4. CASE x \notin failures /\ (Fails(x) \/ Waits(x))
  <2>1. x \in waiting \/ (x \in todo /\ phase = "custom")
    BY <1>4 DEF Fails, Waits, Handles
  <2> QED BY <1>1, <2>1 DEF HandledApart
<1>5. CASE x \notin failures /\ (Polled \/ TimesOut)
  <2>1. /\ todo = {} /\ phase \in Deleter /\ tokens \subseteq struck'
    BY <1>5, PassEnds
  <2>2. PICK left \in SUBSET remaining :
          remaining \ tokens \subseteq left /\ EndPass(left, failed \ tokens)
    BY <1>5, PassEnds
  <2>3. x \in failed \ tokens /\ (pass = 2 \/ left = {})
    BY <1>1, <1>5, <2>1, <2>2, NextPass DEF Told, Typed
  <2>4. CASE pass = 2
    BY <1>1, <2>1, <2>3, <2>4 DEF FailedTwice
  <2>5. CASE pass # 2
    <3>1. pass = 1 /\ failed \subseteq remaining
      BY <2>1, <2>5 DEF FirstPass, Told, Typed, TypeOK
    <3> QED BY <2>2, <2>3, <2>5, <3>1
  <2> QED BY <2>4, <2>5
<1> QED BY FailuresMove, <1>3, <1>4, <1>5

LEMMA TwoPassesInitial == Init => TwoPasses
<1> SUFFICES ASSUME Init
             PROVE  TwoPasses
  OBVIOUS
<1>1. Told /\ phase = "prepare" /\ phase \notin Deleter
  BY InitialTold DEF Init, Deleter
<1>2. HandledApart
  BY DEF Init, HandledApart, CC, By
<1>3. Followed /\ FailuresTold
  BY DEF Init, Followed, FailuresTold
<1>4. AskedSettled /\ SimpleTold
  BY DEF Init, AskedSettled, SimpleTold, Clean, CC, By
<1> QED BY <1>1, <1>2, <1>3, <1>4
        DEF TwoPasses, Ordered, FirstPass, FailedTold, SecondPass, RefusedTold, FailedTwice

LEMMA TwoPassesInductive == TwoPasses /\ [Next]_vars => TwoPasses'
<1> SUFFICES ASSUME TwoPasses, [Next]_vars
             PROVE  TwoPasses'
  OBVIOUS
<1>1. Told' /\ Ordered'
  BY ToldInductive, OrderedInductive DEF TwoPasses
<1>2. HandledApart' /\ Followed'
  BY HandledApartInductive, FollowedInductive DEF TwoPasses, Told
<1>3. FirstPass' /\ FailedTold'
  BY FirstPassInductive, FailedToldInductive DEF TwoPasses
<1>4. AskedSettled' /\ SimpleTold' /\ SecondPass'
  BY AskedSettledInductive, SimpleToldInductive, SecondPassInductive DEF TwoPasses
<1>5. RefusedTold' /\ FailedTwice' /\ FailuresTold'
  BY RefusedToldInductive, FailedTwiceInductive, FailuresToldInductive
<1> QED BY <1>1, <1>2, <1>3, <1>4, <1>5 DEF TwoPasses

(* A resource that waits for nothing of its own level but what waits for   *)
(* nothing of that level in turn needs no third pass: if it is reported as *)
(* a failure and still there, then something went wrong with it or along   *)
(* its chain, in whatever order the level was submitted and polled         *)
(* (_PASSES_PER_BATCH, Deleter._execute_batches).                          *)
THEOREM TwoPassesAreEnough == Spec => []TwoPassesSuffice
<1>1. TwoPasses => TwoPassesSuffice
  <2> SUFFICES ASSUME TwoPasses, NEW i \in failures \cap live, Handler[i] = "cloud control",
                      Direct(i), i \notin struck \cup foreign
               PROVE  Chain(i) \cap (struck \cup failures \cup Unfollowed \cup deferred
                                       \cup Excluded) # {}
    BY DEF TwoPassesSuffice
  <2>1. i \in Clean
    BY DEF TwoPasses, Told, Typed, TypeOK, Clean, CC, By
  <2>2. Explained(i)
    BY <2>1 DEF TwoPasses, FailuresTold
  <2> QED BY <2>2 DEF Explained, Trouble, Excused
<1> QED BY <1>1, TwoPassesInitial, TwoPassesInductive, PTL DEF Spec
=============================================================================
