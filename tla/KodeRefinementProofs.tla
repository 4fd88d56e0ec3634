------------------------- MODULE KodeRefinementProofs -------------------------
(***************************************************************************)
(* The Kode controller implements the lifecycle of KodeLifecycle, proved   *)
(* where it is hardest: FreshReads is FALSE, so a reconcile may start from *)
(* a copy of any age.  Along the way, that the controller itself fails no  *)
(* Kode.                                                                   *)
(***************************************************************************)
EXTENDS KodeLifecycleProofs

\* The steps that only a deletion takes.
DeletingSteps == {"deleting", "checkDeleted", "cleanup", "cleaned", "removeFinalizer"}

\* Generations: no copy is ahead of the server.
GenInv ==
  /\ cacheKode.gen <= kode.gen /\ status.obs <= kode.gen /\ cacheStatus.obs <= kode.gen
  /\ pc # "idle" => k.gen <= kode.gen /\ st.obs <= kode.gen

\* The finalizer: a Kode without it has no status yet and is not being deleted, and
\* a reconcile past AddFinalizer has one, or no Kode any more.
OwnedInv ==
  /\ cacheKode.fin /\ kode.exists => kode.fin
  /\ kode.exists /\ ~kode.fin => status.phase = NoPhase /\ ~kode.deleting
  /\ pc # "idle" /\ kode.exists => cacheKode.exists
  /\ pc \notin {"idle", "addFinalizer"} /\ kode.exists => kode.fin

\* Deletion: the server says Deleting before a reconcile takes any step of it.
MarkedInv ==
  /\ cacheStatus.phase = "Deleting" => status.phase = "Deleting"
  /\ pc \notin {"idle", "markDeleting"} /\ k.deleting /\ kode.exists =>
       status.phase = "Deleting"
  /\ pc \in DeletingSteps => k.deleting

\* Failure: nobody but the EntryPoint controller brings it about.
FailInv ==
  "entrypoint" \notin Drifts =>
    /\ "Failed" \notin {status.phase, cacheStatus.phase}
    /\ pc # "idle" => st.phase # "Failed"
    /\ pc = "advance" => next # "Failed"

RefInv == GenInv /\ OwnedInv /\ MarkedInv /\ FailInv

\* What a save of a copy does to the lifecycle, whatever its age.
Rewritten ==
  /\ kode.exists /\ kode.fin /\ UNCHANGED kode
  /\ status'.obs \in 0 .. kode.gen
  /\ \/ status'.phase \in Phases \ {"Deleting"} /\ status.phase # "Deleting"
     \/ status'.phase = status.phase
     \/ kode.deleting /\ status'.phase = "Deleting"

\* What the lifecycle sees is left alone.
Unseen == UNCHANGED <<kode, status>>

-----------------------------------------------------------------------------
(* The steps that save a copy *)

\* A copy good to go on with.
GoodCopy(s) ==
  /\ s \in Status /\ s.phase # NoPhase /\ s.obs <= kode.gen
  /\ s.phase = "Deleting" <=> k.deleting
  /\ "entrypoint" \notin Drifts => s.phase # "Failed"

\* The reconcile is over, or goes on with the copy s to a step it may take.
GoesOn(s) ==
  \/ pc' = "idle"
  \/ /\ k' = k /\ st' = s /\ pc' \notin {"addFinalizer", "markDeleting"}
     /\ pc' \in DeletingSteps => k.deleting
     /\ pc' = "advance" => next' # "Failed"

\* Every step that saves a good copy and goes on with one.
LEMMA SavingRefines ==
  ASSUME TypeOK, LifeInv, RefInv, StaysDeleting,
         pc \notin {"idle", "addFinalizer"}, UNCHANGED <<kode, cacheKode, cacheStatus>>,
         NEW w, GoodCopy(w), Save(w, TRUE, TRUE) \/ UNCHANGED status,
         NEW s, GoodCopy(s), GoesOn(s),
         pc = "markDeleting" => pc' = "idle" \/ ~kode.exists \/ status'.phase = "Deleting"
  PROVE  RefInv' /\ (Unseen \/ Rewritten)
<1>1. /\ status \in Status /\ cacheStatus \in Status /\ kode \in Meta /\ cacheKode \in Meta
      /\ k \in Meta
  BY DEF TypeOK, ClusterTypeOK
<1>2. status' = status \/ (kode.exists /\ status' \in MergePatch(cacheStatus, w, status))
  BY DEF Save
<1>3. status' \in Status
  BY <1>1, <1>2, MergePatchType DEF GoodCopy
<1>4. /\ status'.phase \in {status.phase, w.phase}
      /\ status'.obs \in {status.obs, w.obs}
  BY <1>2 DEF MergePatch, Pick
<1>5. status'.obs <= kode.gen
  BY <1>4 DEF RefInv, GenInv, GoodCopy
<1>6. GenInv'
  BY <1>5 DEF RefInv, GenInv, GoesOn, GoodCopy
<1>7. OwnedInv'
  <2>1. kode.exists => kode.fin /\ cacheKode.exists
    BY DEF RefInv, OwnedInv
  <2> QED BY <2>1 DEF RefInv, OwnedInv
<1>8. MarkedInv'
  <2>1. cacheStatus'.phase = "Deleting" => status'.phase = "Deleting"
    BY DEF RefInv, MarkedInv, StaysDeleting
  <2>2. pc' # "idle" /\ k'.deleting /\ kode'.exists => status'.phase = "Deleting"
    BY DEF RefInv, MarkedInv, StaysDeleting, GoesOn
  <2> QED BY <2>1, <2>2 DEF RefInv, MarkedInv, GoesOn, DeletingSteps
<1>9. FailInv'
  BY <1>4 DEF RefInv, FailInv, GoesOn, GoodCopy
<1>10. Unseen \/ Rewritten
  <2>1. CASE status' = status
    BY <2>1 DEF Unseen
  <2>2. CASE status' # status
    <3>1. kode.exists /\ kode.fin
      BY <1>2, <2>2 DEF RefInv, OwnedInv
    <3>2. status'.obs \in 0 .. kode.gen
      BY <1>1, <1>3, <1>5 DEF Status, Meta
    <3>3. k.deleting => kode.deleting
      BY DEF LifeInv, CopyInv, ServerInv
    <3>4. w.phase \in Phases
      BY DEF GoodCopy, Status
    <3> QED BY <1>4, <3>1, <3>2, <3>3, <3>4 DEF Rewritten, GoodCopy, StaysDeleting
  <2> QED BY <2>1, <2>2
<1> QED BY <1>6, <1>7, <1>8, <1>9, <1>10 DEF RefInv

\* Ends of a step that are good to go on.
LEMMA GoodEnds ==
  /\ \A requeue, s : Finish(requeue) => GoesOn(s)
  /\ \A step \in Steps \ ({"advance", "addFinalizer", "markDeleting"} \cup DeletingSteps) :
       \A s : Goto(step, s) => GoesOn(s)
  /\ \A step \in DeletingSteps : \A s : k.deleting /\ Goto(step, s) => GoesOn(s)
  /\ \A phase \in Phases \ {"Failed"} : \A requeue, s :
       Advance(phase, requeue, s) => GoesOn(s)
BY DEF GoesOn, Finish, Forget, Goto, Advance, DeletingSteps

\* A copy that keeps the phase, and the generation unless it takes that of the Kode.
Keeps(s) == s \in Status /\ s.phase = st.phase /\ s.obs \in {st.obs, k.gen}

\* Such a copy is good.
LEMMA KeepingIsGood ==
  ASSUME TypeOK, LifeInv, RefInv, pc \notin {"idle", "addFinalizer", "mismatch"},
         NEW s, Keeps(s)
  PROVE  GoodCopy(s)
BY DEF Keeps, GoodCopy, LifeInv, CopyInv, RefInv, GenInv, FailInv

\* The steps that save such a copy and go on with it.
LEMMA KeepingRefines ==
  ASSUME TypeOK, LifeInv, RefInv, StaysDeleting,
         pc \notin {"idle", "addFinalizer", "mismatch", "markDeleting"},
         UNCHANGED <<kode, cacheKode, cacheStatus>>,
         NEW s, Keeps(s), Save(s, TRUE, TRUE) \/ UNCHANGED status, GoesOn(s)
  PROVE  RefInv' /\ (Unseen \/ Rewritten)
<1>1. GoodCopy(s)
  BY KeepingIsGood
<1> QED BY <1>1, SavingRefines

\* The copies the handlers save are of that kind.
LEMMA KeepingCopies ==
  ASSUME TypeOK
  PROVE  /\ \A s \in {st, Progressing(st), Serving(st), Errored(st), Unchanged(st)} : Keeps(s)
         /\ Keeps(WithConditions(st, "False", st.conds.avail, "True"))
         /\ Keeps(WithConditions(st, "False", "False", "False"))
         /\ Keeps([st EXCEPT !.port = Port]) /\ Keeps([st EXCEPT !.retry = 0])
         /\ Keeps([Serving(st) EXCEPT !.port = Port])
         /\ Keeps([Serving(st) EXCEPT !.port = Port, !.obs = k.gen])
         /\ Keeps([Progressing(st) EXCEPT !.retry = @ + 1, !.err = FALSE])
<1>1. st \in Status /\ k.gen \in Nat /\ Port \in Nat
  BY PortType DEF TypeOK, Meta
<1>2. {"True", "False", st.conds.avail} \subseteq ConditionStatus
  BY <1>1 DEF Status, Conditions, ConditionStatus
<1>3. \A ready, avail, prog \in {"True", "False", st.conds.avail} :
        Keeps(WithConditions(st, ready, avail, prog))
  BY <1>1, <1>2 DEF WithConditions, Status, Conditions, Keeps
<1>4. /\ Keeps(st) /\ Keeps(Progressing(st)) /\ Keeps(Serving(st))
      /\ Keeps(WithConditions(st, "True", st.conds.avail, "False"))
      /\ Keeps(WithConditions(st, "False", "False", "False"))
      /\ Keeps(WithConditions(st, "False", st.conds.avail, "True"))
  BY <1>1, <1>3 DEF Progressing, Serving, Keeps
<1>5. ASSUME NEW t, Keeps(t)
      PROVE  /\ Keeps([t EXCEPT !.err = TRUE]) /\ Keeps([t EXCEPT !.obs = k.gen])
             /\ Keeps([t EXCEPT !.port = Port]) /\ Keeps([t EXCEPT !.retry = 0])
             /\ Keeps([t EXCEPT !.port = Port, !.obs = k.gen])
             /\ Keeps([t EXCEPT !.retry = @ + 1, !.err = FALSE])
  <2>1. t \in Status
    BY <1>5 DEF Keeps
  <2>2. Keeps([t EXCEPT !.err = TRUE])
    BY <1>5, <2>1 DEF Status, Keeps
  <2>3. Keeps([t EXCEPT !.obs = k.gen])
    BY <1>1, <1>5, <2>1 DEF Status, Keeps
  <2>4. Keeps([t EXCEPT !.port = Port])
    BY <1>1, <1>5, <2>1 DEF Status, Keeps
  <2>5. Keeps([t EXCEPT !.retry = 0])
    BY <1>5, <2>1 DEF Status, Keeps
  <2>6. Keeps([t EXCEPT !.port = Port, !.obs = k.gen])
    BY <1>1, <1>5, <2>1 DEF Status, Keeps
  <2>7. Keeps([t EXCEPT !.retry = @ + 1, !.err = FALSE])
    <3>1. \A n \in Nat : Keeps([t EXCEPT !.retry = n])
      BY <1>5, <2>1 DEF Status, Keeps
    <3>2. t.retry + 1 \in Nat
      BY <2>1 DEF Status
    <3>3. Keeps([t EXCEPT !.retry = t.retry + 1])
      BY <3>1, <3>2
    <3>4. \A u : Keeps(u) => Keeps([u EXCEPT !.err = FALSE])
      BY DEF Status, Keeps
    <3>5. [t EXCEPT !.retry = @ + 1, !.err = FALSE]
            = [[t EXCEPT !.retry = t.retry + 1] EXCEPT !.err = FALSE]
      OBVIOUS
    <3> QED BY <3>3, <3>4, <3>5
  <2> QED BY <2>2, <2>3, <2>4, <2>5, <2>6, <2>7
<1>6. Keeps(Errored(st)) /\ Keeps(Unchanged(st))
  BY <1>4, <1>5 DEF Errored, Unchanged
<1> QED BY <1>4, <1>5, <1>6

-----------------------------------------------------------------------------
(* Every step of Reconcile *)

\* Skip changes the queue only.
LEMMA SkipRefines == ASSUME RefInv, Skip PROVE RefInv' /\ Unseen
BY DEF Skip, RefInv, GenInv, OwnedInv, MarkedInv, FailInv, Unseen, objVars, cacheVars, localVars

\* A reconcile starts from the informer's copy, which is never ahead.
LEMMA StartRefines == ASSUME TypeOK, LifeInv, RefInv, Start PROVE RefInv' /\ Unseen
<1>1. /\ UNCHANGED <<kode, status, cacheKode, cacheStatus, next>> /\ k' = cacheKode
      /\ cacheKode.exists /\ (cacheKode.deleting => cacheKode.fin)
  BY DEF Start, objVars, cacheVars
<1>2. cacheKode \in Meta /\ cacheStatus \in Status
  BY DEF TypeOK, ClusterTypeOK
<1>3. CASE cacheKode.deleting
  <2>1. pc' = "markDeleting" /\ st' = [cacheStatus EXCEPT !.phase = "Deleting"]
    BY <1>3 DEF Start
  <2>2. st'.phase = "Deleting" /\ st'.obs = cacheStatus.obs
    BY <1>2, <2>1 DEF Status
  <2> QED BY <1>1, <1>3, <2>1, <2>2
          DEF RefInv, GenInv, OwnedInv, MarkedInv, FailInv, DeletingSteps, Unseen
<1>4. CASE ~cacheKode.deleting
  <2>1. pc' = Route(cacheKode, cacheStatus) /\ st' = cacheStatus
    BY <1>4 DEF Start
  <2>2. cacheStatus.phase # "Deleting"
    BY <1>4 DEF LifeInv, ServerInv
  <2>3. pc' \notin DeletingSteps \cup {"idle", "markDeleting", "advance"}
    BY <1>2, <2>1, <2>2 DEF Route, HandlerStep, DeletingSteps
  <2>4. pc' # "addFinalizer" => cacheKode.fin
    BY <1>2, <2>1 DEF Route, Meta
  <2> QED BY <1>1, <1>4, <2>1, <2>3, <2>4
          DEF RefInv, GenInv, OwnedInv, MarkedInv, FailInv, Unseen
<1> QED BY <1>3, <1>4

\* The mark is written, or the reconcile is over, or the Kode is gone.
LEMMA MarkDeletingRefines ==
  ASSUME TypeOK, LifeInv, RefInv, StaysDeleting, MarkDeleting
  PROVE  RefInv' /\ (Unseen \/ Rewritten)
<1>1. /\ pc = "markDeleting" /\ UNCHANGED <<kode, cacheKode, cacheStatus>>
      /\ Save(st, TRUE, TRUE) /\ (Goto(Route(k, st), st) \/ Finish(TRUE))
  BY DEF MarkDeleting, Save, OnlyStatus, cacheVars
<1>2. GoodCopy(st) /\ st.phase = "Deleting" /\ k.deleting /\ k.fin
  BY <1>1, KeepingCopies, KeepingIsGood DEF LifeInv, CopyInv, StepInv
<1>3. GoesOn(st)
  <2>1. Route(k, st) \in {"mismatch", "resetRetry", "deleting"}
    BY <1>2 DEF Route, HandlerStep, TypeOK, Meta
  <2> QED BY <1>1, <1>2, <2>1 DEF GoesOn, Goto, Finish, Forget
<1>4. pc' = "idle" \/ ~kode.exists \/ status'.phase = "Deleting"
  <2>1. \/ pc' = "idle"
        \/ ~cacheKode.exists
        \/ status' \in MergePatch(cacheStatus, st, status)
    BY DEF MarkDeleting, Save, Finish, Forget
  <2>2. status' \in MergePatch(cacheStatus, st, status) => status'.phase = "Deleting"
    BY <1>2 DEF MergePatch, Pick, RefInv, MarkedInv
  <2> QED BY <1>1, <2>1, <2>2 DEF RefInv, OwnedInv
<1> QED BY <1>1, <1>2, <1>3, <1>4, SavingRefines

\* A new Kode gets its finalizer, and then its first status.
LEMMA AddFinalizerRefines ==
  ASSUME TypeOK, LifeInv, RefInv, AddFinalizer
  PROVE  RefInv' /\ (Unseen \/ (kode.exists /\ kode' = [kode EXCEPT !.fin = TRUE]
                               /\ UNCHANGED status))
<1> DEFINE fresh == [st EXCEPT !.phase = "Pending", !.obs = k.gen]
<1>1. pc = "addFinalizer" /\ UNCHANGED <<status, cacheKode, cacheStatus>> /\ ~k.deleting
  BY DEF AddFinalizer, cacheVars, LifeInv, StepInv, DeletionSteps
<1>2. kode \in Meta /\ k.deleting = FALSE /\ fresh.phase = "Pending" /\ fresh.obs = k.gen
  BY <1>1 DEF TypeOK, ClusterTypeOK, Meta, Status
<1>3. \/ kode.exists /\ kode' = [kode EXCEPT !.fin = TRUE]
      \/ kode' = kode
  BY DEF AddFinalizer, UpdateAccepted
<1>4. /\ kode'.exists = kode.exists /\ kode'.gen = kode.gen
      /\ kode'.deleting = kode.deleting /\ (kode.fin => kode'.fin)
  BY <1>2, <1>3 DEF Meta
<1>5. \/ Goto("init", fresh) /\ (kode'.exists => kode'.fin)
      \/ Finish(TRUE)
  <2>1. ~cacheKode.exists => ~kode.exists
    BY <1>1 DEF RefInv, OwnedInv
  <2>2. [kode EXCEPT !.fin = TRUE].fin = TRUE
    BY <1>2 DEF Meta
  <2> QED BY <1>4, <2>1, <2>2 DEF AddFinalizer
<1> HIDE DEF fresh
<1>6. /\ cacheKode'.gen <= kode'.gen /\ status'.obs <= kode'.gen /\ cacheStatus'.obs <= kode'.gen
      /\ cacheKode'.fin /\ kode'.exists => kode'.fin
      /\ kode'.exists /\ ~kode'.fin => status'.phase = NoPhase /\ ~kode'.deleting
      /\ kode'.exists => cacheKode'.exists
      /\ cacheStatus'.phase = "Deleting" => status'.phase = "Deleting"
  BY <1>1, <1>4 DEF RefInv, GenInv, OwnedInv, MarkedInv
<1>7. ASSUME Goto("init", fresh), kode'.exists => kode'.fin PROVE RefInv'
  <2>1. pc' = "init" /\ k' = k /\ st' = fresh
    BY <1>7 DEF Goto
  <2> QED BY <1>1, <1>2, <1>4, <1>6, <1>7, <2>1
          DEF RefInv, GenInv, OwnedInv, MarkedInv, FailInv, DeletingSteps
<1>8. ASSUME Finish(TRUE) PROVE RefInv'
  <2>1. pc' = "idle"
    BY <1>8 DEF Finish, Forget
  <2> QED BY <1>1, <1>6, <2>1
          DEF RefInv, GenInv, OwnedInv, MarkedInv, FailInv, DeletingSteps
<1> QED BY <1>1, <1>3, <1>5, <1>7, <1>8 DEF Unseen

\* The finalizer goes from a Kode that shows Deleting, and the Kode with it.
LEMMA RemoveFinalizerRefines ==
  ASSUME TypeOK, LifeInv, RefInv, RemoveFinalizer
  PROVE  RefInv' /\ (Unseen \/ ( /\ kode.exists /\ kode.fin /\ kode.deleting
                                /\ status.phase = "Deleting" /\ UNCHANGED status
                                /\ kode' = [kode EXCEPT !.fin = FALSE, !.exists = FALSE]))
<1>1. /\ pc = "removeFinalizer" /\ UNCHANGED <<status, cacheKode, cacheStatus>>
      /\ Finish(FALSE) \/ Goto("error", st)
  BY DEF RemoveFinalizer, cacheVars
<1>2. k.deleting /\ kode.deleting /\ kode \in Meta
  BY <1>1 DEF RefInv, MarkedInv, DeletingSteps, LifeInv, CopyInv, ServerInv, TypeOK, ClusterTypeOK
<1>3. \/ kode' = kode
      \/ /\ kode.exists /\ kode.fin /\ status.phase = "Deleting"
         /\ kode' = [kode EXCEPT !.fin = FALSE, !.exists = FALSE] /\ Finish(FALSE)
  <2>1. kode.exists => kode.fin /\ status.phase = "Deleting"
    BY <1>1, <1>2 DEF RefInv, OwnedInv, MarkedInv
  <2>2. (~kode.deleting) = FALSE
    BY <1>2
  <2> QED BY <2>1, <2>2 DEF RemoveFinalizer, UpdateAccepted
<1>4. ASSUME kode' = kode PROVE RefInv'
  BY <1>1, <1>4 DEF Finish, Forget, Goto, RefInv, GenInv, OwnedInv, MarkedInv, FailInv,
                    DeletingSteps
<1>5. ASSUME kode' = [kode EXCEPT !.fin = FALSE, !.exists = FALSE], Finish(FALSE) PROVE RefInv'
  <2>1. kode'.exists = FALSE /\ kode'.gen = kode.gen
    BY <1>2, <1>5 DEF Meta
  <2>2. pc' = "idle"
    BY <1>5 DEF Finish, Forget
  <2> QED BY <1>1, <2>1, <2>2
          DEF RefInv, GenInv, OwnedInv, MarkedInv, FailInv, DeletingSteps
<1> QED BY <1>1, <1>2, <1>3, <1>4, <1>5 DEF Unseen

\* An edit is observed: the phase becomes Updating, unless the Kode is going.
LEMMA GenerationMismatchRefines ==
  ASSUME TypeOK, LifeInv, RefInv, StaysDeleting, GenerationMismatch
  PROVE  RefInv' /\ (Unseen \/ Rewritten)
<1> DEFINE w == Mismatched(st, k.gen)
<1>1. /\ pc = "mismatch" /\ UNCHANGED <<kode, cacheKode, cacheStatus>>
      /\ Save(w, TRUE, TRUE) /\ Finish(TRUE)
  BY DEF GenerationMismatch, Save, OnlyStatus, cacheVars
<1>2. st \in Status /\ k.gen \in Nat
  BY DEF TypeOK, Meta
<1>3. w \in Status
  BY <1>2, CopiesType
<1>4. /\ w.phase = IF st.phase = "Deleting" THEN "Deleting" ELSE "Updating"
      /\ w.obs = k.gen
  BY <1>2 DEF Mismatched, Progressing, WithConditions, Status
<1> HIDE DEF w
<1>5. GoodCopy(w)
  BY <1>1, <1>3, <1>4 DEF GoodCopy, LifeInv, CopyInv, RefInv, GenInv, NoPhase
<1> QED BY <1>1, <1>5, GoodEnds, SavingRefines

\* HandleState saves the phase the handler moved to, which is never Failed.
LEMMA SavePhaseRefines ==
  ASSUME TypeOK, LifeInv, RefInv, StaysDeleting, SavePhase
  PROVE  RefInv' /\ (Unseen \/ Rewritten)
<1> DEFINE w == [st EXCEPT !.phase = next]
<1>1. /\ pc = "advance" /\ UNCHANGED <<kode, cacheKode, cacheStatus>>
      /\ Save(w, TRUE, TRUE) /\ (Finish(again) \/ Finish(TRUE))
  BY DEF SavePhase, Save, OnlyStatus, cacheVars
<1>2. next \in Phases \ {"Deleting"} /\ ~k.deleting /\ st \in Status
  BY <1>1 DEF LifeInv, StepInv, DeletionSteps, TypeOK
<1>3. w \in Status /\ w.phase = next /\ w.obs = st.obs
  BY <1>2 DEF Status
<1> HIDE DEF w
<1>4. GoodCopy(w)
  BY <1>1, <1>2, <1>3 DEF GoodCopy, RefInv, GenInv, FailInv, Phases, NoPhase
<1> QED BY <1>1, <1>4, GoodEnds, SavingRefines

\* What the remaining steps of a reconcile have in common.
LEMMA HandlerRefines ==
  ASSUME TypeOK, LifeInv, RefInv, StaysDeleting,
         pc \notin {"idle", "addFinalizer", "mismatch", "markDeleting"}, OnlyStatus,
         NEW s, Keeps(s), Save(s, TRUE, TRUE) \/ UNCHANGED status, GoesOn(s)
  PROVE  RefInv' /\ (Unseen \/ Rewritten)
BY KeepingRefines DEF OnlyStatus, cacheVars

\* The steps that save a copy and end the reconcile, whatever the answer.
LEMMA ClosingRefines ==
  ASSUME TypeOK, LifeInv, RefInv, StaysDeleting, Initialise \/ RecordError \/ CleanedUp
  PROVE  RefInv' /\ (Unseen \/ Rewritten)
<1>1. PICK s \in {st, Errored(st)} :
        /\ pc \in {"init", "error", "cleaned"} /\ OnlyStatus
        /\ Save(s, TRUE, TRUE) /\ Finish(TRUE)
  BY DEF Initialise, RecordError, CleanedUp, Save
<1>2. Keeps(s) /\ GoesOn(s)
  BY <1>1, KeepingCopies, GoodEnds
<1> QED BY <1>1, <1>2, HandlerRefines

\* Where HandlerStep leads from a copy that says Deleting exactly when its Kode is.
LEMMA HandlerStepGoesOn ==
  ASSUME NEW s, s.phase = "Deleting" => k.deleting, Goto(HandlerStep(s.phase), s)
  PROVE  GoesOn(s)
BY DEF GoesOn, Goto, HandlerStep, DeletingSteps

\* Resetting the retry count keeps phase and generation.
LEMMA ResetRetryRefines ==
  ASSUME TypeOK, LifeInv, RefInv, StaysDeleting, ResetRetry
  PROVE  RefInv' /\ (Unseen \/ Rewritten)
<1> DEFINE w == [st EXCEPT !.retry = 0]
<1>1. /\ pc = "resetRetry" /\ OnlyStatus
      /\ Save(w, TRUE, TRUE) /\ (Goto(HandlerStep(w.phase), w) \/ Finish(TRUE))
  BY DEF ResetRetry, Save
<1>2. Keeps(w)
  BY KeepingCopies
<1> HIDE DEF w
<1>3. w.phase = "Deleting" => k.deleting
  BY <1>1, <1>2 DEF Keeps, LifeInv, CopyInv
<1>4. GoesOn(w)
  BY <1>1, <1>3, GoodEnds, HandlerStepGoesOn
<1> QED BY <1>1, <1>2, <1>4, HandlerRefines

\* handlePendingState moves to Configuring or records an error.
LEMMA HandlePendingRefines ==
  ASSUME TypeOK, LifeInv, RefInv, StaysDeleting, HandlePending
  PROVE  RefInv' /\ (Unseen \/ Rewritten)
<1>1. PICK s \in {st, Progressing(st)} :
        /\ pc = "pending" /\ OnlyStatus
        /\ Save(s, TRUE, TRUE) \/ UNCHANGED status
        /\ Advance("Configuring", TRUE, s) \/ Goto("error", s)
  BY DEF HandlePending, Save
<1>2. Keeps(s) /\ GoesOn(s)
  BY <1>1, KeepingCopies, GoodEnds DEF Phases, Steps, DeletingSteps
<1> QED BY <1>1, <1>2, HandlerRefines

\* fetchTemplatesWithRetry saves the copy as it is.
LEMMA FetchTemplateRefines ==
  ASSUME TypeOK, LifeInv, RefInv, StaysDeleting, FetchTemplate
  PROVE  RefInv' /\ (Unseen \/ Rewritten)
<1>1. /\ pc = "fetch" /\ OnlyStatus
      /\ Save(st, TRUE, TRUE) \/ UNCHANGED status
      /\ Advance("Pending", TRUE, st) \/ \E step \in {"detect", "check", "error"} : Goto(step, st)
  BY DEF FetchTemplate, FetchFailed, Save
<1>2. Keeps(st) /\ GoesOn(st)
  BY <1>1, KeepingCopies, GoodEnds DEF Phases, Steps, DeletingSteps
<1> QED BY <1>1, <1>2, HandlerRefines

\* Finding the changes either looks further or settles for Active.
LEMMA DetectRefines ==
  ASSUME TypeOK, LifeInv, RefInv, StaysDeleting, Detect
  PROVE  RefInv' /\ (Unseen \/ Rewritten)
<1>1. pc = "detect" /\ OnlyStatus
  BY DEF Detect
<1>2. CASE pc' = "apply" /\ UNCHANGED <<status, k, st>>
  <2>1. Keeps(st) /\ GoesOn(st)
    BY <1>2, KeepingCopies DEF GoesOn, DeletingSteps
  <2> QED BY <1>1, <1>2, <2>1, HandlerRefines
<1>3. CASE \E s \in {st, Unchanged(st)} :
             /\ Save(s, TRUE, TRUE) \/ UNCHANGED status
             /\ Advance("Active", TRUE, s) \/ Goto("validate", s) \/ Goto("error", s)
  <2>1. PICK s \in {st, Unchanged(st)} :
             /\ Save(s, TRUE, TRUE) \/ UNCHANGED status
             /\ Advance("Active", TRUE, s) \/ Goto("validate", s) \/ Goto("error", s)
    BY <1>3
  <2>2. Keeps(s) /\ GoesOn(s)
    BY <2>1, KeepingCopies, GoodEnds DEF Phases, Steps, DeletingSteps
  <2> QED BY <1>1, <2>1, <2>2, HandlerRefines
<1> QED BY <1>2, <1>3 DEF Detect, ReadFails, Save

\* Applying and deleting children leaves the Kode and its status alone.
LEMMA ChildStepRefines ==
  ASSUME TypeOK, LifeInv, RefInv, StaysDeleting, Apply \/ Cleanup
  PROVE  RefInv' /\ Unseen
<1>1. UNCHANGED <<kode, status, cacheKode, cacheStatus>>
  BY DEF Apply, Cleanup, objVars, cacheVars
<1>2. /\ pc \in {"apply", "cleanup"} /\ k' = k /\ st' = st
      /\ pc' \in {"apply", "validate", "cleanup", "cleaned", "error"}
      /\ pc' \in {"cleanup", "cleaned"} => pc = "cleanup"
  BY DEF Apply, Cleanup, Goto
<1> QED BY <1>1, <1>2
    DEF RefInv, GenInv, OwnedInv, MarkedInv, FailInv, DeletingSteps, Unseen

\* Validation goes on with the copy or saves its conditions.
LEMMA ValidateRefines ==
  ASSUME TypeOK, LifeInv, RefInv, StaysDeleting, Validate
  PROVE  RefInv' /\ (Unseen \/ Rewritten)
<1>1. PICK s \in {st, Progressing(st)} :
        /\ pc = "validate" /\ OnlyStatus
        /\ Save(s, TRUE, TRUE) \/ UNCHANGED status
        /\ Advance("Provisioning", TRUE, s) \/ Goto("check", s) \/ Goto("error", s)
  BY DEF Validate, ReadFails, Save
<1>2. Keeps(s) /\ GoesOn(s)
  BY <1>1, KeepingCopies, GoodEnds DEF Phases, Steps, DeletingSteps
<1> QED BY <1>1, <1>2, HandlerRefines

\* The handlers that look at the children and the pod.
LEMMA CheckRefines ==
  ASSUME TypeOK, LifeInv, RefInv, StaysDeleting,
         CheckProvisioning \/ CheckUpdating \/ CheckActive \/ Stabilise
  PROVE  RefInv' /\ (Unseen \/ Rewritten)
<1> DEFINE copies == {st, Progressing(st), WithConditions(st, "False", st.conds.avail, "True"),
                      [st EXCEPT !.port = Port], Serving(st),
                      [Serving(st) EXCEPT !.port = Port],
                      [Serving(st) EXCEPT !.port = Port, !.obs = k.gen]}
           ends(s) == \/ Finish(TRUE) \/ Goto("stabilise", s) \/ Goto("error", s)
                      \/ Advance("Active", FALSE, s) \/ Advance("Updating", TRUE, s)
<1>1. pc \in {"check", "stabilise"} /\ OnlyStatus
  BY DEF CheckProvisioning, CheckUpdating, CheckActive, Stabilise
<1>2. \E s \in copies : (Save(s, TRUE, TRUE) \/ UNCHANGED status) /\ ends(s)
  BY DEF CheckProvisioning, CheckUpdating, CheckActive, Stabilise, ReadFails, Save
<1>3. \A s \in copies : Keeps(s)
  BY KeepingCopies, Zenon
<1>4. \A s : ends(s) => GoesOn(s)
  BY GoodEnds DEF Phases, Steps, DeletingSteps
<1> HIDE DEF copies, ends
<1> QED BY <1>1, <1>2, <1>3, <1>4, HandlerRefines

\* handleFailedState changes the counter, the error and the conditions only.
LEMMA HandleFailedRefines ==
  ASSUME TypeOK, LifeInv, RefInv, StaysDeleting, HandleFailed
  PROVE  RefInv' /\ (Unseen \/ Rewritten)
<1> DEFINE copies == {[Progressing(st) EXCEPT !.retry = @ + 1, !.err = FALSE],
                      WithConditions(st, "False", "False", "False")}
<1>1. /\ pc = "failed" /\ OnlyStatus
      /\ \E s \in copies : Save(s, TRUE, TRUE) /\ (Goto("fetch", s) \/ Finish(TRUE))
  BY DEF HandleFailed, Save
<1>2. \A s \in copies : Keeps(s)
  BY KeepingCopies
<1>3. \A s : Goto("fetch", s) \/ Finish(TRUE) => GoesOn(s)
  BY GoodEnds DEF Steps, DeletingSteps
<1> HIDE DEF copies
<1> QED BY <1>1, <1>2, <1>3, HandlerRefines

\* Recovery moves to a phase a Kode can work in.
LEMMA RecoverRefines ==
  ASSUME TypeOK, LifeInv, RefInv, StaysDeleting, Recover
  PROVE  RefInv' /\ (Unseen \/ Rewritten)
<1>1. pc = "check" /\ OnlyStatus /\ UNCHANGED status
  BY DEF Recover
<1>2. \E phase \in {"Pending", "Provisioning", "Configuring"} : Advance(phase, TRUE, st)
  BY DEF Recover
<1>3. Keeps(st) /\ GoesOn(st)
  BY <1>2, KeepingCopies, GoodEnds DEF Phases
<1> QED BY <1>1, <1>3, HandlerRefines

\* handleDeletingState goes on with a Kode that is being deleted.
LEMMA HandleDeletingRefines ==
  ASSUME TypeOK, LifeInv, RefInv, StaysDeleting, HandleDeleting
  PROVE  RefInv' /\ (Unseen \/ Rewritten)
<1> DEFINE s == Progressing(st)
<1>1. /\ pc = "deleting" /\ OnlyStatus
      /\ Save(s, TRUE, TRUE) /\ (Goto("checkDeleted", s) \/ Finish(TRUE))
  BY DEF HandleDeleting, Save
<1>2. Keeps(s)
  BY KeepingCopies
<1> HIDE DEF s
<1>3. k.deleting
  BY <1>1 DEF RefInv, MarkedInv, DeletingSteps
<1>4. GoesOn(s)
  BY <1>1, <1>3, GoodEnds DEF DeletingSteps
<1> QED BY <1>1, <1>2, <1>4, HandlerRefines

\* The deletion cycle is counted in a copy that keeps the phase.
LEMMA CheckDeletedRefines ==
  ASSUME TypeOK, LifeInv, RefInv, StaysDeleting, CheckDeleted
  PROVE  RefInv' /\ (Unseen \/ Rewritten)
<1> DEFINE first == [st EXCEPT !.cycle = 1]
           more  == [st EXCEPT !.cycle = IF @ < MaxCycle THEN @ + 1 ELSE @]
<1>1. pc = "checkDeleted" /\ OnlyStatus
  BY DEF CheckDeleted
<1>2. Keeps(first) /\ Keeps(more) /\ Keeps(st)
  <2>1. st \in Status
    BY DEF TypeOK
  <2>2. \A n \in Nat : Keeps([st EXCEPT !.cycle = n])
    BY <2>1 DEF Keeps, Status
  <2>3. (IF st.cycle < MaxCycle THEN st.cycle + 1 ELSE st.cycle) \in Nat
    BY <2>1 DEF Status
  <2>4. more = [st EXCEPT !.cycle = IF st.cycle < MaxCycle THEN st.cycle + 1 ELSE st.cycle]
    BY <2>1
  <2> HIDE DEF more
  <2> QED BY <2>2, <2>3, <2>4, KeepingCopies
<1>3. \/ UNCHANGED status /\ (Goto("error", st) \/ Goto("removeFinalizer", st))
      \/ UNCHANGED <<status, k>> /\ pc' = "cleanup" /\ st' = first
      \/ Save(more, TRUE, TRUE) /\ Finish(TRUE)
  BY DEF CheckDeleted, ReadFails, Save
<1> HIDE DEF first, more
<1>4. k.deleting
  BY <1>1 DEF RefInv, MarkedInv, DeletingSteps
<1>5. CASE UNCHANGED status /\ (Goto("error", st) \/ Goto("removeFinalizer", st))
  <2>1. GoesOn(st)
    BY <1>4, <1>5, GoodEnds DEF Steps, DeletingSteps
  <2> QED BY <1>1, <1>2, <1>5, <2>1, HandlerRefines
<1>6. CASE UNCHANGED <<status, k>> /\ pc' = "cleanup" /\ st' = first
  <2>1. GoesOn(first)
    BY <1>4, <1>6 DEF GoesOn
  <2> QED BY <1>1, <1>2, <1>6, <2>1, HandlerRefines
<1>7. CASE Save(more, TRUE, TRUE) /\ Finish(TRUE)
  <2>1. GoesOn(more)
    BY <1>7, GoodEnds
  <2> QED BY <1>1, <1>2, <1>7, <2>1, HandlerRefines
<1> QED BY <1>3, <1>5, <1>6, <1>7

\* A crash drops the copy and brings the cache up to date.
LEMMA CrashRefines == ASSUME TypeOK, RefInv, Crash PROVE RefInv' /\ Unseen
<1>1. /\ pc' = "idle" /\ UNCHANGED <<kode, status>>
      /\ cacheKode' = kode /\ cacheStatus' = status
  BY DEF Crash, Forget, Restart, objVars
<1>2. kode.gen <= kode.gen /\ status.obs <= kode.gen
  BY DEF TypeOK, ClusterTypeOK, Meta, RefInv, GenInv
<1>3. GenInv'
  BY <1>1, <1>2 DEF GenInv
<1>4. OwnedInv' /\ FailInv'
  BY <1>1 DEF RefInv, OwnedInv, FailInv
<1>5. MarkedInv'
  BY <1>1 DEF MarkedInv, DeletingSteps
<1> QED BY <1>1, <1>3, <1>4, <1>5 DEF RefInv, Unseen

-----------------------------------------------------------------------------
(* The environment *)

\* An edit raises the generation.
LEMMA EditRefines ==
  ASSUME TypeOK, RefInv, \E s \in Specs : EditSpec(s), UNCHANGED localVars
  PROVE  RefInv' /\ Lifecycle!Edit
<1>1. PICK s \in Specs : /\ kode.exists /\ kode' = [kode EXCEPT !.spec = s, !.gen = @ + 1]
                        /\ UNCHANGED <<status, cacheKode, cacheStatus>>
  BY DEF EditSpec, cacheVars
<1>2. /\ kode'.exists = kode.exists /\ kode'.fin = kode.fin
      /\ kode'.deleting = kode.deleting /\ kode'.gen = kode.gen + 1
      /\ kode.gen \in Nat /\ cacheKode.gen \in Nat /\ status.obs \in Nat
      /\ cacheStatus.obs \in Nat /\ k.gen \in Nat /\ st.obs \in Nat
  BY <1>1 DEF TypeOK, ClusterTypeOK, Meta, Status
<1>3. RefInv'
  BY <1>1, <1>2 DEF RefInv, GenInv, OwnedInv, MarkedInv, FailInv, localVars
<1>4. Lifecycle!Edit
  BY <1>1, <1>2 DEF Lifecycle!Edit
<1> QED BY <1>3, <1>4

\* A deletion is a request to a Kode with the finalizer, and the end of one without.
LEMMA DeleteRefines ==
  ASSUME TypeOK, RefInv, DeleteKode, UNCHANGED localVars
  PROVE  RefInv' /\ (Lifecycle!Request \/ Lifecycle!Vanish)
<1>1. /\ kode.exists /\ ~kode.deleting /\ UNCHANGED <<status, cacheKode, cacheStatus>>
      /\ kode' = IF kode.fin THEN [kode EXCEPT !.deleting = TRUE, !.gen = @ + 1]
                             ELSE [kode EXCEPT !.exists = FALSE]
  BY DEF DeleteKode, cacheVars
<1>2. /\ kode \in Meta /\ kode.gen \in Nat /\ cacheKode.gen \in Nat /\ status.obs \in Nat
      /\ cacheStatus.obs \in Nat /\ k.gen \in Nat /\ st.obs \in Nat
  BY DEF TypeOK, ClusterTypeOK, Meta, Status
<1>3. CASE kode.fin
  <2>1. /\ kode'.exists = kode.exists /\ kode'.fin = kode.fin
        /\ kode'.deleting = TRUE /\ kode'.gen = kode.gen + 1
    BY <1>1, <1>2, <1>3 DEF Meta
  <2>2. RefInv'
    BY <1>1, <1>2, <1>3, <2>1 DEF RefInv, GenInv, OwnedInv, MarkedInv, FailInv, localVars
  <2>3. Lifecycle!Request
    BY <1>1, <1>3, <2>1 DEF Lifecycle!Request
  <2> QED BY <2>2, <2>3
<1>4. CASE ~kode.fin
  <2>1. /\ kode'.exists = FALSE /\ kode'.fin = kode.fin
        /\ kode'.deleting = kode.deleting /\ kode'.gen = kode.gen
    BY <1>1, <1>2, <1>4 DEF Meta
  <2>2. RefInv'
    BY <1>1, <1>2, <2>1 DEF RefInv, GenInv, OwnedInv, MarkedInv, FailInv, localVars
  <2>3. status.phase = ""
    BY <1>1, <1>4 DEF RefInv, OwnedInv, NoPhase
  <2>4. Lifecycle!Vanish
    BY <1>1, <1>4, <2>1, <2>3 DEF Lifecycle!Vanish
  <2> QED BY <2>2, <2>4
<1> QED BY <1>3, <1>4

\* The EntryPoint controller fails a Kode that is Active.
LEMMA EntryPointRefines ==
  ASSUME TypeOK, RefInv, EntryPointFails, UNCHANGED localVars
  PROVE  RefInv' /\ Lifecycle!Move
<1>1. /\ "entrypoint" \in Drifts /\ kode.exists /\ status.phase = "Active"
      /\ UNCHANGED <<kode, cacheKode, cacheStatus>>
      /\ cacheStatus = status
  BY DEF EntryPointFails, cacheVars, Synced
<1>2. status'.phase = "Failed" /\ status'.obs = status.obs
  BY DEF EntryPointFails, TypeOK, ClusterTypeOK, Status
<1>3. kode.fin
  BY <1>1 DEF RefInv, OwnedInv, NoPhase
<1>4. RefInv'
  <2>1. GenInv' /\ OwnedInv' /\ FailInv'
    BY <1>1, <1>2, <1>3 DEF RefInv, GenInv, OwnedInv, FailInv, localVars
  <2>2. MarkedInv'
    BY <1>1, <1>2 DEF RefInv, MarkedInv, localVars
  <2> QED BY <2>1, <2>2 DEF RefInv
<1>5. Lifecycle!Move
  BY <1>1, <1>2, <1>3 DEF Lifecycle!Move, Lifecycle!OnlyPhase, Lifecycle!Follows
<1> QED BY <1>4, <1>5

\* What the lifecycle sees of a step of the user or of the EntryPoint controller.
LifeStep ==
  \/ Unseen \/ Rewritten
  \/ Lifecycle!Adopt \/ Lifecycle!Release
  \/ Lifecycle!Edit \/ Lifecycle!Request \/ Lifecycle!Vanish \/ Lifecycle!Move

\* The environment takes no other steps the lifecycle sees.
LEMMA EnvironmentRefines ==
  ASSUME TypeOK, RefInv, Environment, UNCHANGED localVars
  PROVE  RefInv' /\ LifeStep
<1>1. CASE UNCHANGED <<kode, status, cacheKode, cacheStatus>>
  BY <1>1 DEF RefInv, GenInv, OwnedInv, MarkedInv, FailInv, localVars, LifeStep, Unseen
<1>2. CASE SyncKode
  <2>1. UNCHANGED <<kode, status>> /\ cacheKode' = kode /\ cacheStatus' = status
    BY <1>2 DEF SyncKode, objVars
  <2>2. kode.gen <= kode.gen
    BY DEF TypeOK, ClusterTypeOK, Meta
  <2> QED BY <2>1, <2>2
      DEF RefInv, GenInv, OwnedInv, MarkedInv, FailInv, localVars, LifeStep, Unseen
<1>3. (\/ PodStart \/ PodStop \/ PodFails
       \/ \E kind \in Kinds :
            SyncChild(kind) \/ LoseChild(kind) \/ FinishDelete(kind) \/ GarbageCollect(kind))
        => UNCHANGED <<kode, status, cacheKode, cacheStatus>>
  BY DEF PodStart, PodStop, PodFails, SyncChild, LoseChild, FinishDelete, GarbageCollect,
         objVars, cacheVars
<1> QED BY <1>1, <1>2, <1>3, EditRefines, DeleteRefines, EntryPointRefines
    DEF Environment, LifeStep

-----------------------------------------------------------------------------
(* The invariant, and what it gives *)

\* A new Kode is at generation 1, without finalizer, status or reconcile.
LEMMA InitRef == Init => RefInv
<1> SUFFICES ASSUME Init PROVE RefInv
  OBVIOUS
<1>1. PICK s \in Specs :
        /\ kode = [exists |-> TRUE, deleting |-> FALSE, fin |-> FALSE, gen |-> 1, spec |-> s]
        /\ cacheKode = [exists |-> FALSE, deleting |-> FALSE, fin |-> FALSE, gen |-> 1, spec |-> s]
  BY DEF Init, ClusterInit
<1>2. /\ kode.gen = 1 /\ cacheKode.gen = 1 /\ ~kode.deleting /\ ~cacheKode.fin
      /\ pc = "idle" /\ status.obs = 0 /\ cacheStatus = status /\ status.phase = NoPhase
  BY <1>1 DEF Init, ClusterInit, LocalInit, EmptyStatus
<1>3. GenInv
  BY <1>2 DEF GenInv
<1>4. OwnedInv /\ FailInv
  BY <1>2 DEF OwnedInv, FailInv, NoPhase
<1>5. MarkedInv
  BY <1>2 DEF MarkedInv, DeletingSteps, NoPhase
<1> QED BY <1>3, <1>4, <1>5 DEF RefInv

\* A Kode taken on, and one let go, as the lifecycle sees them.
LEMMA FinalizerSteps ==
  ASSUME TypeOK, LifeInv, RefInv
  PROVE  /\ AddFinalizer => LifeStep
         /\ RemoveFinalizer => LifeStep
<1>0. kode \in Meta
  BY DEF TypeOK, ClusterTypeOK
<1>1. ASSUME AddFinalizer, kode.exists, kode' = [kode EXCEPT !.fin = TRUE], UNCHANGED status
      PROVE  Unseen \/ Lifecycle!Adopt
  <2>1. CASE kode.fin
    BY <1>0, <1>1, <2>1 DEF Unseen, Meta
  <2>2. CASE ~kode.fin
    <3>1. status.phase = "" /\ ~kode.deleting
      BY <1>1, <2>2 DEF RefInv, OwnedInv, NoPhase
    <3>2. /\ kode'.fin = TRUE /\ kode'.exists = kode.exists
          /\ kode'.deleting = kode.deleting /\ kode'.gen = kode.gen
      BY <1>0, <1>1 DEF Meta
    <3> QED BY <1>1, <2>2, <3>1, <3>2 DEF Lifecycle!Adopt
  <2> QED BY <2>1, <2>2
<1>2. ASSUME kode.exists, kode.fin, kode.deleting, status.phase = "Deleting", UNCHANGED status,
             kode' = [kode EXCEPT !.fin = FALSE, !.exists = FALSE]
      PROVE  Lifecycle!Release
  <2>1. /\ kode'.fin = FALSE /\ kode'.exists = FALSE
        /\ kode'.deleting = kode.deleting /\ kode'.gen = kode.gen
    BY <1>0, <1>2 DEF Meta
  <2> QED BY <1>2, <2>1 DEF Lifecycle!Release
<1> QED BY <1>1, <1>2, AddFinalizerRefines, RemoveFinalizerRefines DEF LifeStep

\* Every step keeps the invariant and is one the lifecycle knows.
LEMMA NextRef ==
  ASSUME TypeOK, LifeInv, RefInv, [Next]_vars
  PROVE  RefInv' /\ LifeStep
<1>0. StaysDeleting
  BY NextLife
<1>1. CASE UNCHANGED vars
  BY <1>1 DEF vars, clusterVars, localVars, RefInv, GenInv, OwnedInv, MarkedInv, FailInv,
              LifeStep, Unseen
<1>2. CASE AddFinalizer \/ RemoveFinalizer
  BY <1>2, AddFinalizerRefines, RemoveFinalizerRefines, FinalizerSteps
<1>3. CASE Reconcile /\ ~AddFinalizer /\ ~RemoveFinalizer
  <2>1. RefInv' /\ (Unseen \/ Rewritten)
    BY <1>0, <1>3, SkipRefines, StartRefines, MarkDeletingRefines, ClosingRefines,
       GenerationMismatchRefines, ResetRetryRefines, SavePhaseRefines, HandlePendingRefines,
       FetchTemplateRefines, DetectRefines, ChildStepRefines, ValidateRefines, CheckRefines,
       HandleFailedRefines, RecoverRefines, HandleDeletingRefines, CheckDeletedRefines
       DEF Reconcile
  <2> QED BY <2>1 DEF LifeStep
<1>4. CASE Crash
  BY <1>4, CrashRefines DEF LifeStep
<1>5. CASE Environment /\ UNCHANGED localVars
  BY <1>5, EnvironmentRefines
<1> QED BY <1>1, <1>2, <1>3, <1>4, <1>5 DEF Next

\* The inductive invariant of the refinement: generations, the finalizer, the mark of
\* a deletion and failure, on the server, in the cache and in the copy.
THEOREM RefCorrect == Spec => []RefInv
<1>1. Init => RefInv
  BY InitRef
<1>2. TypeOK /\ LifeInv /\ RefInv /\ [Next]_vars => RefInv'
  BY NextRef
<1> QED BY <1>1, <1>2, TypeCorrect, LifeCorrect, PTL DEF Spec

\* However old the copies it works on, and whatever fails, the Kode controller implements
\* the lifecycle: no status before the finalizer, none ahead of the spec, Deleting only
\* when asked for and never left, and the finalizer removed only from a Kode that shows it.
THEOREM LifecycleImplemented == ASSUME FreshReads = FALSE PROVE Spec => FollowsLifecycle
<1>1. Init => Lifecycle!Init
  <2> SUFFICES ASSUME Init PROVE Lifecycle!Init
    OBVIOUS
  <2>1. PICK s \in Specs :
          kode = [exists |-> TRUE, deleting |-> FALSE, fin |-> FALSE, gen |-> 1, spec |-> s]
    BY DEF Init, ClusterInit
  <2> QED BY <2>1 DEF Init, ClusterInit, EmptyStatus, NoPhase, Lifecycle!Init
<1>2. TypeOK /\ LifeInv /\ RefInv /\ [Next]_vars => [Lifecycle!Next]_(Lifecycle!life)
  <2> SUFFICES ASSUME TypeOK, LifeInv, RefInv, [Next]_vars
               PROVE  [Lifecycle!Next]_(Lifecycle!life)
    OBVIOUS
  <2>1. LifeStep
    BY NextRef
  <2>2. Unseen => UNCHANGED Lifecycle!life
    BY DEF Unseen, Lifecycle!life
  <2>3. Rewritten => Lifecycle!Rewrite
    BY DEF Rewritten, Lifecycle!Rewrite, Lifecycle!OnlyPhase, Lifecycle!Working, Phases
  <2> QED BY <2>1, <2>2, <2>3 DEF LifeStep, Lifecycle!Next
<1> QED BY <1>1, <1>2, TypeCorrect, LifeCorrect, RefCorrect, PTL
        DEF Spec, FollowsLifecycle, Lifecycle!Spec

\* No handler of the Kode controller ever puts its Kode into Failed, whatever it read
\* and whatever fails: PhaseFailed is returned beside an error and never saved.
THEOREM FailsNothing == ASSUME "entrypoint" \notin Drifts PROVE Spec => []NeverFails
<1>1. RefInv => NeverFails
  BY DEF RefInv, FailInv, NeverFails
<1> QED BY <1>1, RefCorrect, PTL
=============================================================================
