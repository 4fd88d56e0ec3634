-------------------------- MODULE KodeLifecycleProofs --------------------------
(***************************************************************************)
(* Two properties of the life of a Kode, proved of the Kode controller:    *)
(* every reconcile finds a handler, and Deleting is final.                 *)
(*                                                                         *)
(* Neither is inductive: what a reconcile writes depends on its own copy,  *)
(* what the patch sends on the cache, and what comes of it on the server.  *)
(* LifeInv ties the three together.                                        *)
(***************************************************************************)
EXTENDS KodeControllerProofs

\* The server and the informer: the cache is never ahead, an empty phase
\* comes with no observed generation, and only a deletion says Deleting.
ServerInv ==
  /\ kode.gen >= 1 /\ cacheKode.gen >= 1
  /\ cacheKode.deleting => kode.deleting
  /\ status.phase = NoPhase => status.obs = 0
  /\ cacheStatus.phase = NoPhase => cacheStatus.obs = 0
  /\ cacheStatus.phase # NoPhase => status.phase # NoPhase
  /\ status.phase = "Deleting" => cacheKode.deleting
  /\ cacheStatus.phase = "Deleting" => cacheKode.deleting

\* The copy a reconcile works on: it says Deleting exactly when the Kode it
\* read was being deleted, and has a phase once the reconcile is past the
\* steps that give it one.
CopyInv ==
  pc # "idle" =>
    /\ k.gen >= 1
    /\ k.deleting => k.fin /\ cacheKode.deleting
    /\ ~k.deleting => status.phase # "Deleting"
    /\ st.phase = "Deleting" <=> k.deleting
    /\ pc \notin {"addFinalizer", "mismatch"} => st.phase # NoPhase

\* A reconcile of a Kode being deleted takes none of the other steps.
DeletionSteps == {"idle", "markDeleting", "mismatch", "resetRetry", "deleting",
                  "checkDeleted", "cleanup", "cleaned", "removeFinalizer", "error"}

StepInv ==
  /\ pc # "unhandled"
  /\ pc \notin DeletionSteps => ~k.deleting
  /\ pc = "markDeleting" => k.deleting
  /\ pc = "advance" => next \in Phases \ {"Deleting"}

LifeInv == ServerInv /\ CopyInv /\ StepInv

\* What a step promises: the invariant, and that Deleting stays.
StaysDeleting == status.phase = "Deleting" => status'.phase = "Deleting"

-----------------------------------------------------------------------------
(* How a step of a reconcile ends *)

\* The reconcile is over, or it goes on with its copy s.
EndsWith(s) ==
  \/ pc' = "idle"
  \/ /\ k' = k /\ st' = s /\ pc' \notin {"markDeleting", "addFinalizer", "unhandled"}
     /\ pc' \in DeletionSteps \/ ~k.deleting
     /\ pc' = "advance" => next' \in Phases \ {"Deleting"}

\* Goto, Finish and Advance end a step in one of these ways.
LEMMA Endings ==
  /\ \A requeue, s : Finish(requeue) => EndsWith(s)
  /\ \A step \in DeletionSteps \ {"markDeleting"} : \A s : Goto(step, s) => EndsWith(s)
  /\ \A step \in Steps \ {"markDeleting", "addFinalizer", "unhandled", "advance"} : \A s :
       ~k.deleting /\ Goto(step, s) => EndsWith(s)
  /\ \A phase \in Phases \ {"Deleting"} : \A requeue, s :
       ~k.deleting /\ Advance(phase, requeue, s) => EndsWith(s)
BY DEF EndsWith, Finish, Forget, Goto, Advance, DeletionSteps

\* The route of a Kode that is not being deleted has a handler at its end, and
\* that of one which is stays among the steps of deletion.
LEMMA RouteEnds ==
  ASSUME NEW m \in Meta, NEW s \in Status, m.gen >= 1, s.phase = NoPhase => s.obs = 0
  PROVE  /\ Route(m, s) \in Steps \ {"idle", "markDeleting", "unhandled", "advance"}
         /\ m.fin /\ s.phase = "Deleting" => Route(m, s) \in DeletionSteps \ {"markDeleting"}
         /\ Route(m, s) \notin {"addFinalizer", "mismatch"} => s.phase # NoPhase
         /\ s.phase # NoPhase =>
              HandlerStep(s.phase) \in
                Steps \ {"idle", "markDeleting", "addFinalizer", "unhandled", "advance"}
         /\ s.phase = "Deleting" => HandlerStep(s.phase) \in DeletionSteps \ {"markDeleting"}
<1>1. s.phase \in Phases \cup {NoPhase} /\ m.gen \in Nat /\ s.obs \in Nat
  BY DEF Meta, Status
<1>2. s.phase # NoPhase =>
        HandlerStep(s.phase) \in
                Steps \ {"idle", "markDeleting", "addFinalizer", "unhandled", "advance"}
  BY <1>1 DEF HandlerStep, Steps, Phases, NoPhase
<1>3. s.phase = "Deleting" => HandlerStep(s.phase) \in DeletionSteps \ {"markDeleting"}
  BY DEF HandlerStep, DeletionSteps
<1>4. s.phase = NoPhase => m.gen # s.obs
  BY <1>1
<1> QED BY <1>1, <1>2, <1>3, <1>4 DEF Route, Steps, DeletionSteps

\* What UpdateStatus leaves on the server: the phase it wanted, or the one
\* that was there when the cache showed the wanted one already.
LEMMA SavedPhase ==
  ASSUME NEW w, Save(w, TRUE, TRUE) \/ UNCHANGED status
  PROVE  \/ status' = status
         \/ status'.phase = w.phase
         \/ status'.phase = status.phase /\ w.phase = cacheStatus.phase
BY DEF Save, MergePatch, Pick

\* Every step that saves its copy, with a phase that says Deleting exactly
\* when the Kode is being deleted, and goes on with a copy that does too.
LEMMA WritingStep ==
  ASSUME TypeOK, LifeInv, pc # "idle", UNCHANGED <<kode, cacheKode, cacheStatus>>,
         NEW w, w.phase # NoPhase, w.phase = "Deleting" <=> k.deleting,
         Save(w, TRUE, TRUE) \/ UNCHANGED status,
         NEW s, s.phase # NoPhase, s.phase = "Deleting" <=> k.deleting,
         EndsWith(s)
  PROVE  LifeInv' /\ StaysDeleting
<1>1. /\ k.deleting \in BOOLEAN /\ kode.deleting \in BOOLEAN
      /\ cacheKode.deleting \in BOOLEAN
  BY DEF TypeOK, ClusterTypeOK, Meta
<1>2. status'.phase # NoPhase \/ status' = status
  BY SavedPhase DEF LifeInv, ServerInv
<1>3. k.deleting => StaysDeleting
  BY SavedPhase DEF StaysDeleting
<1>4. ~k.deleting => status.phase # "Deleting" /\ status'.phase # "Deleting"
  BY SavedPhase DEF LifeInv, CopyInv
<1>5. ServerInv'
  BY <1>1, <1>2, <1>4 DEF LifeInv, ServerInv, CopyInv
<1>6. CopyInv' /\ StepInv'
  BY <1>4 DEF EndsWith, LifeInv, CopyInv, StepInv, DeletionSteps
<1> QED BY <1>3, <1>4, <1>5, <1>6 DEF LifeInv, StaysDeleting

\* The handlers: they save and go on with copies that keep the phase.
LEMMA HandlerWrites ==
  ASSUME TypeOK, LifeInv, UNCHANGED <<kode, cacheKode, cacheStatus>>,
         pc \notin {"idle", "addFinalizer", "mismatch"},
         NEW s, s.phase = st.phase,
         Save(s, TRUE, TRUE) \/ UNCHANGED status, EndsWith(s)
  PROVE  LifeInv' /\ StaysDeleting
<1>1. s.phase # NoPhase /\ (s.phase = "Deleting" <=> k.deleting)
  BY DEF LifeInv, CopyInv
<1> QED BY <1>1, WritingStep

-----------------------------------------------------------------------------
(* Every step of Reconcile *)

\* The copies the handlers save keep the phase.
LEMMA CopiesPhase ==
  ASSUME NEW s \in Status
  PROVE  /\ Progressing(s).phase = s.phase /\ Serving(s).phase = s.phase
         /\ Errored(s).phase = s.phase
         /\ \A ready, avail, prog : WithConditions(s, ready, avail, prog).phase = s.phase
         /\ Unchanged(s).phase = s.phase
BY DEF Progressing, Serving, Errored, Unchanged, WithConditions, Status

\* Skip leaves everything but the queue alone.
LEMMA SkipLife == ASSUME LifeInv, Skip PROVE LifeInv' /\ StaysDeleting
BY DEF Skip, LifeInv, ServerInv, CopyInv, StepInv, StaysDeleting, objVars, cacheVars, localVars

\* A reconcile starts from the informer's copy, which is sound, and marks a deleted Kode.
LEMMA StartLife == ASSUME TypeOK, LifeInv, Start PROVE LifeInv' /\ StaysDeleting
<1>1. cacheKode \in Meta /\ cacheStatus \in Status
  BY DEF TypeOK, ClusterTypeOK
<1>2. /\ UNCHANGED <<kode, status, cacheKode, cacheStatus>> /\ k' = cacheKode
      /\ cacheKode.deleting => cacheKode.fin
  BY DEF Start, objVars, cacheVars
<1>3. ServerInv' /\ StaysDeleting
  BY <1>2 DEF LifeInv, ServerInv, StaysDeleting
<1>4. CASE cacheKode.deleting
  <2>1. pc' = "markDeleting" /\ st' = [cacheStatus EXCEPT !.phase = "Deleting"]
    BY <1>4 DEF Start
  <2>2. st'.phase = "Deleting"
    BY <1>1, <2>1 DEF Status
  <2> QED BY <1>1, <1>2, <1>3, <1>4, <2>1, <2>2
       DEF LifeInv, ServerInv, CopyInv, StepInv, DeletionSteps, NoPhase
<1>5. CASE ~cacheKode.deleting
  <2>1. pc' = Route(cacheKode, cacheStatus) /\ st' = cacheStatus
    BY <1>5 DEF Start
  <2>2. status.phase # "Deleting" /\ cacheStatus.phase # "Deleting"
    BY <1>5 DEF LifeInv, ServerInv
  <2>3. /\ Route(cacheKode, cacheStatus) \in Steps \ {"idle", "markDeleting", "unhandled", "advance"}
        /\ Route(cacheKode, cacheStatus) \notin {"addFinalizer", "mismatch"} =>
             cacheStatus.phase # NoPhase
    BY <1>1, RouteEnds DEF LifeInv, ServerInv
  <2>4. cacheKode.deleting = FALSE
    BY <1>1, <1>5 DEF Meta
  <2> QED BY <1>2, <1>3, <2>1, <2>2, <2>3, <2>4 DEF LifeInv, ServerInv, CopyInv, StepInv
<1> QED BY <1>4, <1>5

\* Saving Deleting for a Kode the server is deleting.
LEMMA MarkDeletingLife == ASSUME TypeOK, LifeInv, MarkDeleting PROVE LifeInv' /\ StaysDeleting
<1>1. pc = "markDeleting" /\ UNCHANGED <<kode, cacheKode, cacheStatus>> /\ Save(st, TRUE, TRUE)
  BY DEF MarkDeleting, Save, OnlyStatus, cacheVars
<1>2. st \in Status /\ k \in Meta /\ st.phase # NoPhase /\ k.gen >= 1
  BY <1>1 DEF TypeOK, LifeInv, CopyInv
<1>3. EndsWith(st)
  <2>1. Goto(Route(k, st), st) \/ Finish(TRUE)
    BY DEF MarkDeleting, Save
  <2>2. CASE Goto(Route(k, st), st)
    <3>1. k.fin /\ st.phase = "Deleting"
      BY <1>1 DEF LifeInv, CopyInv, StepInv
    <3>2. Route(k, st) \in DeletionSteps \ {"markDeleting"}
      BY <1>2, <3>1, RouteEnds
    <3> QED BY <2>2, <3>2, Endings
  <2> QED BY <2>1, <2>2, Endings
<1> QED BY <1>1, <1>2, <1>3, HandlerWrites

\* The step that makes up for an edit: Updating, unless the Kode is going.
LEMMA GenerationMismatchLife ==
  ASSUME TypeOK, LifeInv, GenerationMismatch PROVE LifeInv' /\ StaysDeleting
<1> DEFINE w == Mismatched(st, k.gen)
<1>1. /\ pc = "mismatch" /\ UNCHANGED <<kode, cacheKode, cacheStatus>>
      /\ Save(w, TRUE, TRUE) /\ Finish(TRUE)
  BY DEF GenerationMismatch, Save, OnlyStatus, cacheVars
<1>2. w.phase = IF st.phase = "Deleting" THEN "Deleting" ELSE "Updating"
  BY DEF Mismatched, Progressing, WithConditions, TypeOK, Status
<1>3. w.phase # NoPhase /\ (w.phase = "Deleting" <=> k.deleting)
  BY <1>1, <1>2 DEF LifeInv, CopyInv, NoPhase
<1>4. EndsWith(w)
  BY <1>1, Endings
<1> HIDE DEF w
<1> QED BY <1>1, <1>3, <1>4, WritingStep

\* HandleState saves a phase other than Deleting for a Kode that is not being deleted.
LEMMA SavePhaseLife == ASSUME TypeOK, LifeInv, SavePhase PROVE LifeInv' /\ StaysDeleting
<1> DEFINE w == [st EXCEPT !.phase = next]
<1>1. /\ pc = "advance" /\ UNCHANGED <<kode, cacheKode, cacheStatus>>
      /\ Save(w, TRUE, TRUE) /\ (Finish(again) \/ Finish(TRUE))
  BY DEF SavePhase, Save, OnlyStatus, cacheVars
<1>2. w.phase = next /\ next \in Phases \ {"Deleting"} /\ ~k.deleting
  BY <1>1 DEF LifeInv, StepInv, DeletionSteps, TypeOK, Status
<1>3. w.phase # NoPhase /\ (w.phase = "Deleting" <=> k.deleting)
  BY <1>2 DEF Phases, NoPhase
<1>4. EndsWith(w)
  BY <1>1, Endings
<1> HIDE DEF w
<1> QED BY <1>1, <1>3, <1>4, WritingStep

\* The new Kode gets its finalizer; the copy then becomes Pending.
LEMMA AddFinalizerLife == ASSUME TypeOK, LifeInv, AddFinalizer PROVE LifeInv' /\ StaysDeleting
<1> DEFINE fresh == [st EXCEPT !.phase = "Pending", !.obs = k.gen]
<1>1. /\ pc = "addFinalizer" /\ UNCHANGED <<status, cacheKode, cacheStatus>>
      /\ kode' = kode \/ kode' = [kode EXCEPT !.fin = TRUE]
      /\ Goto("init", fresh) \/ Finish(TRUE)
  BY DEF AddFinalizer, cacheVars
<1>2. kode'.gen = kode.gen /\ kode'.deleting = kode.deleting
  BY <1>1 DEF TypeOK, ClusterTypeOK, Meta
<1>3. ServerInv' /\ StaysDeleting
  BY <1>1, <1>2 DEF LifeInv, ServerInv, StaysDeleting
<1>4. fresh.phase = "Pending" /\ ~k.deleting
  BY <1>1 DEF LifeInv, StepInv, DeletionSteps, TypeOK, Status
<1>5. k.deleting = FALSE
  BY <1>4 DEF TypeOK, Meta
<1> HIDE DEF fresh
<1>6. CASE Goto("init", fresh)
  BY <1>1, <1>3, <1>4, <1>5, <1>6 DEF Goto, LifeInv, CopyInv, StepInv, NoPhase
<1>7. CASE Finish(TRUE)
  BY <1>3, <1>7 DEF Finish, Forget, LifeInv, CopyInv, StepInv, DeletionSteps
<1> QED BY <1>1, <1>6, <1>7

\* The finalizer goes, and with it the Kode, whose generation stays.
LEMMA RemoveFinalizerLife ==
  ASSUME TypeOK, LifeInv, RemoveFinalizer PROVE LifeInv' /\ StaysDeleting
<1>1. /\ pc = "removeFinalizer" /\ UNCHANGED <<status, cacheKode, cacheStatus>>
      /\ \/ kode' = kode
         \/ kode' = [kode EXCEPT !.fin = FALSE, !.exists = ~kode.deleting]
      /\ Finish(FALSE) \/ Goto("error", st)
  BY DEF RemoveFinalizer, cacheVars
<1>2. kode'.gen = kode.gen /\ kode'.deleting = kode.deleting
  BY <1>1 DEF TypeOK, ClusterTypeOK, Meta
<1>3. ServerInv' /\ StaysDeleting
  BY <1>1, <1>2 DEF LifeInv, ServerInv, StaysDeleting
<1>4. CASE Goto("error", st)
  BY <1>1, <1>3, <1>4 DEF Goto, LifeInv, CopyInv, StepInv, DeletionSteps
<1>5. CASE Finish(FALSE)
  BY <1>3, <1>5 DEF Finish, Forget, LifeInv, CopyInv, StepInv, DeletionSteps
<1> QED BY <1>1, <1>4, <1>5

\* Resetting the retry count touches neither phase nor generation.
LEMMA ResetRetryLife == ASSUME TypeOK, LifeInv, ResetRetry PROVE LifeInv' /\ StaysDeleting
<1> DEFINE w == [st EXCEPT !.retry = 0]
<1>1. /\ pc = "resetRetry" /\ UNCHANGED <<kode, cacheKode, cacheStatus>>
      /\ Save(w, TRUE, TRUE) /\ (Goto(HandlerStep(w.phase), w) \/ Finish(TRUE))
  BY DEF ResetRetry, Save, OnlyStatus, cacheVars
<1>2. w.phase = st.phase /\ st \in Status /\ k \in Meta
  BY DEF TypeOK, Status
<1>3. st.phase # NoPhase /\ (st.phase = "Deleting" <=> k.deleting) /\ k.gen >= 1
  BY <1>1 DEF LifeInv, CopyInv
<1> HIDE DEF w
<1>4. EndsWith(w)
  <2>1. CASE k.deleting
    BY <1>1, <1>2, <1>3, <2>1, RouteEnds, Endings
  <2>2. CASE ~k.deleting
    BY <1>1, <1>2, <1>3, <2>2, RouteEnds, Endings
  <2> QED BY <2>1, <2>2
<1> QED BY <1>1, <1>2, <1>4, HandlerWrites

\* The steps that save a copy and end the reconcile, whatever the answer.
LEMMA ClosingLife ==
  ASSUME TypeOK, LifeInv, Initialise \/ RecordError \/ CleanedUp
  PROVE  LifeInv' /\ StaysDeleting
<1>1. PICK s \in {st, Errored(st)} :
        /\ pc \in {"init", "error", "cleaned"} /\ UNCHANGED <<kode, cacheKode, cacheStatus>>
        /\ Save(s, TRUE, TRUE) /\ Finish(TRUE)
  BY DEF Initialise, RecordError, CleanedUp, Save, OnlyStatus, cacheVars
<1>2. s.phase = st.phase
  BY CopiesPhase DEF TypeOK
<1> QED BY <1>1, <1>2, Endings, HandlerWrites

\* handleDeletingState keeps the phase of its copy, which is Deleting.
LEMMA HandleDeletingLife ==
  ASSUME TypeOK, LifeInv, HandleDeleting PROVE LifeInv' /\ StaysDeleting
<1> DEFINE s == Progressing(st)
<1>1. /\ pc = "deleting" /\ UNCHANGED <<kode, cacheKode, cacheStatus>>
      /\ Save(s, TRUE, TRUE) /\ (Goto("checkDeleted", s) \/ Finish(TRUE))
  BY DEF HandleDeleting, Save, OnlyStatus, cacheVars
<1>2. s.phase = st.phase
  BY CopiesPhase DEF TypeOK
<1>3. "checkDeleted" \in DeletionSteps \ {"markDeleting"}
  BY DEF DeletionSteps
<1> HIDE DEF s
<1> QED BY <1>1, <1>2, <1>3, Endings, HandlerWrites

\* The copies the handlers go on with, and the ways they do.
HandlerEnds(s) ==
  \/ Finish(TRUE)
  \/ \E step \in {"fetch", "detect", "validate", "check", "stabilise", "error"} : Goto(step, s)
  \/ \E phase \in Phases \ {"Deleting"} : \E requeue : Advance(phase, requeue, s)

HandlerSteps == {"pending", "fetch", "detect", "validate", "check", "stabilise", "failed"}

\* A handler that saves a copy with its own phase and generation, and ends as handlers do.
LEMMA HandlerLife ==
  ASSUME TypeOK, LifeInv, pc \in HandlerSteps, OnlyStatus,
         NEW s, s.phase = st.phase, Save(s, TRUE, TRUE) \/ UNCHANGED status, HandlerEnds(s)
  PROVE  LifeInv' /\ StaysDeleting
<1>1. UNCHANGED <<kode, cacheKode, cacheStatus>>
  BY DEF OnlyStatus, cacheVars
<1>2. ~k.deleting /\ pc \notin {"idle", "addFinalizer", "mismatch"}
  BY DEF LifeInv, StepInv, DeletionSteps, HandlerSteps
<1>3. EndsWith(s)
  BY <1>2, Endings DEF HandlerEnds, Steps
<1> QED BY <1>1, <1>2, <1>3, HandlerWrites

\* handlePendingState is such a handler.
LEMMA HandlePendingLife ==
  ASSUME TypeOK, LifeInv, HandlePending PROVE LifeInv' /\ StaysDeleting
<1>1. PICK s \in {st, Progressing(st)} :
        /\ pc \in HandlerSteps /\ OnlyStatus
        /\ Save(s, TRUE, TRUE) \/ UNCHANGED status
        /\ Advance("Configuring", TRUE, s) \/ Goto("error", s)
  BY DEF HandlePending, Save, HandlerSteps
<1>2. s.phase = st.phase /\ HandlerEnds(s)
  BY <1>1, CopiesPhase DEF TypeOK, HandlerEnds, Phases
<1> QED BY <1>1, <1>2, HandlerLife

\* fetchTemplatesWithRetry saves the copy as it is.
LEMMA FetchTemplateLife ==
  ASSUME TypeOK, LifeInv, FetchTemplate PROVE LifeInv' /\ StaysDeleting
<1>1. /\ pc \in HandlerSteps /\ OnlyStatus
      /\ Save(st, TRUE, TRUE) \/ UNCHANGED status
      /\ Advance("Pending", TRUE, st) \/ \E step \in {"detect", "check", "error"} : Goto(step, st)
  BY DEF FetchTemplate, FetchFailed, Save, HandlerSteps
<1>2. HandlerEnds(st)
  BY <1>1 DEF HandlerEnds, Phases
<1> QED BY <1>1, <1>2, HandlerLife

\* Finding the changes either looks further or settles for Active.
LEMMA DetectLife == ASSUME TypeOK, LifeInv, Detect PROVE LifeInv' /\ StaysDeleting
<1>1. pc \in HandlerSteps /\ OnlyStatus /\ ~k.deleting
  BY DEF Detect, HandlerSteps, LifeInv, StepInv, DeletionSteps
<1>2. CASE pc' = "apply" /\ UNCHANGED <<status, k, st>>
  <2>1. EndsWith(st)
    BY <1>1, <1>2 DEF EndsWith
  <2> QED BY <1>1, <1>2, <2>1, HandlerWrites DEF HandlerSteps, OnlyStatus, cacheVars
<1>3. CASE \E s \in {st, Unchanged(st)} :
             /\ Save(s, TRUE, TRUE) \/ UNCHANGED status
             /\ Advance("Active", TRUE, s) \/ Goto("validate", s) \/ Goto("error", s)
  <2>1. PICK s \in {st, Unchanged(st)} :
             /\ Save(s, TRUE, TRUE) \/ UNCHANGED status
             /\ Advance("Active", TRUE, s) \/ Goto("validate", s) \/ Goto("error", s)
    BY <1>3
  <2>2. s.phase = st.phase /\ HandlerEnds(s)
    BY <2>1, CopiesPhase DEF TypeOK, HandlerEnds, Phases
  <2> QED BY <1>1, <2>1, <2>2, HandlerLife
<1> QED BY <1>2, <1>3 DEF Detect, ReadFails, Save

\* Applying and deleting children leaves the Kode and its status alone.
LEMMA ChildStepLife ==
  ASSUME TypeOK, LifeInv, Apply \/ Cleanup PROVE LifeInv' /\ StaysDeleting
<1>1. UNCHANGED <<kode, status, cacheKode, cacheStatus>>
  BY DEF Apply, Cleanup, objVars, cacheVars
<1>2. EndsWith(st)
  <2>1. CASE Apply
    <3>1. ~k.deleting
      BY <2>1 DEF Apply, LifeInv, StepInv, DeletionSteps
    <3>2. k' = k /\ st' = st /\ pc' \in {"apply", "validate", "error"}
      BY <2>1 DEF Apply, Goto
    <3> QED BY <3>1, <3>2 DEF EndsWith
  <2>2. CASE Cleanup
    <3>1. k' = k /\ st' = st /\ pc' \in {"cleanup", "cleaned", "error"}
      BY <2>2 DEF Cleanup, Goto
    <3> QED BY <3>1 DEF EndsWith, DeletionSteps
  <2> QED BY <2>1, <2>2
<1>3. pc \notin {"idle", "addFinalizer", "mismatch"}
  BY DEF Apply, Cleanup
<1> QED BY <1>1, <1>2, <1>3, HandlerWrites

\* Validation goes on with the copy or saves its conditions.
LEMMA ValidateLife == ASSUME TypeOK, LifeInv, Validate PROVE LifeInv' /\ StaysDeleting
<1>1. PICK s \in {st, Progressing(st)} :
        /\ pc \in HandlerSteps /\ OnlyStatus
        /\ Save(s, TRUE, TRUE) \/ UNCHANGED status
        /\ Advance("Provisioning", TRUE, s) \/ Goto("check", s) \/ Goto("error", s)
  BY DEF Validate, ReadFails, Save, HandlerSteps
<1>2. s.phase = st.phase /\ HandlerEnds(s)
  BY <1>1, CopiesPhase DEF TypeOK, HandlerEnds, Phases
<1> QED BY <1>1, <1>2, HandlerLife

\* The handlers that look at the children and the pod.
LEMMA CheckLife ==
  ASSUME TypeOK, LifeInv, CheckProvisioning \/ CheckUpdating \/ CheckActive \/ Stabilise
  PROVE  LifeInv' /\ StaysDeleting
<1> DEFINE copies == {st, Progressing(st), WithConditions(st, "False", st.conds.avail, "True"),
                      [st EXCEPT !.port = Port], Serving(st),
                      [Serving(st) EXCEPT !.port = Port],
                      [Serving(st) EXCEPT !.port = Port, !.obs = k.gen]}
           ends(s) == \/ Finish(TRUE) \/ Goto("stabilise", s) \/ Goto("error", s)
                      \/ Advance("Active", FALSE, s) \/ Advance("Updating", TRUE, s)
<1>1. pc \in HandlerSteps /\ OnlyStatus
  BY DEF CheckProvisioning, CheckUpdating, CheckActive, Stabilise, HandlerSteps
<1>2. \E s \in copies : (Save(s, TRUE, TRUE) \/ UNCHANGED status) /\ ends(s)
  BY DEF CheckProvisioning, CheckUpdating, CheckActive, Stabilise, ReadFails, Save
<1>3. \A s \in copies : s.phase = st.phase
  <2>1. /\ [st EXCEPT !.port = Port].phase = st.phase
        /\ [Serving(st) EXCEPT !.port = Port].phase = st.phase
        /\ [Serving(st) EXCEPT !.port = Port, !.obs = k.gen].phase = st.phase
    BY DEF TypeOK, Status, Serving, WithConditions
  <2>2. /\ Progressing(st).phase = st.phase /\ Serving(st).phase = st.phase
        /\ WithConditions(st, "False", st.conds.avail, "True").phase = st.phase
    BY CopiesPhase DEF TypeOK
  <2> QED BY <2>1, <2>2, Zenon
<1>4. \A s : ends(s) => HandlerEnds(s)
  BY DEF HandlerEnds, Phases
<1> HIDE DEF copies, ends
<1> QED BY <1>1, <1>2, <1>3, <1>4, HandlerLife

\* handleFailedState changes the counter, the error and the conditions only.
LEMMA HandleFailedLife ==
  ASSUME TypeOK, LifeInv, HandleFailed PROVE LifeInv' /\ StaysDeleting
<1> DEFINE retry == [Progressing(st) EXCEPT !.retry = @ + 1, !.err = FALSE]
           quiet == WithConditions(st, "False", "False", "False")
<1>1. PICK s \in {retry, quiet} :
        /\ pc \in HandlerSteps /\ OnlyStatus
        /\ Save(s, TRUE, TRUE) /\ (Goto("fetch", s) \/ Finish(TRUE))
  BY DEF HandleFailed, Save, HandlerSteps
<1>2. retry.phase = st.phase /\ quiet.phase = st.phase
  BY DEF Progressing, WithConditions, TypeOK, Status
<1> HIDE DEF retry, quiet
<1>3. s.phase = st.phase /\ HandlerEnds(s)
  BY <1>1, <1>2 DEF HandlerEnds
<1> QED BY <1>1, <1>3, HandlerLife

\* Recovery moves to a phase other than Deleting.
LEMMA RecoverLife == ASSUME TypeOK, LifeInv, Recover PROVE LifeInv' /\ StaysDeleting
<1>1. pc \in HandlerSteps /\ OnlyStatus /\ UNCHANGED status
  BY DEF Recover, HandlerSteps
<1>2. \E phase \in {"Pending", "Provisioning", "Configuring"} : Advance(phase, TRUE, st)
  BY DEF Recover
<1>3. HandlerEnds(st)
  BY <1>2 DEF HandlerEnds, Phases
<1> QED BY <1>1, <1>3, HandlerLife

\* The deletion cycle is counted in a copy that stays in Deleting.
LEMMA CheckDeletedLife ==
  ASSUME TypeOK, LifeInv, CheckDeleted PROVE LifeInv' /\ StaysDeleting
<1> DEFINE first == [st EXCEPT !.cycle = 1]
           more  == [st EXCEPT !.cycle = IF @ < MaxCycle THEN @ + 1 ELSE @]
<1>1. pc = "checkDeleted" /\ UNCHANGED <<kode, cacheKode, cacheStatus>>
  BY DEF CheckDeleted, OnlyStatus, cacheVars
<1>2. first.phase = st.phase /\ more.phase = st.phase
  BY DEF TypeOK, Status
<1>3. \/ UNCHANGED status /\ (Goto("error", st) \/ Goto("removeFinalizer", st))
      \/ UNCHANGED <<status, k>> /\ pc' = "cleanup" /\ st' = first
      \/ Save(more, TRUE, TRUE) /\ Finish(TRUE)
  BY DEF CheckDeleted, ReadFails, Save
<1> HIDE DEF first, more
<1>4. CASE UNCHANGED status /\ (Goto("error", st) \/ Goto("removeFinalizer", st))
  <2>1. EndsWith(st)
    BY <1>4, Endings DEF DeletionSteps
  <2> QED BY <1>1, <1>4, <2>1, HandlerWrites
<1>5. CASE UNCHANGED <<status, k>> /\ pc' = "cleanup" /\ st' = first
  <2>1. EndsWith(first)
    BY <1>5 DEF EndsWith, DeletionSteps
  <2> QED BY <1>1, <1>2, <1>5, <2>1, HandlerWrites
<1>6. CASE Save(more, TRUE, TRUE) /\ Finish(TRUE)
  BY <1>1, <1>2, <1>6, Endings, HandlerWrites
<1> QED BY <1>3, <1>4, <1>5, <1>6

\* A crash drops the copy and brings the cache up to date.
LEMMA CrashLife == ASSUME TypeOK, LifeInv, Crash PROVE LifeInv' /\ StaysDeleting
<1>1. /\ pc' = "idle" /\ UNCHANGED <<kode, status>>
      /\ cacheKode' = kode /\ cacheStatus' = status
  BY DEF Crash, Forget, Restart, objVars
<1> QED BY <1>1 DEF LifeInv, ServerInv, CopyInv, StepInv, DeletionSteps, StaysDeleting

-----------------------------------------------------------------------------
(* The environment *)

\* Users and informers move the Kode and its cached copy forward only.
LEMMA EnvironmentLife ==
  ASSUME TypeOK, LifeInv, Environment, UNCHANGED localVars PROVE LifeInv' /\ StaysDeleting
<1> USE DEF localVars
<1>1. kode \in Meta /\ cacheKode \in Meta
  BY DEF TypeOK, ClusterTypeOK
<1>2. CASE UNCHANGED <<kode, status, cacheKode, cacheStatus>>
  BY <1>2 DEF LifeInv, ServerInv, CopyInv, StepInv, StaysDeleting
<1>3. CASE (\E s \in Specs : EditSpec(s)) \/ DeleteKode
  <2>1. UNCHANGED <<status, cacheKode, cacheStatus>>
    BY <1>3 DEF EditSpec, DeleteKode, cacheVars
  <2>2. kode'.gen >= 1 /\ (kode.deleting => kode'.deleting)
    <3>1. kode.gen \in Nat /\ kode.gen >= 1
      BY <1>1 DEF Meta, LifeInv, ServerInv
    <3>2. CASE \E s \in Specs : EditSpec(s)
      <4>1. PICK s \in Specs : kode' = [kode EXCEPT !.spec = s, !.gen = @ + 1]
        BY <3>2 DEF EditSpec
      <4> QED BY <1>1, <3>1, <4>1 DEF Meta
    <3>3. CASE DeleteKode
      <4>1. CASE kode' = [kode EXCEPT !.deleting = TRUE, !.gen = @ + 1]
        <5>1. kode'.gen = kode.gen + 1 /\ kode'.deleting = TRUE
          BY <1>1, <4>1 DEF Meta
        <5> QED BY <3>1, <5>1
      <4>2. CASE kode' = [kode EXCEPT !.exists = FALSE]
        <5>1. kode'.gen = kode.gen /\ kode'.deleting = kode.deleting
          BY <1>1, <4>2 DEF Meta
        <5> QED BY <3>1, <5>1
      <4> QED BY <3>3, <4>1, <4>2 DEF DeleteKode
    <3> QED BY <1>3, <3>2, <3>3
  <2> QED BY <2>1, <2>2 DEF LifeInv, ServerInv, CopyInv, StepInv, StaysDeleting
<1>4. CASE SyncKode
  <2>1. UNCHANGED <<kode, status>> /\ cacheKode' = kode /\ cacheStatus' = status
    BY <1>4 DEF SyncKode, objVars
  <2> QED BY <2>1 DEF LifeInv, ServerInv, CopyInv, StepInv, StaysDeleting
<1>5. (\/ PodStart \/ PodStop \/ PodFails
       \/ \E kind \in Kinds :
            SyncChild(kind) \/ LoseChild(kind) \/ FinishDelete(kind) \/ GarbageCollect(kind))
        => UNCHANGED <<kode, status, cacheKode, cacheStatus>>
  BY DEF PodStart, PodStop, PodFails, SyncChild, LoseChild, FinishDelete, GarbageCollect,
         objVars, cacheVars
<1>6. CASE EntryPointFails
  <2>1. UNCHANGED <<kode, cacheKode, cacheStatus>> /\ status.phase = "Active"
    BY <1>6 DEF EntryPointFails, cacheVars
  <2>2. status'.phase = "Failed"
    BY <1>6 DEF EntryPointFails, TypeOK, ClusterTypeOK, Status
  <2> QED BY <2>1, <2>2 DEF LifeInv, ServerInv, CopyInv, StepInv, StaysDeleting, NoPhase
<1> QED BY <1>2, <1>3, <1>4, <1>5, <1>6 DEF Environment

-----------------------------------------------------------------------------
(* The invariant, and what it gives *)

\* A new Kode has no phase, no observed generation and no reconcile.
LEMMA InitLife == Init => LifeInv
<1> SUFFICES ASSUME Init PROVE LifeInv
  OBVIOUS
<1>1. /\ kode.gen = 1 /\ cacheKode.gen = 1 /\ cacheKode.deleting = FALSE
      /\ pc = "idle"
  BY DEF Init, ClusterInit, LocalInit
<1>2. status.phase = NoPhase /\ status.obs = 0 /\ cacheStatus = status
  BY DEF Init, ClusterInit, EmptyStatus
<1>3. NoPhase # "Deleting"
  BY DEF NoPhase
<1> QED BY <1>1, <1>2, <1>3 DEF LifeInv, ServerInv, CopyInv, StepInv, DeletionSteps

\* No step of the system breaks the invariant, and none takes a Kode out of Deleting.
LEMMA NextLife == ASSUME TypeOK, LifeInv, [Next]_vars PROVE LifeInv' /\ StaysDeleting
<1>1. CASE UNCHANGED vars
  BY <1>1 DEF vars, clusterVars, localVars, LifeInv, ServerInv, CopyInv, StepInv, StaysDeleting
<1>2. CASE Reconcile
  BY <1>2, SkipLife, StartLife, MarkDeletingLife, AddFinalizerLife, ClosingLife,
     GenerationMismatchLife, ResetRetryLife, SavePhaseLife, HandlePendingLife,
     FetchTemplateLife, DetectLife, ChildStepLife, ValidateLife, CheckLife, HandleFailedLife,
     RecoverLife, HandleDeletingLife, CheckDeletedLife, RemoveFinalizerLife DEF Reconcile
<1>3. CASE Crash
  BY <1>3, CrashLife
<1>4. CASE Environment /\ UNCHANGED localVars
  BY <1>4, EnvironmentLife
<1> QED BY <1>1, <1>2, <1>3, <1>4 DEF Next

\* The inductive invariant: the server, the cache and the copy a reconcile
\* works on agree about deletion and about having a phase.
THEOREM LifeCorrect == Spec => []LifeInv
<1>1. Init => LifeInv
  BY InitLife
<1>2. TypeOK /\ LifeInv /\ [Next]_vars => LifeInv'
  BY NextLife
<1> QED BY <1>1, <1>2, TypeCorrect, PTL DEF Spec

\* HandleState never meets a phase without a handler: its "no handler for
\* phase" error is dead code, whatever fails or is edited in the meantime.
THEOREM HandlerAlwaysRegistered == Spec => []HandlerRegistered
<1>1. LifeInv => HandlerRegistered
  BY DEF LifeInv, StepInv, HandlerRegistered
<1> QED BY <1>1, LifeCorrect, PTL

\* No save of the Kode controller, however old the copy and the cache it is
\* computed from, takes a Kode out of Deleting.
THEOREM DeletingStays == Spec => DeletingIsFinal
<1>1. TypeOK /\ LifeInv /\ [Next]_vars =>
        [status.phase = "Deleting" => status'.phase = "Deleting"]_vars
  BY NextLife DEF StaysDeleting
<1> QED BY <1>1, TypeCorrect, LifeCorrect, PTL DEF Spec, DeletingIsFinal
=============================================================================
