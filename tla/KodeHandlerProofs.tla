--------------------------- MODULE KodeHandlerProofs ---------------------------
(***************************************************************************)
(* Two properties of the handlers of the Kode controller, proved for every *)
(* age of cache and every fault: no existing Kode is ever forgotten, and   *)
(* what leads to Active has set the conditions Active dereferences.        *)
(*                                                                         *)
(* Both rest on one observation (Handled): whatever its phase, a handler   *)
(* saves one copy at most, which keeps the phase, and goes on with it.     *)
(***************************************************************************)
EXTENDS KodeRefinementProofs

\* The three conditions are there.
Filled(s) == "none" \notin {s.conds.ready, s.conds.avail, s.conds.prog}

\* Every phase a handler gave the Kode comes with them, and so does a count of retries.
Furnished(s) ==
  s.phase # "Deleting" /\ (s.phase \notin {NoPhase, "Pending"} \/ s.retry > 0) => Filled(s)

\* A status that nobody but Initialise has written.
Blank(s) ==
  s.phase \in {NoPhase, "Pending"} /\ s.conds = EmptyStatus.conds /\ s.retry = 0

\* The steps that may work on a copy without the conditions.
BareSteps == {"idle", "addFinalizer", "init", "mismatch", "resetRetry", "pending", "error"}

FillInv ==
  /\ Furnished(status) /\ Furnished(cacheStatus)
  /\ Filled(cacheStatus) /\ status.phase # "Deleting" => Filled(status)
  /\ pc # "idle" /\ ~k.deleting => Furnished(st)
  /\ pc \notin BareSteps /\ ~k.deleting => Filled(st)
  /\ pc = "resetRetry" => st.retry > 0
  /\ pc = "pending" => st.phase = "Pending"
  /\ kode.exists /\ ~cacheKode.fin => Blank(status) /\ Blank(cacheStatus)
  /\ kode.exists /\ pc \in {"addFinalizer", "init"} => Blank(status) /\ Blank(st)
  /\ pc \notin {"idle", "addFinalizer", "init"} => k.fin
  /\ pc # "idle" /\ k.fin /\ kode.exists => cacheKode.fin

\* A reconcile nobody has queued again works on the phase the cache still shows, and
\* moves to another phase if it moves at all; so its save is an event to come.
QueueInv ==
  /\ pc \notin {"idle", "init"} /\ ~k.deleting /\ "kode" \notin queue =>
       st.phase = cacheStatus.phase
  /\ pc = "advance" => next \in Lifecycle!Follows(st.phase)
  /\ NeverForgotten

HandlerInv == FillInv /\ QueueInv

-----------------------------------------------------------------------------
(* What every handler does *)

\* It ends and requeues, or goes on with the copy s.
MovesOn(s) ==
  \/ Finish(TRUE)
  \/ /\ pc' \notin {"idle", "markDeleting", "addFinalizer", "init"}
     /\ k' = k /\ st' = s /\ queue' = queue
     /\ pc' = "resetRetry" => s.retry > 0
     /\ pc' = "mismatch" => s.obs # k.gen
     /\ pc' = "pending" => s.phase = "Pending"
     /\ pc' = "advance" => next' \in Lifecycle!Follows(s.phase)

\* It saves the copy at most, with the conditions unless it deletes.
Handled ==
  /\ UNCHANGED <<kode, cacheKode, cacheStatus>>
  /\ \E s : /\ Keeps(s)
            /\ Save(s, TRUE, TRUE) \/ UNCHANGED status
            /\ MovesOn(s)
            /\ \/ k.deleting \/ Filled(s)
               \/ s = st /\ UNCHANGED status /\ pc' = "error"

\* A status changes in a save only, of a Kode the server has.
LEMMA SaveNeedsKode ==
  ASSUME NEW w, Save(w, TRUE, TRUE)
  PROVE  status' = status \/ (kode.exists /\ status' \in MergePatch(cacheStatus, w, status))
BY DEF Save

\* Where a patched status has its phase, its retries and its conditions from.
LEMMA PatchedFields ==
  ASSUME NEW c, NEW w, NEW s, NEW new \in MergePatch(c, w, s)
  PROVE  /\ new.phase = Pick(c.phase, w.phase, s.phase)
         /\ new.retry = Pick(c.retry, w.retry, s.retry)
         /\ new.conds \in {Pick(c.conds, w.conds, s.conds), w.conds}
BY DEF MergePatch

\* A copy with its conditions leaves a status with conditions.
LEMMA FilledSave ==
  ASSUME FillInv, status.phase # "Deleting", NEW w, Filled(w), Save(w, TRUE, TRUE)
  PROVE  Filled(status') \/ status' = status
<1>1. CASE kode.exists /\ status' \in MergePatch(cacheStatus, w, status)
  <2>1. \/ status'.conds = w.conds
        \/ status'.conds = status.conds /\ cacheStatus.conds = w.conds
    BY <1>1, PatchedFields DEF Pick
  <2> QED BY <2>1 DEF FillInv, Filled
<1> QED BY <1>1, SaveNeedsKode

\* A copy that says Deleting leaves a status that does.
LEMMA DeletingSave ==
  ASSUME RefInv, NEW w, w.phase = "Deleting", Save(w, TRUE, TRUE)
  PROVE  status'.phase = "Deleting" \/ status' = status
<1>1. CASE kode.exists /\ status' \in MergePatch(cacheStatus, w, status)
  <2>1. \/ status'.phase = w.phase
        \/ status'.phase = status.phase /\ cacheStatus.phase = w.phase
    BY <1>1, PatchedFields DEF Pick
  <2> QED BY <2>1 DEF RefInv, MarkedInv
<1> QED BY <1>1, SaveNeedsKode

\* What has its conditions is furnished, and so is what is being deleted.
LEMMA FilledIsFurnished ==
  ASSUME NEW s, Filled(s) \/ s.phase = "Deleting" PROVE Furnished(s)
BY DEF Furnished

\* A save leaves a furnished status that is no barer than the cache.
LEMMA FillingSave ==
  ASSUME LifeInv, RefInv, FillInv, pc \notin {"idle", "addFinalizer", "init"},
         UNCHANGED <<kode, cacheKode, cacheStatus>>,
         NEW w, k.deleting => w.phase = "Deleting", k.deleting \/ Filled(w),
         Save(w, TRUE, TRUE)
  PROVE  /\ Furnished(status')
         /\ Filled(cacheStatus') /\ status'.phase # "Deleting" => Filled(status')
         /\ kode'.exists => cacheKode'.fin
<1>1. kode.exists => cacheKode.fin
  BY DEF FillInv
<1>2. CASE status' = status
  BY <1>1, <1>2 DEF FillInv
<1>3. CASE k.deleting /\ status' # status
  BY <1>1, <1>3, DeletingSave, FilledIsFurnished
<1>4. CASE ~k.deleting /\ status' # status
  <2>1. status.phase # "Deleting"
    BY <1>4 DEF LifeInv, CopyInv
  <2> QED BY <1>1, <1>4, <2>1, FilledSave, FilledIsFurnished
<1> QED BY <1>2, <1>3, <1>4

\* Such a step keeps what is said of the conditions.
LEMMA HandledFills ==
  ASSUME TypeOK, LifeInv, RefInv, FillInv, Handled, pc \notin {"idle", "addFinalizer", "init"}
  PROVE  FillInv'
<1>1. PICK s : /\ s.phase = st.phase
               /\ Save(s, TRUE, TRUE) \/ UNCHANGED status
               /\ MovesOn(s)
               /\ \/ k.deleting \/ Filled(s)
                  \/ s = st /\ UNCHANGED status /\ pc' = "error"
  BY DEF Handled, Keeps
<1>2. UNCHANGED <<kode, cacheKode, cacheStatus>>
  BY DEF Handled
<1>3. k.deleting => s.phase = "Deleting"
  BY <1>1 DEF LifeInv, CopyInv
<1>4. /\ Furnished(status')
      /\ Filled(cacheStatus') /\ status'.phase # "Deleting" => Filled(status')
      /\ kode'.exists => cacheKode'.fin
  <2>1. CASE UNCHANGED status
    BY <1>2, <2>1 DEF FillInv
  <2>2. CASE ~(UNCHANGED status)
    BY <1>1, <1>2, <1>3, <2>2, FillingSave
  <2> QED BY <2>1, <2>2
<1>5. CASE Finish(TRUE)
  BY <1>2, <1>4, <1>5 DEF Finish, Forget, FillInv, BareSteps
<1>6. CASE ~Finish(TRUE)
  <2>1. /\ pc' \notin {"idle", "markDeleting", "addFinalizer", "init"}
        /\ k' = k /\ st' = s /\ (pc' = "resetRetry" => s.retry > 0)
        /\ pc' = "pending" => s.phase = "Pending"
    BY <1>1, <1>6 DEF MovesOn
  <2>2. k.deleting \/ (Furnished(s) /\ (Filled(s) \/ pc' = "error"))
    BY <1>1, FilledIsFurnished DEF FillInv
  <2>3. k.fin
    BY DEF FillInv
  <2> QED BY <1>2, <1>4, <2>1, <2>2, <2>3 DEF FillInv, BareSteps
<1> QED BY <1>5, <1>6

\* And what is said of the queue.
LEMMA HandledQueues ==
  ASSUME TypeOK, QueueInv, Handled, pc \notin {"idle", "init"} PROVE QueueInv'
<1>1. PICK s : s.phase = st.phase /\ MovesOn(s)
  BY DEF Handled, Keeps
<1>2. UNCHANGED <<kode, cacheKode, cacheStatus>>
  BY DEF Handled
<1>3. CASE Finish(TRUE)
  BY <1>3 DEF Finish, Forget, QueueInv, NeverForgotten
<1>4. CASE ~Finish(TRUE)
  BY <1>1, <1>2, <1>4 DEF MovesOn, QueueInv, NeverForgotten
<1> QED BY <1>3, <1>4
-----------------------------------------------------------------------------
(* The handlers are handlers *)

\* A copy with the phase of st, and with its conditions where st has them.
CopyOf(s) == Keeps(s) /\ (Filled(st) => Filled(s))

\* The copies the handlers save are such copies.
LEMMA HandlerCopies ==
  ASSUME TypeOK
  PROVE  /\ CopyOf(st) /\ CopyOf(Progressing(st)) /\ CopyOf(Serving(st))
         /\ CopyOf(Errored(st)) /\ CopyOf(Unchanged(st))
         /\ CopyOf(WithConditions(st, "False", "False", "False"))
         /\ CopyOf(WithConditions(st, "False", st.conds.avail, "True"))
         /\ CopyOf([st EXCEPT !.port = Port]) /\ CopyOf([st EXCEPT !.retry = 0])
         /\ CopyOf([Serving(st) EXCEPT !.port = Port])
         /\ CopyOf([Serving(st) EXCEPT !.port = Port, !.obs = k.gen])
         /\ CopyOf([Progressing(st) EXCEPT !.retry = @ + 1, !.err = FALSE])
         /\ Filled(Progressing(st)) /\ Filled(Errored(st))
<1>1. st \in Status
  BY DEF TypeOK
<1>2. \A ready, avail, prog \in {"True", "False", st.conds.avail} :
        LET s == WithConditions(st, ready, avail, prog) IN
          /\ Filled(st) => Filled(s)
          /\ \A port : Filled(st) => Filled([s EXCEPT !.port = port])
          /\ \A gen : Filled(st) => Filled([s EXCEPT !.obs = gen])
          /\ \A port, gen : Filled(st) => Filled([s EXCEPT !.port = port, !.obs = gen])
          /\ Filled(st) => Filled([s EXCEPT !.err = TRUE])
          /\ Filled(st) => Filled([s EXCEPT !.retry = @ + 1, !.err = FALSE])
  BY <1>1 DEF WithConditions, Status, Conditions, Filled
<1>3. Filled(st) => Filled([st EXCEPT !.port = Port]) /\ Filled([st EXCEPT !.retry = 0])
  BY <1>1 DEF Filled, Status
<1>4. Filled(Progressing(st)) /\ Filled(Errored(st))
  BY <1>1 DEF Progressing, Errored, WithConditions, Filled, Status, Conditions
<1>5. Filled(st) =>
        /\ Filled(Serving(st)) /\ Filled(Unchanged(st))
        /\ Filled(WithConditions(st, "False", "False", "False"))
        /\ Filled(WithConditions(st, "False", st.conds.avail, "True"))
        /\ Filled([Serving(st) EXCEPT !.port = Port])
        /\ Filled([Serving(st) EXCEPT !.port = Port, !.obs = k.gen])
        /\ Filled([Progressing(st) EXCEPT !.retry = @ + 1, !.err = FALSE])
  BY <1>2 DEF Progressing, Serving, Unchanged
<1> QED BY <1>3, <1>4, <1>5, KeepingCopies DEF CopyOf

\* The handlers that are past the fetching of the template, or do not need it, work
\* on a copy with its conditions and are not deleting.
LEMMA FilledCopy ==
  ASSUME LifeInv, FillInv,
         pc \in {"fetch", "detect", "apply", "validate", "check", "stabilise", "failed", "advance"}
  PROVE  Filled(st) /\ ~k.deleting
BY DEF LifeInv, StepInv, DeletionSteps, FillInv, BareSteps

\* A step that saves s at most, and moves on in one of the usual ways, handles.
LEMMA Handles ==
  ASSUME OnlyStatus, NEW s, Keeps(s),
         Save(s, TRUE, TRUE) \/ UNCHANGED status,
         k.deleting \/ Filled(s) \/ (s = st /\ UNCHANGED status /\ Goto("error", s)),
         \/ Finish(TRUE)
         \/ \E step \in Steps \ {"idle", "markDeleting", "addFinalizer", "init", "mismatch",
                                 "resetRetry", "pending", "advance"} : Goto(step, s)
         \/ \E phase \in Lifecycle!Follows(s.phase), requeue \in BOOLEAN :
              Advance(phase, requeue, s)
  PROVE  Handled
<1>1. UNCHANGED <<kode, cacheKode, cacheStatus>>
  BY DEF OnlyStatus, cacheVars
<1>2. MovesOn(s)
  <2>1. ASSUME NEW step \in Steps \ {"idle", "markDeleting", "addFinalizer", "init", "mismatch",
                                    "resetRetry", "pending", "advance"}, Goto(step, s)
        PROVE  MovesOn(s)
    BY <2>1 DEF MovesOn, Goto
  <2>2. ASSUME NEW phase \in Lifecycle!Follows(s.phase), NEW requeue \in BOOLEAN,
               Advance(phase, requeue, s)
        PROVE  MovesOn(s)
    BY <2>2 DEF MovesOn, Advance
  <2>3. Finish(TRUE) => MovesOn(s)
    BY DEF MovesOn
  <2> QED BY <2>1, <2>2, <2>3
<1>3. Goto("error", s) => pc' = "error"
  BY DEF Goto
<1> QED BY <1>1, <1>2, <1>3 DEF Handled

\* The steps before the state machine, but for those that make the Kode's first status.
LEMMA PreludeHandled ==
  ASSUME TypeOK, LifeInv, RefInv, FillInv,
         MarkDeleting \/ ResetRetry \/ RecordError \/ CleanedUp
  PROVE  Handled
<1>1. CASE MarkDeleting
  <2>1. /\ pc = "markDeleting" /\ UNCHANGED <<kode, cacheKode, cacheStatus>>
        /\ Save(st, TRUE, TRUE) /\ (Goto(Route(k, st), st) \/ Finish(TRUE))
    BY <1>1 DEF MarkDeleting, Save, OnlyStatus, cacheVars
  <2>2. k.deleting /\ k.fin /\ st.phase = "Deleting"
    BY <2>1 DEF LifeInv, CopyInv, StepInv
  <2>3. MovesOn(st)
    <3>1. Goto(Route(k, st), st) =>
            /\ pc' \in {"mismatch", "resetRetry", "deleting"}
            /\ pc' = "resetRetry" => st.retry > 0
            /\ pc' = "mismatch" => st.obs # k.gen
            /\ k' = k /\ st' = st /\ queue' = queue
      BY <2>2 DEF Goto, Route, HandlerStep, TypeOK, Meta
    <3> QED BY <2>1, <3>1 DEF MovesOn
  <2> QED BY <2>1, <2>2, <2>3, KeepingCopies DEF Handled
<1>2. CASE ResetRetry
  <2> DEFINE w == [st EXCEPT !.retry = 0]
  <2>1. /\ pc = "resetRetry" /\ OnlyStatus
        /\ Save(w, TRUE, TRUE) /\ (Goto(HandlerStep(w.phase), w) \/ Finish(TRUE))
    BY <1>2 DEF ResetRetry, Save
  <2>2. Keeps(w) /\ (Filled(st) => Filled(w))
    BY HandlerCopies DEF CopyOf
  <2>3. k.deleting \/ Filled(st)
    <3>1. st.retry > 0
      BY <2>1 DEF FillInv
    <3> QED BY <2>1, <3>1 DEF FillInv, Furnished, LifeInv, CopyInv
  <2>4. w.phase \in Phases
    BY <2>1, <2>2 DEF LifeInv, CopyInv, Keeps, Status
  <2> HIDE DEF w
  <2>5. Goto(HandlerStep(w.phase), w) => MovesOn(w)
    BY <2>4 DEF HandlerStep, Phases, Goto, MovesOn
  <2>6. MovesOn(w)
    BY <2>1, <2>5 DEF MovesOn
  <2> QED BY <2>1, <2>2, <2>3, <2>6 DEF Handled, OnlyStatus, cacheVars
<1>3. CASE RecordError
  <2>1. OnlyStatus /\ Save(Errored(st), TRUE, TRUE) /\ Finish(TRUE)
    BY <1>3 DEF RecordError, Save
  <2> QED BY <2>1, HandlerCopies, Handles DEF CopyOf
<1>4. CASE CleanedUp
  <2>1. pc = "cleaned" /\ OnlyStatus /\ Save(st, TRUE, TRUE) /\ Finish(TRUE)
    BY <1>4 DEF CleanedUp, Save
  <2>2. k.deleting
    BY <2>1 DEF RefInv, MarkedInv, DeletingSteps
  <2> QED BY <2>1, <2>2, KeepingCopies, Handles
<1> QED BY <1>1, <1>2, <1>3, <1>4

\* What follows what, as far as the handlers move.
LEMMA Moves ==
  /\ "Configuring" \in Lifecycle!Follows("Pending")
  /\ "Provisioning" \in Lifecycle!Follows("Configuring")
  /\ "Active" \in Lifecycle!Follows("Provisioning")
  /\ "Active" \in Lifecycle!Follows("Updating")
  /\ "Updating" \in Lifecycle!Follows("Active")
  /\ {"Pending", "Configuring", "Provisioning"} \subseteq Lifecycle!Follows("Failed")
  /\ \A p : p \notin Lifecycle!Follows(p)
BY DEF Lifecycle!Follows

\* Pending, Configuring and Updating up to the validation.
LEMMA BuildingHandled ==
  ASSUME TypeOK, LifeInv, RefInv, FillInv,
         HandlePending \/ FetchTemplate \/ Detect \/ Apply \/ Validate
  PROVE  Handled
<1> USE DEF Steps, Phases
<1>0. Keeps(st)
  BY KeepingCopies
<1>1. CASE HandlePending
  <2>0. st.phase = "Pending"
    BY <1>1 DEF HandlePending, FillInv
  <2>1. \/ /\ OnlyStatus /\ Save(Progressing(st), TRUE, TRUE)
           /\ Advance("Configuring", TRUE, Progressing(st)) \/ Goto("error", Progressing(st))
        \/ OnlyStatus /\ UNCHANGED status /\ Goto("error", st)
    BY <1>1 DEF HandlePending, Save
  <2>2. CASE OnlyStatus /\ UNCHANGED status /\ Goto("error", st)
    BY <1>0, <2>2, Handles
  <2>3. "Configuring" \in Lifecycle!Follows(Progressing(st).phase)
    BY <2>0, Moves, HandlerCopies DEF CopyOf, Keeps
  <2> QED BY <2>1, <2>2, <2>3, HandlerCopies, Handles DEF CopyOf
<1>2. CASE FetchTemplate
  <2>1. /\ pc = "fetch" /\ OnlyStatus /\ (Save(st, TRUE, TRUE) \/ UNCHANGED status)
        /\ \/ \E step \in {"detect", "check", "error"} : Goto(step, st)
           \/ Advance("Pending", TRUE, st) /\ st.phase = "Failed"
    BY <1>2 DEF FetchTemplate, FetchFailed, Save
  <2>2. st.phase = "Failed" => "Pending" \in Lifecycle!Follows(st.phase)
    BY Moves
  <2> QED BY <1>0, <2>1, <2>2, FilledCopy, Handles
<1>3. CASE Detect
  <2>1. OnlyStatus /\ Filled(st) /\ CopyOf(Unchanged(st))
    BY <1>3, FilledCopy, HandlerCopies DEF Detect
  <2>2. CASE pc' = "apply" /\ UNCHANGED <<status, k, st, queue>>
    <3>1. MovesOn(st)
      BY <2>2 DEF MovesOn
    <3> QED BY <1>0, <2>1, <2>2, <3>1 DEF Handled, OnlyStatus, cacheVars
  <2>3. CASE UNCHANGED status /\ (Goto("validate", st) \/ Goto("error", st))
    BY <1>0, <2>1, <2>3, Handles
  <2>4. CASE /\ Save(Unchanged(st), TRUE, TRUE) /\ st.phase = "Updating"
             /\ Advance("Active", TRUE, Unchanged(st)) \/ Goto("error", Unchanged(st))
    <3>1. "Active" \in Lifecycle!Follows(Unchanged(st).phase)
      BY <2>1, <2>4, Moves DEF CopyOf, Keeps
    <3> QED BY <2>1, <2>4, <3>1, Handles DEF CopyOf
  <2> QED BY <1>3, <2>2, <2>3, <2>4 DEF Detect, ReadFails, Save
<1>4. CASE Apply
  <2>1. Filled(st) /\ UNCHANGED <<kode, status, cacheKode, cacheStatus>>
    BY <1>4, FilledCopy DEF Apply, objVars, cacheVars
  <2>2. k' = k /\ st' = st /\ queue' = queue /\ pc' \in {"apply", "validate", "error"}
    BY <1>4 DEF Apply, Goto
  <2>3. MovesOn(st)
    BY <2>2 DEF MovesOn
  <2> QED BY <1>0, <2>1, <2>3 DEF Handled
<1>5. CASE Validate
  <2>1. OnlyStatus /\ Filled(st) /\ CopyOf(Progressing(st))
    BY <1>5, FilledCopy, HandlerCopies DEF Validate
  <2>2. CASE UNCHANGED status /\ (Goto("check", st) \/ Goto("error", st))
    BY <1>0, <2>1, <2>2, Handles
  <2>3. CASE /\ Save(Progressing(st), TRUE, TRUE) /\ st.phase = "Configuring"
             /\ \/ Advance("Provisioning", TRUE, Progressing(st))
                \/ Goto("error", Progressing(st))
    <3>1. "Provisioning" \in Lifecycle!Follows(Progressing(st).phase)
      BY <2>1, <2>3, Moves DEF CopyOf, Keeps
    <3> QED BY <2>1, <2>3, <3>1, Handles DEF CopyOf
  <2> QED BY <1>5, <2>2, <2>3 DEF Validate, ReadFails, Save
<1> QED BY <1>1, <1>2, <1>3, <1>4, <1>5
\* The handlers that look at the children and the pod.
LEMMA CheckingHandled ==
  ASSUME TypeOK, LifeInv, RefInv, FillInv,
         CheckProvisioning \/ CheckUpdating \/ CheckActive \/ Stabilise \/ Recover
  PROVE  Handled
<1> USE DEF Steps, Phases
<1>0. Keeps(st)
  BY KeepingCopies
<1>1. OnlyStatus /\ Filled(st)
  BY FilledCopy DEF CheckProvisioning, CheckUpdating, CheckActive, Stabilise, Recover
<1>2. CASE UNCHANGED status /\ (Goto("error", st) \/ Goto("stabilise", st))
  BY <1>0, <1>1, <1>2, Handles
<1>3. ASSUME NEW s, CopyOf(s), Save(s, TRUE, TRUE),
             \/ Finish(TRUE) \/ Goto("error", s) \/ Goto("stabilise", s)
             \/ Advance("Updating", TRUE, s) /\ st.phase = "Active"
             \/ Advance("Active", FALSE, s) /\ st.phase \in {"Provisioning", "Updating"}
      PROVE  Handled
  <2>1. /\ st.phase = "Active" => "Updating" \in Lifecycle!Follows(s.phase)
        /\ st.phase \in {"Provisioning", "Updating"} => "Active" \in Lifecycle!Follows(s.phase)
    BY <1>3, Moves DEF CopyOf, Keeps
  <2> QED BY <1>1, <1>3, <2>1, Handles DEF CopyOf
<1>4. CASE CheckProvisioning
  <2> DEFINE up == [Serving(st) EXCEPT !.port = Port]
  <2>1. CopyOf(Progressing(st)) /\ CopyOf(up)
    BY HandlerCopies
  <2>2. \/ UNCHANGED status /\ Goto("error", st)
        \/ /\ Save(Progressing(st), TRUE, TRUE)
           /\ Finish(TRUE) \/ Goto("error", Progressing(st))
        \/ /\ Save(up, TRUE, TRUE) /\ st.phase \in {"Provisioning", "Updating"}
           /\ Advance("Active", FALSE, up) \/ Goto("error", up)
    BY <1>4 DEF CheckProvisioning, ReadFails, Save
  <2> HIDE DEF up
  <2> QED BY <1>2, <1>3, <2>1, <2>2
<1>5. CASE CheckUpdating
  <2> DEFINE wait == WithConditions(st, "False", st.conds.avail, "True")
             up   == [Serving(st) EXCEPT !.port = Port, !.obs = k.gen]
  <2>1. CopyOf(wait) /\ CopyOf(up)
    BY HandlerCopies
  <2>2. \/ UNCHANGED status /\ Goto("error", st)
        \/ Save(wait, TRUE, TRUE) /\ (Finish(TRUE) \/ Goto("error", wait))
        \/ /\ Save(up, TRUE, TRUE) /\ st.phase \in {"Provisioning", "Updating"}
           /\ Advance("Active", FALSE, up) \/ Goto("error", up)
    BY <1>5 DEF CheckUpdating, ReadFails, Save
  <2> HIDE DEF wait, up
  <2> QED BY <1>2, <1>3, <2>1, <2>2
<1>6. CASE CheckActive
  <2> DEFINE move == [st EXCEPT !.port = Port]
  <2>1. CopyOf(Progressing(st)) /\ CopyOf(move)
    BY HandlerCopies
  <2>2. \/ UNCHANGED status /\ (Goto("error", st) \/ Goto("stabilise", st))
        \/ /\ Save(Progressing(st), TRUE, TRUE) /\ st.phase = "Active"
           /\ Advance("Updating", TRUE, Progressing(st)) \/ Goto("error", Progressing(st))
        \/ Save(move, TRUE, TRUE) /\ (Goto("stabilise", move) \/ Goto("error", move))
    BY <1>6 DEF CheckActive, ReadFails, Save
  <2> HIDE DEF move
  <2> QED BY <1>2, <1>3, <2>1, <2>2
<1>7. CASE Stabilise
  <2>1. \/ /\ Save(Serving(st), TRUE, TRUE)
           /\ Finish(TRUE) \/ Goto("error", Serving(st))
        \/ UNCHANGED status /\ Finish(TRUE)
    BY <1>7 DEF Stabilise, Save
  <2> QED BY <1>0, <1>1, <1>3, <2>1, Handles, HandlerCopies
<1>8. CASE Recover
  <2>1. /\ UNCHANGED status /\ st.phase = "Failed"
        /\ \E phase \in {"Pending", "Configuring", "Provisioning"} : Advance(phase, TRUE, st)
    BY <1>8 DEF Recover
  <2>2. {"Pending", "Configuring", "Provisioning"} \subseteq Lifecycle!Follows(st.phase)
    BY <2>1, Moves
  <2> QED BY <1>0, <1>1, <2>1, <2>2, Handles
<1> QED BY <1>4, <1>5, <1>6, <1>7, <1>8

\* Counting a deletion cycle keeps the phase.
LEMMA CycleCopies ==
  ASSUME TypeOK
  PROVE  /\ Keeps([st EXCEPT !.cycle = 1])
         /\ Keeps([st EXCEPT !.cycle = IF @ < MaxCycle THEN @ + 1 ELSE @])
<1>1. st \in Status
  BY DEF TypeOK
<1>2. \A n \in Nat : Keeps([st EXCEPT !.cycle = n])
  BY <1>1 DEF Keeps, Status
<1>3. (IF st.cycle < MaxCycle THEN st.cycle + 1 ELSE st.cycle) \in Nat
  BY <1>1 DEF Status
<1> QED BY <1>2, <1>3

\* Failed and Deleting.
LEMMA EndingHandled ==
  ASSUME TypeOK, LifeInv, RefInv, FillInv,
         HandleFailed \/ HandleDeleting \/ CheckDeleted \/ Cleanup
  PROVE  Handled
<1> USE DEF Steps
<1>1. CASE HandleFailed
  <2> DEFINE retry == [Progressing(st) EXCEPT !.retry = @ + 1, !.err = FALSE]
             stop  == WithConditions(st, "False", "False", "False")
  <2>1. OnlyStatus /\ Filled(st)
    BY <1>1, FilledCopy DEF HandleFailed
  <2>2. CopyOf(retry) /\ CopyOf(stop)
    BY HandlerCopies
  <2>3. \/ Save(stop, TRUE, TRUE) /\ Finish(TRUE)
        \/ Save(retry, TRUE, TRUE) /\ (Goto("fetch", retry) \/ Finish(TRUE))
    BY <1>1 DEF HandleFailed, Save
  <2> HIDE DEF retry, stop
  <2> QED BY <2>1, <2>2, <2>3, Handles DEF CopyOf
<1>2. CASE HandleDeleting
  <2>1. /\ OnlyStatus /\ Save(Progressing(st), TRUE, TRUE)
        /\ Goto("checkDeleted", Progressing(st)) \/ Finish(TRUE)
    BY <1>2 DEF HandleDeleting, Save
  <2> QED BY <2>1, HandlerCopies, Handles DEF CopyOf
<1>3. CASE CheckDeleted
  <2> DEFINE first == [st EXCEPT !.cycle = 1]
             more  == [st EXCEPT !.cycle = IF @ < MaxCycle THEN @ + 1 ELSE @]
  <2>1. OnlyStatus /\ k.deleting
    BY <1>3 DEF CheckDeleted, RefInv, MarkedInv, DeletingSteps
  <2>2. Keeps(st) /\ Keeps(first) /\ Keeps(more)
    BY CycleCopies, KeepingCopies
  <2>3. \/ UNCHANGED status /\ (Goto("error", st) \/ Goto("removeFinalizer", st))
        \/ /\ pc' = "cleanup" /\ st' = first /\ UNCHANGED <<status, k, queue>>
        \/ Save(more, TRUE, TRUE) /\ Finish(TRUE)
    BY <1>3 DEF CheckDeleted, ReadFails, Save
  <2> HIDE DEF first, more
  <2>4. CASE pc' = "cleanup" /\ st' = first /\ UNCHANGED <<status, k, queue>>
    <3>1. MovesOn(first)
      BY <2>4 DEF MovesOn
    <3> QED BY <2>1, <2>2, <2>4, <3>1 DEF Handled, OnlyStatus, cacheVars
  <2> QED BY <2>1, <2>2, <2>3, <2>4, Handles
<1>4. CASE Cleanup
  <2>1. k.deleting /\ UNCHANGED <<kode, status, cacheKode, cacheStatus>>
    BY <1>4 DEF Cleanup, RefInv, MarkedInv, DeletingSteps, objVars, cacheVars
  <2>2. k' = k /\ st' = st /\ queue' = queue /\ pc' \in {"cleanup", "cleaned", "error"}
    BY <1>4 DEF Cleanup, Goto
  <2>3. MovesOn(st)
    BY <2>2 DEF MovesOn
  <2> QED BY <2>1, <2>3, KeepingCopies DEF Handled
<1> QED BY <1>1, <1>2, <1>3, <1>4

\* The steps that come before the state machine runs a handler.
Early == {"idle", "markDeleting", "addFinalizer", "init", "mismatch"}

\* What a reconcile does: it starts or is skipped, takes one of the steps with a rule of
\* their own, or handles.
LEMMA StepsOfReconcile ==
  ASSUME TypeOK, LifeInv, RefInv, FillInv, Reconcile
  PROVE  \/ Skip \/ Start \/ AddFinalizer \/ Initialise \/ GenerationMismatch \/ SavePhase
         \/ RemoveFinalizer
         \/ MarkDeleting /\ Handled
         \/ Handled /\ pc \notin Early
<1>1. CASE MarkDeleting \/ ResetRetry \/ RecordError \/ CleanedUp
  BY <1>1, PreludeHandled DEF ResetRetry, RecordError, CleanedUp, Early
<1>2. CASE HandlePending \/ FetchTemplate \/ Detect \/ Apply \/ Validate
  BY <1>2, BuildingHandled DEF HandlePending, FetchTemplate, Detect, Apply, Validate, Early
<1>3. CASE CheckProvisioning \/ CheckUpdating \/ CheckActive \/ Stabilise \/ Recover
  BY <1>3, CheckingHandled
     DEF CheckProvisioning, CheckUpdating, CheckActive, Stabilise, Recover, Early
<1>4. CASE HandleFailed \/ HandleDeleting \/ CheckDeleted \/ Cleanup
  BY <1>4, EndingHandled DEF HandleFailed, HandleDeleting, CheckDeleted, Cleanup, Early
<1> QED BY <1>1, <1>2, <1>3, <1>4 DEF Reconcile

-----------------------------------------------------------------------------
(* The other steps of Reconcile *)

\* A reconcile that is skipped has no Kode to forget: the cache shows one that is gone.
LEMMA SkipHandler ==
  ASSUME TypeOK, RefInv, HandlerInv, Skip PROVE HandlerInv'
<1>1. /\ UNCHANGED <<kode, status, cacheKode, cacheStatus, pc, k, st, next, again>>
      /\ pc = "idle" /\ (~cacheKode.exists \/ (cacheKode.deleting /\ ~cacheKode.fin))
  BY DEF Skip, objVars, cacheVars, localVars
<1>2. kode.exists => ~Synced
  BY <1>1 DEF RefInv, OwnedInv, Synced
<1> QED BY <1>1, <1>2 DEF HandlerInv, FillInv, QueueInv, NeverForgotten, Synced

\* A reconcile starts from what the cache shows.
LEMMA StartHandler ==
  ASSUME TypeOK, LifeInv, RefInv, HandlerInv, Start PROVE HandlerInv'
<1>1. /\ UNCHANGED <<kode, status, cacheKode, cacheStatus, next, again>> /\ k' = cacheKode
      /\ cacheKode.exists /\ (cacheKode.deleting => cacheKode.fin)
  BY DEF Start, objVars, cacheVars
<1>2. cacheKode \in Meta /\ cacheStatus \in Status
  BY DEF TypeOK, ClusterTypeOK
<1>3. CASE cacheKode.deleting
  <2>1. pc' = "markDeleting"
    BY <1>3 DEF Start
  <2> QED BY <1>1, <1>3, <2>1 DEF HandlerInv, FillInv, QueueInv, NeverForgotten
<1>4. CASE ~cacheKode.deleting
  <2>1. pc' = Route(cacheKode, cacheStatus) /\ st' = cacheStatus
    BY <1>4 DEF Start
  <2>2. /\ pc' \notin {"idle", "advance", "init"}
        /\ pc' = "addFinalizer" <=> ~cacheKode.fin
        /\ pc' = "resetRetry" => cacheStatus.retry > 0
        /\ pc' = "pending" => cacheStatus.phase = "Pending"
        /\ pc' \notin BareSteps =>
             cacheStatus.phase \notin {NoPhase, "Pending", "Deleting"} \/ pc' = "unhandled"
    <3>1. cacheStatus.phase # "Deleting"
      BY <1>4 DEF LifeInv, ServerInv
    <3> QED BY <1>2, <2>1, <3>1 DEF Route, HandlerStep, BareSteps, NoPhase, Meta
  <2>3. Route(cacheKode, cacheStatus) # "unhandled"
    BY <1>2, RouteEnds DEF LifeInv, ServerInv
  <2> QED BY <1>1, <1>2, <1>4, <2>1, <2>2, <2>3
          DEF HandlerInv, FillInv, QueueInv, NeverForgotten, Furnished
<1> QED BY <1>3, <1>4

\* The first copy of a new Kode is Pending and has nothing yet.
LEMMA AddFinalizerHandler ==
  ASSUME TypeOK, LifeInv, RefInv, HandlerInv, AddFinalizer PROVE HandlerInv'
<1> DEFINE fresh == [st EXCEPT !.phase = "Pending", !.obs = k.gen]
<1>1. pc = "addFinalizer" /\ UNCHANGED <<status, cacheKode, cacheStatus>> /\ ~k.deleting
  BY DEF AddFinalizer, cacheVars, LifeInv, StepInv, DeletionSteps
<1>2. kode'.exists = kode.exists
  BY DEF AddFinalizer, TypeOK, ClusterTypeOK, Meta
<1>3. Goto("init", fresh) \/ Finish(TRUE)
  BY DEF AddFinalizer
<1>4. Furnished(fresh) /\ (Blank(st) => Blank(fresh))
  <2>1. /\ fresh.phase = "Pending" /\ fresh.retry = st.retry /\ fresh.conds = st.conds
        /\ st.phase # "Deleting"
    BY <1>1 DEF TypeOK, Status, LifeInv, CopyInv
  <2> QED BY <1>1, <2>1 DEF HandlerInv, FillInv, Furnished, Filled, Blank
<1> HIDE DEF fresh
<1>5. CASE Goto("init", fresh)
  <2>1. pc' = "init" /\ k' = k /\ st' = fresh
    BY <1>5 DEF Goto
  <2> QED BY <1>1, <1>2, <1>4, <2>1
          DEF HandlerInv, FillInv, QueueInv, NeverForgotten, BareSteps
<1>6. CASE Finish(TRUE)
  <2>1. pc' = "idle" /\ "kode" \in queue'
    BY <1>6 DEF Finish, Forget
  <2> QED BY <1>1, <1>2, <2>1
          DEF HandlerInv, FillInv, QueueInv, NeverForgotten, BareSteps
<1> QED BY <1>3, <1>5, <1>6

\* A blank status has no conditions, and as yet needs none.
LEMMA BlankIsBare ==
  ASSUME NEW s, Blank(s) PROVE ~Filled(s) /\ s.phase # "Deleting" /\ Furnished(s)
<1>1. EmptyStatus.conds.ready = "none"
  BY DEF EmptyStatus
<1>2. s.conds.ready = "none"
  BY <1>1 DEF Blank
<1>3. ~Filled(s)
  BY <1>2 DEF Filled
<1>4. s.phase \in {NoPhase, "Pending"} /\ ~(s.retry > 0)
  BY DEF Blank
<1> QED BY <1>3, <1>4 DEF Furnished, NoPhase

\* The first status is saved over a blank one.
LEMMA InitialiseHandler ==
  ASSUME TypeOK, LifeInv, RefInv, HandlerInv, Initialise PROVE HandlerInv'
<1>1. /\ pc = "init" /\ UNCHANGED <<kode, cacheKode, cacheStatus>>
      /\ Save(st, TRUE, TRUE) /\ Finish(TRUE)
  BY DEF Initialise, Save, OnlyStatus, cacheVars
<1>2. pc' = "idle" /\ "kode" \in queue'
  BY <1>1 DEF Finish, Forget
<1>3. /\ Furnished(status')
      /\ Filled(cacheStatus) /\ status'.phase # "Deleting" => Filled(status')
      /\ kode.exists /\ ~cacheKode.fin => Blank(status')
  <2>1. CASE status' = status
    BY <2>1 DEF HandlerInv, FillInv
  <2>2. CASE kode.exists /\ status' \in MergePatch(cacheStatus, st, status)
    <3>1. Blank(status) /\ Blank(st)
      BY <1>1, <2>2 DEF HandlerInv, FillInv
    <3>2. ~Filled(cacheStatus)
      BY <3>1, BlankIsBare DEF HandlerInv, FillInv
    <3>3. Blank(status')
      BY <2>2, <3>1, PatchedFields DEF Blank, Pick
    <3> QED BY <3>2, <3>3, BlankIsBare
  <2> QED BY <1>1, <2>1, <2>2, SaveNeedsKode
<1> QED BY <1>1, <1>2, <1>3 DEF HandlerInv, FillInv, QueueInv, NeverForgotten, BareSteps
\* An edit is observed: the copy saved has its conditions, or is being deleted.
LEMMA GenerationMismatchHandler ==
  ASSUME TypeOK, LifeInv, RefInv, HandlerInv, GenerationMismatch PROVE HandlerInv'
<1> DEFINE w == Mismatched(st, k.gen)
<1>1. /\ pc = "mismatch" /\ UNCHANGED <<kode, cacheKode, cacheStatus>>
      /\ Save(w, TRUE, TRUE) /\ Finish(TRUE)
  BY DEF GenerationMismatch, Save, OnlyStatus, cacheVars
<1>2. k.deleting <=> st.phase = "Deleting"
  BY <1>1 DEF LifeInv, CopyInv
<1>3. IF st.phase = "Deleting" THEN w.phase = "Deleting" ELSE Filled(w)
  BY DEF Mismatched, Progressing, WithConditions, Filled, TypeOK, Status
<1> HIDE DEF w
<1>4. pc' = "idle" /\ "kode" \in queue'
  BY <1>1 DEF Finish, Forget
<1>5. /\ Furnished(status')
      /\ Filled(cacheStatus') /\ status'.phase # "Deleting" => Filled(status')
      /\ kode'.exists => cacheKode'.fin
  BY <1>1, <1>2, <1>3, FillingSave DEF HandlerInv
<1> QED BY <1>1, <1>4, <1>5 DEF HandlerInv, FillInv, QueueInv, NeverForgotten, BareSteps

\* HandleState saves a phase the cache does not show, or the Kode is queued, or gone.
LEMMA SavePhaseHandler ==
  ASSUME TypeOK, LifeInv, RefInv, HandlerInv, SavePhase PROVE HandlerInv'
<1> DEFINE w == [st EXCEPT !.phase = next]
<1>1. /\ pc = "advance" /\ UNCHANGED <<kode, cacheKode, cacheStatus>>
      /\ Save(w, TRUE, TRUE) /\ (Finish(again) \/ Finish(TRUE))
  BY DEF SavePhase, Save, OnlyStatus, cacheVars
<1>2. Filled(st) /\ ~k.deleting
  BY <1>1, FilledCopy DEF HandlerInv
<1>3. w.phase = next /\ Filled(w)
  BY <1>2 DEF TypeOK, Status, Filled
<1>4. \/ Finish(TRUE)
      \/ Finish(again) /\ ~cacheKode.exists
      \/ Finish(again) /\ status' \in MergePatch(cacheStatus, w, status)
  BY DEF SavePhase, Save
<1> HIDE DEF w
<1>5. pc' = "idle" /\ (queue \subseteq queue')
  BY <1>1 DEF Finish, Forget
<1>6. /\ Furnished(status')
      /\ Filled(cacheStatus') /\ status'.phase # "Deleting" => Filled(status')
      /\ kode'.exists => cacheKode'.fin
  BY <1>1, <1>2, <1>3, FillingSave DEF HandlerInv
<1>7. FillInv'
  BY <1>1, <1>5, <1>6 DEF HandlerInv, FillInv, BareSteps
<1>8. "kode" \in queue' \/ ~kode'.exists \/ ~Synced'
  <2>1. CASE Finish(TRUE) \/ again
    BY <1>1, <2>1 DEF Finish, TypeOK
  <2>2. CASE ~cacheKode.exists
    BY <1>1, <2>2 DEF RefInv, OwnedInv
  <2>3. CASE ~again /\ status' \in MergePatch(cacheStatus, w, status) /\ "kode" \notin queue
    <3>1. cacheStatus.phase # w.phase
      BY <1>1, <1>2, <1>3, <2>3, Moves DEF HandlerInv, QueueInv
    <3>2. status'.phase = w.phase
      BY <2>3, <3>1, PatchedFields DEF Pick
    <3> QED BY <1>1, <3>1, <3>2 DEF Synced
  <2> QED BY <1>4, <1>5, <2>1, <2>2, <2>3
<1> QED BY <1>5, <1>7, <1>8 DEF HandlerInv, QueueInv, NeverForgotten

\* The reconcile that ends with the finalizer leaves no Kode.
LEMMA RemoveFinalizerHandler ==
  ASSUME TypeOK, LifeInv, RefInv, HandlerInv, RemoveFinalizer PROVE HandlerInv'
<1>1. /\ pc = "removeFinalizer" /\ UNCHANGED <<status, cacheKode, cacheStatus>>
      /\ Finish(FALSE) \/ Goto("error", st)
  BY DEF RemoveFinalizer, cacheVars
<1>2. k.deleting /\ kode.deleting
  BY <1>1 DEF RefInv, MarkedInv, DeletingSteps, LifeInv, CopyInv, ServerInv
<1>3. ~kode'.exists \/ (UNCHANGED kode /\ Goto("error", st))
  <2>1. CASE UpdateAccepted /\ kode' = [kode EXCEPT !.fin = FALSE, !.exists = ~kode.deleting]
    BY <1>2, <2>1 DEF TypeOK, ClusterTypeOK, Meta
  <2>2. CASE ~cacheKode.exists /\ UNCHANGED kode
    BY <1>1, <2>2 DEF RefInv, OwnedInv
  <2> QED BY <2>1, <2>2 DEF RemoveFinalizer
<1>4. CASE ~kode'.exists
  BY <1>1, <1>2, <1>4 DEF Finish, Forget, Goto, HandlerInv, FillInv, QueueInv, NeverForgotten, BareSteps
<1>5. CASE UNCHANGED kode /\ Goto("error", st)
  BY <1>1, <1>2, <1>5 DEF Goto, HandlerInv, FillInv, QueueInv, NeverForgotten, BareSteps
<1> QED BY <1>3, <1>4, <1>5

\* A crash loses the copy and lists the Kode afresh.
LEMMA CrashHandler ==
  ASSUME TypeOK, RefInv, HandlerInv, Crash PROVE HandlerInv'
<1>1. /\ pc' = "idle" /\ "kode" \in queue' /\ UNCHANGED <<kode, status>>
      /\ cacheKode' = kode /\ cacheStatus' = status
  BY DEF Crash, Forget, Restart, objVars, Controllers
<1>2. kode.exists /\ ~kode.fin => Blank(status)
  BY DEF RefInv, OwnedInv, HandlerInv, FillInv
<1> QED BY <1>1, <1>2 DEF HandlerInv, FillInv, QueueInv, NeverForgotten, BareSteps

\* An event that changes the Kode shows in the cache later, and queues it then.
LEMMA EnvironmentHandler ==
  ASSUME TypeOK, LifeInv, RefInv, HandlerInv, Environment, UNCHANGED localVars
  PROVE  HandlerInv'
<1> USE DEF localVars
<1>1. kode \in Meta /\ cacheKode \in Meta
  BY DEF TypeOK, ClusterTypeOK
<1>2. CASE UNCHANGED <<kode, status, cacheKode, cacheStatus, queue>>
  BY <1>2 DEF HandlerInv, FillInv, QueueInv, NeverForgotten, Synced
<1>3. CASE (\E s \in Specs : EditSpec(s)) \/ DeleteKode
  <2>1. UNCHANGED <<status, cacheKode, cacheStatus, queue>> /\ kode.exists
    BY <1>3 DEF EditSpec, DeleteKode, cacheVars
  <2>2. ~kode'.exists \/ kode'.gen = kode.gen + 1
    <3>1. CASE \E s \in Specs : EditSpec(s)
      <4>1. PICK s \in Specs : kode' = [kode EXCEPT !.spec = s, !.gen = @ + 1]
        BY <3>1 DEF EditSpec
      <4> QED BY <1>1, <4>1 DEF Meta
    <3>2. CASE DeleteKode
      BY <1>1, <3>2 DEF DeleteKode, Meta
    <3> QED BY <1>3, <3>1, <3>2
  <2>3. kode'.exists => cacheKode # kode'
    BY <1>1, <2>2 DEF RefInv, GenInv, Meta
  <2> QED BY <2>1, <2>3 DEF HandlerInv, FillInv, QueueInv, NeverForgotten, Synced
<1>4. CASE SyncKode
  <2>1. /\ UNCHANGED <<kode, status>> /\ cacheKode' = kode /\ cacheStatus' = status
        /\ "kode" \in queue'
    BY <1>4 DEF SyncKode, objVars, Controllers
  <2>2. kode.exists /\ ~kode.fin => Blank(status)
    BY DEF RefInv, OwnedInv, HandlerInv, FillInv
  <2>3. pc # "idle" /\ k.fin /\ kode.exists => kode.fin
    BY DEF RefInv, OwnedInv, HandlerInv, FillInv
  <2> QED BY <2>1, <2>2, <2>3 DEF HandlerInv, FillInv, QueueInv, NeverForgotten
<1>5. CASE EntryPointFails
  <2>1. /\ UNCHANGED <<kode, cacheKode, cacheStatus, queue>>
        /\ status.phase = "Active" /\ cacheStatus = status
    BY <1>5 DEF EntryPointFails, cacheVars, Synced
  <2>2. status'.phase = "Failed" /\ (Filled(status) => Filled(status'))
    BY <1>5 DEF EntryPointFails, TypeOK, ClusterTypeOK, Status, Conditions, Filled
  <2>3. Filled(status) /\ ~Blank(status)
    BY <2>1 DEF HandlerInv, FillInv, Furnished, Blank, NoPhase
  <2>4. Furnished(status')
    BY <2>2, <2>3, FilledIsFurnished
  <2>5. cacheStatus # status'
    BY <2>1, <2>2
  <2> QED BY <2>1, <2>2, <2>3, <2>4, <2>5
          DEF HandlerInv, FillInv, QueueInv, NeverForgotten, Synced
<1>6. (\/ PodStart \/ PodStop \/ PodFails
       \/ \E kind \in Kinds :
            SyncChild(kind) \/ LoseChild(kind) \/ FinishDelete(kind) \/ GarbageCollect(kind))
        => UNCHANGED <<kode, status, cacheKode, cacheStatus, queue>>
  BY DEF PodStart, PodStop, PodFails, SyncChild, LoseChild, FinishDelete, GarbageCollect,
         objVars, cacheVars
<1> QED BY <1>2, <1>3, <1>4, <1>5, <1>6 DEF Environment

-----------------------------------------------------------------------------
(* The invariant, and what it gives *)

\* A new Kode has a blank status, and the informer has not seen it.
LEMMA InitHandler == Init => HandlerInv
<1> SUFFICES ASSUME Init PROVE HandlerInv
  OBVIOUS
<1>1. /\ kode.exists = TRUE /\ cacheKode.exists = FALSE /\ pc = "idle" /\ k = NoKode
      /\ status = EmptyStatus /\ cacheStatus = EmptyStatus
  BY DEF Init, ClusterInit, LocalInit
<1>2. Blank(EmptyStatus)
  BY DEF Blank, EmptyStatus
<1>3. Furnished(EmptyStatus) /\ ~Filled(EmptyStatus)
  BY <1>2, BlankIsBare
<1>4. ~Synced
  BY <1>1 DEF Synced
<1> QED BY <1>1, <1>2, <1>3, <1>4 DEF HandlerInv, FillInv, QueueInv, NeverForgotten, BareSteps

\* No step breaks it.
LEMMA NextHandler ==
  ASSUME TypeOK, LifeInv, RefInv, HandlerInv, [Next]_vars PROVE HandlerInv'
<1>1. CASE UNCHANGED vars
  BY <1>1 DEF HandlerInv, FillInv, QueueInv, NeverForgotten, Synced,
              vars, clusterVars, localVars
<1>2. CASE Handled /\ pc \notin {"idle", "addFinalizer", "init"}
  BY <1>2, HandledFills, HandledQueues DEF HandlerInv
<1>3. CASE Reconcile
  <2>1. \/ Skip \/ Start \/ AddFinalizer \/ Initialise \/ GenerationMismatch \/ SavePhase
        \/ RemoveFinalizer
        \/ Handled /\ pc \notin {"idle", "addFinalizer", "init"}
    BY <1>3, StepsOfReconcile DEF HandlerInv, MarkDeleting, Early
  <2> QED BY <1>2, <2>1, SkipHandler, StartHandler, AddFinalizerHandler, InitialiseHandler,
             GenerationMismatchHandler, SavePhaseHandler, RemoveFinalizerHandler
<1>4. CASE Crash
  BY <1>4, CrashHandler
<1>5. CASE Environment /\ UNCHANGED localVars
  BY <1>5, EnvironmentHandler
<1> QED BY <1>1, <1>3, <1>4, <1>5 DEF Next
\* The inductive invariant: conditions go with phases on the server, in the cache and in
\* the copy, and a reconcile that ends unqueued has just changed what the cache shows.
THEOREM HandlerCorrect == Spec => []HandlerInv
<1>1. Init => HandlerInv
  BY InitHandler
<1>2. TypeOK /\ LifeInv /\ RefInv /\ HandlerInv /\ [Next]_vars => HandlerInv'
  BY NextHandler
<1> QED BY <1>1, <1>2, TypeCorrect, LifeCorrect, RefCorrect, PTL DEF Spec

\* handleActiveState dereferences three conditions it never checks for nil: they are
\* there, however the phase and the conditions of several copies were merged.
THEOREM ConditionsAlwaysPresent == Spec => []ConditionsPresent
<1>1. LifeInv /\ HandlerInv => ConditionsPresent
  <2> SUFFICES ASSUME LifeInv, HandlerInv, pc = "stabilise" PROVE Filled(st)
    BY DEF ConditionsPresent, Filled
  <2> QED BY FilledCopy DEF HandlerInv
<1> QED BY <1>1, LifeCorrect, HandlerCorrect, PTL

\* An existing Kode is never forgotten: when a handler returns Result{} and nothing else
\* queues the Kode, the save before it changed a phase the informer still has to show.
THEOREM KodeNeverForgotten == Spec => []NeverForgotten
<1>1. HandlerInv => NeverForgotten
  BY DEF HandlerInv, QueueInv
<1> QED BY <1>1, HandlerCorrect, PTL
=============================================================================
