------------------------- MODULE KodeControllerProofs -------------------------
(***************************************************************************)
(* What TLAPS proves of the Kode controller, for every set of specs, every *)
(* choice of kinds, every bound and every mixture of faults.               *)
(***************************************************************************)
EXTENDS KodeController, TLAPS

-----------------------------------------------------------------------------
(* The operations on a status keep it one *)

\* SetCondition only ever changes the four conditions.
LEMMA WithConditionsType ==
  ASSUME NEW s \in Status, NEW ready \in ConditionStatus,
         NEW avail \in ConditionStatus, NEW prog \in ConditionStatus
  PROVE  WithConditions(s, ready, avail, prog) \in Status
BY DEF WithConditions, Status, Conditions

\* The copies the handlers save are statuses.
LEMMA CopiesType ==
  ASSUME NEW s \in Status, NEW gen \in Nat
  PROVE  /\ Progressing(s) \in Status /\ Serving(s) \in Status
         /\ Errored(s) \in Status /\ Mismatched(s, gen) \in Status
<1>1. "True" \in ConditionStatus /\ "False" \in ConditionStatus
  BY DEF ConditionStatus
<1>2. Progressing(s) \in Status /\ Serving(s) \in Status
  BY <1>1, WithConditionsType DEF Progressing, Serving
<1>3. Errored(s) \in Status
  <2>1. WithConditions(s, "False", "False", "False") \in Status
    BY <1>1, WithConditionsType
  <2> QED BY <2>1 DEF Errored, Status
<1>4. Mismatched(s, gen) \in Status
  <2> DEFINE observed == [s EXCEPT !.obs = gen]
  <2>1. observed \in Status
    BY DEF Status
  <2>2. Progressing(observed) \in Status
    BY <2>1, <1>1, WithConditionsType DEF Progressing
  <2>3. [Progressing(observed) EXCEPT !.phase = "Updating"] \in Status
    BY <2>2 DEF Status, Phases
  <2> QED BY <2>1, <2>3 DEF Mismatched
<1> QED BY <1>2, <1>3, <1>4

\* A merge patch takes every field from a status.
LEMMA MergePatchType ==
  ASSUME NEW cached \in Status, NEW wanted \in Status, NEW current \in Status,
         NEW s \in MergePatch(cached, wanted, current)
  PROVE  s \in Status
BY DEF MergePatch, Pick, Status

\* The locals a reconcile leaves behind have their types.
LEMMA ForgetType == ASSUME Forget PROVE
  /\ pc' \in Steps /\ k' \in Meta /\ st' \in Status
  /\ next' \in Phases \cup {NoPhase} /\ again' \in BOOLEAN /\ todo' \subseteq Kinds
<1>1. NoKode \in Meta
  <2>1. (CHOOSE s \in Specs : TRUE) \in SpecRecord
    BY SpecsAssumption
  <2> QED BY <2>1 DEF NoKode, Meta
<1>2. EmptyStatus \in Status
  BY DEF EmptyStatus, Status, Conditions, ConditionStatus
<1> QED BY <1>1, <1>2 DEF Forget, Steps

-----------------------------------------------------------------------------
(* The ways a step ends keep the types *)

LocalTypeOK ==
  /\ pc \in Steps /\ k \in Meta /\ st \in Status
  /\ next \in Phases \cup {NoPhase} /\ again \in BOOLEAN /\ todo \subseteq Kinds

\* Goto stays in the reconcile with another copy of the status.
LEMMA GotoType ==
  ASSUME TypeOK, NEW step \in Steps, NEW s \in Status, Goto(step, s)
  PROVE  LocalTypeOK' /\ queue' \subseteq Controllers
BY DEF TypeOK, ClusterTypeOK, LocalTypeOK, Goto

\* Finish ends it.
LEMMA FinishType ==
  ASSUME TypeOK, NEW requeue \in BOOLEAN, Finish(requeue)
  PROVE  LocalTypeOK' /\ queue' \subseteq Controllers
BY ForgetType DEF TypeOK, ClusterTypeOK, LocalTypeOK, Finish, Controllers

\* Advance leaves a phase to be saved.
LEMMA AdvanceType ==
  ASSUME TypeOK, NEW phase \in Phases, NEW requeue \in BOOLEAN, NEW s \in Status,
         Advance(phase, requeue, s)
  PROVE  LocalTypeOK' /\ queue' \subseteq Controllers
BY DEF TypeOK, ClusterTypeOK, LocalTypeOK, Advance, Steps

\* A call that fails is counted.
LEMMA FaultType ==
  ASSUME TypeOK, NEW call, Fault(call) PROVE faults' \in Nat
BY DEF TypeOK, ClusterTypeOK, Fault

\* A step that touches nothing but the status, the queue and the locals.
LEMMA StatusStepType ==
  ASSUME TypeOK, OnlyStatus, status' \in Status, faults' \in Nat,
         LocalTypeOK', queue' \subseteq Controllers
  PROVE  TypeOK'
BY DEF TypeOK, ClusterTypeOK, LocalTypeOK, OnlyStatus, cacheVars, childVars

\* Whatever UpdateStatus comes to, the status is one and the faults are counted.
LEMMA SaveType ==
  ASSUME TypeOK, NEW wanted \in Status, Save(wanted, TRUE, TRUE)
  PROVE  status' \in Status /\ faults' \in Nat
BY MergePatchType, FaultType DEF TypeOK, ClusterTypeOK, Save

\* A step that saves a copy of the status and ends one way or the other.
LEMMA SavingStepType ==
  ASSUME TypeOK, OnlyStatus, NEW wanted \in Status, Save(wanted, TRUE, TRUE),
         LocalTypeOK', queue' \subseteq Controllers
  PROVE  TypeOK'
BY SaveType, StatusStepType

\* A step that only looks.
LEMMA LookingStepType ==
  ASSUME TypeOK, OnlyStatus, UNCHANGED status, faults' \in Nat,
         LocalTypeOK', queue' \subseteq Controllers
  PROVE  TypeOK'
BY StatusStepType DEF TypeOK, ClusterTypeOK

\* A handler finds its step.
LEMMA RouteType ==
  ASSUME NEW m, NEW s PROVE Route(m, s) \in Steps /\ HandlerStep(s.phase) \in Steps
BY DEF Route, HandlerStep, Steps

-----------------------------------------------------------------------------
(* Type correctness of every step *)

\* The copies Start takes are those of the informer, which have their type.
LEMMA StartType == ASSUME TypeOK, Start PROVE TypeOK'
<1>1. [cacheStatus EXCEPT !.phase = "Deleting"] \in Status
  BY DEF TypeOK, ClusterTypeOK, Status, Phases
<1>2. pc' \in Steps /\ st' \in Status
  BY <1>1, RouteType DEF TypeOK, ClusterTypeOK, Start, Steps
<1> QED BY <1>2 DEF TypeOK, ClusterTypeOK, Start, objVars, cacheVars, childVars

\* Saving the phase Deleting, which Reconcile does first for a Kode marked for deletion.
LEMMA MarkDeletingType == ASSUME TypeOK, MarkDeleting PROVE TypeOK'
<1>1. st \in Status
  BY CopiesType DEF TypeOK, ClusterTypeOK, Meta
<1>2. OnlyStatus /\ Save(st, TRUE, TRUE)
  BY DEF MarkDeleting, Save
<1>3. Goto(Route(k, st), st) \/ Finish(TRUE)
  BY DEF MarkDeleting, Save
<1>4. LocalTypeOK' /\ queue' \subseteq Controllers
  BY <1>1, <1>3, GotoType, FinishType, AdvanceType, RouteType DEF TypeOK, Steps, Phases
<1> QED BY <1>1, <1>2, <1>4, SavingStepType

\* Saving the initial status of a new Kode.
LEMMA InitialiseType == ASSUME TypeOK, Initialise PROVE TypeOK'
<1>1. st \in Status
  BY CopiesType DEF TypeOK, ClusterTypeOK, Meta
<1>2. OnlyStatus /\ Save(st, TRUE, TRUE)
  BY DEF Initialise, Save
<1>3. Finish(TRUE)
  BY DEF Initialise, Save
<1>4. LocalTypeOK' /\ queue' \subseteq Controllers
  BY <1>1, <1>3, GotoType, FinishType, AdvanceType, RouteType DEF TypeOK, Steps, Phases
<1> QED BY <1>1, <1>2, <1>4, SavingStepType

\* Saving the deletion cycle after cleanup.
LEMMA CleanedUpType == ASSUME TypeOK, CleanedUp PROVE TypeOK'
<1>1. st \in Status
  BY CopiesType DEF TypeOK, ClusterTypeOK, Meta
<1>2. OnlyStatus /\ Save(st, TRUE, TRUE)
  BY DEF CleanedUp, Save
<1>3. Finish(TRUE)
  BY DEF CleanedUp, Save
<1>4. LocalTypeOK' /\ queue' \subseteq Controllers
  BY <1>1, <1>3, GotoType, FinishType, AdvanceType, RouteType DEF TypeOK, Steps, Phases
<1> QED BY <1>1, <1>2, <1>4, SavingStepType

\* Saving the status handleGenerationMismatch has prepared.
LEMMA GenerationMismatchType == ASSUME TypeOK, GenerationMismatch PROVE TypeOK'
<1>1. Mismatched(st, k.gen) \in Status
  BY CopiesType DEF TypeOK, ClusterTypeOK, Meta
<1>2. OnlyStatus /\ Save(Mismatched(st, k.gen), TRUE, TRUE)
  BY DEF GenerationMismatch, Save
<1>3. Finish(TRUE)
  BY DEF GenerationMismatch, Save
<1>4. LocalTypeOK' /\ queue' \subseteq Controllers
  BY <1>1, <1>3, GotoType, FinishType, AdvanceType, RouteType DEF TypeOK, Steps, Phases
<1> QED BY <1>1, <1>2, <1>4, SavingStepType

\* Saving what handleReconcileError records.
LEMMA RecordErrorType == ASSUME TypeOK, RecordError PROVE TypeOK'
<1>1. Errored(st) \in Status
  BY CopiesType DEF TypeOK, ClusterTypeOK, Meta
<1>2. OnlyStatus /\ Save(Errored(st), TRUE, TRUE)
  BY DEF RecordError, Save
<1>3. Finish(TRUE)
  BY DEF RecordError, Save
<1>4. LocalTypeOK' /\ queue' \subseteq Controllers
  BY <1>1, <1>3, GotoType, FinishType, AdvanceType, RouteType DEF TypeOK, Steps, Phases
<1> QED BY <1>1, <1>2, <1>4, SavingStepType

\* Saving the conditions of a healthy Active Kode.
LEMMA StabiliseType == ASSUME TypeOK, Stabilise PROVE TypeOK'
<1>1. Serving(st) \in Status
  BY CopiesType DEF TypeOK, ClusterTypeOK, Meta
<1>2. OnlyStatus /\ (Save(Serving(st), TRUE, TRUE) \/ UNCHANGED <<status, faults>>)
  BY DEF Stabilise, Save
<1>3. Finish(TRUE) \/ Goto("error", Serving(st))
  BY DEF Stabilise, Save
<1>4. LocalTypeOK' /\ queue' \subseteq Controllers
  BY <1>1, <1>3, GotoType, FinishType, AdvanceType, RouteType DEF TypeOK, Steps, Phases
<1>5. faults \in Nat
  BY DEF TypeOK, ClusterTypeOK
<1> QED BY <1>1, <1>2, <1>4, <1>5, SavingStepType, LookingStepType

\* Saving the conditions handleDeletingState starts with.
LEMMA HandleDeletingType == ASSUME TypeOK, HandleDeleting PROVE TypeOK'
<1>1. Progressing(st) \in Status
  BY CopiesType DEF TypeOK, ClusterTypeOK, Meta
<1>2. OnlyStatus /\ Save(Progressing(st), TRUE, TRUE)
  BY DEF HandleDeleting, Save
<1>3. Finish(TRUE) \/ Goto("checkDeleted", Progressing(st))
  BY DEF HandleDeleting, Save
<1>4. LocalTypeOK' /\ queue' \subseteq Controllers
  BY <1>1, <1>3, GotoType, FinishType, AdvanceType, RouteType DEF TypeOK, Steps, Phases
<1> QED BY <1>1, <1>2, <1>4, SavingStepType

\* Saving a retry count of zero.
LEMMA ResetRetryType == ASSUME TypeOK, ResetRetry PROVE TypeOK'
<1> DEFINE s == [st EXCEPT !.retry = 0]
<1>1. s \in Status
  BY DEF TypeOK, Status
<1>2. OnlyStatus /\ Save(s, TRUE, TRUE)
  BY DEF ResetRetry, Save
<1>3. Goto(HandlerStep(s.phase), s) \/ Finish(TRUE)
  BY DEF ResetRetry, Save
<1>4. LocalTypeOK' /\ queue' \subseteq Controllers
  <2>1. HandlerStep(s.phase) \in Steps
    BY RouteType
  <2> HIDE DEF s
  <2> QED BY <1>1, <1>3, <2>1, GotoType, FinishType
<1> QED BY <1>1, <1>2, <1>4, SavingStepType

\* HandleState saves a phase that has a handler.
LEMMA SavePhaseType == ASSUME TypeOK, SavePhase PROVE TypeOK'
<1>1. [st EXCEPT !.phase = next] \in Status
  BY DEF TypeOK, Status
<1>2. OnlyStatus /\ Save([st EXCEPT !.phase = next], TRUE, TRUE)
  BY DEF SavePhase, Save
<1>3. Finish(again) \/ Finish(TRUE)
  BY DEF SavePhase, Save
<1>4. LocalTypeOK' /\ queue' \subseteq Controllers
  BY <1>3, FinishType DEF TypeOK
<1> QED BY <1>1, <1>2, <1>4, SavingStepType

\* handlePendingState, with a spec that is valid and one that is not.
LEMMA HandlePendingType == ASSUME TypeOK, HandlePending PROVE TypeOK'
<1> DEFINE s == Progressing(st)
<1>1. st \in Status /\ s \in Status
  BY CopiesType DEF TypeOK
<1>2. CASE k.spec.valid
  <2>1. OnlyStatus /\ Save(s, TRUE, TRUE)
    BY <1>2 DEF HandlePending, Save
  <2>2. Advance("Configuring", TRUE, s) \/ Goto("error", s)
    BY <1>2 DEF HandlePending, Save
  <2>3. LocalTypeOK' /\ queue' \subseteq Controllers
    BY <1>1, <2>2, GotoType, AdvanceType DEF Steps, Phases
  <2> QED BY <1>1, <2>1, <2>3, SavingStepType
<1>3. CASE ~k.spec.valid
  <2>1. OnlyStatus /\ UNCHANGED <<status, faults>> /\ Goto("error", st)
    BY <1>3 DEF HandlePending
  <2>2. LocalTypeOK' /\ queue' \subseteq Controllers
    BY <1>1, <2>1, GotoType DEF Steps
  <2> QED BY <2>1, <2>2, LookingStepType DEF TypeOK, ClusterTypeOK
<1> QED BY <1>2, <1>3

\* fetchTemplatesWithRetry, whether it fails or saves the runtime.
LEMMA FetchTemplateType == ASSUME TypeOK, FetchTemplate PROVE TypeOK'
<1> DEFINE step == IF st.phase \in {"Configuring", "Updating"} THEN "detect" ELSE "check"
<1>1. st \in Status
  BY DEF TypeOK
<1>2. FetchFailed => LocalTypeOK' /\ queue' \subseteq Controllers
  BY <1>1, GotoType, AdvanceType DEF FetchFailed, Steps, Phases
<1>3. CASE Fault("template") /\ UNCHANGED status /\ FetchFailed
  BY <1>2, <1>3, FaultType, LookingStepType DEF FetchTemplate
<1>4. CASE Save(st, Goto(step, st), FetchFailed)
  <2>1. OnlyStatus /\ Save(st, TRUE, TRUE)
    BY <1>4 DEF FetchTemplate, Save
  <2>2. Goto(step, st) \/ FetchFailed
    BY <1>4 DEF Save
  <2>3. step \in Steps
    BY DEF Steps
  <2>4. LocalTypeOK' /\ queue' \subseteq Controllers
    BY <1>1, <1>2, <2>2, <2>3, GotoType
  <2> QED BY <1>1, <2>1, <2>4, SavingStepType
<1> QED BY <1>3, <1>4 DEF FetchTemplate

\* A failing read of the children ends every handler that looks at them alike.
LEMMA ReadFailsType == ASSUME TypeOK, OnlyStatus, ReadFails PROVE TypeOK'
<1>1. LocalTypeOK' /\ queue' \subseteq Controllers
  BY GotoType DEF ReadFails, TypeOK, Steps
<1> QED BY <1>1, FaultType, LookingStepType DEF ReadFails

\* What change detection leaves to apply is a set of kinds.
LEMMA DetectType == ASSUME TypeOK, Detect PROVE TypeOK'
<1> DEFINE s == Unchanged(st)
<1>1. st \in Status /\ s \in Status
  <2>1. st \in Status /\ st.conds.avail \in ConditionStatus /\ k.gen \in Nat
    BY DEF TypeOK, Status, Conditions, Meta
  <2>2. WithConditions(st, "True", st.conds.avail, "False") \in Status
    BY <2>1, WithConditionsType DEF ConditionStatus
  <2> QED BY <2>1, <2>2 DEF Unchanged, Status
<1>2. OnlyStatus
  BY DEF Detect
<1>3. CASE ReadFails
  BY <1>2, <1>3, ReadFailsType
<1>4. CASE /\ pc' = "apply" /\ todo' = Changes
           /\ UNCHANGED <<status, faults, k, st, next, again, queue>>
  <2>1. Changes \subseteq Kinds
    BY DEF Changes, Wanted
  <2>2. LocalTypeOK' /\ queue' \subseteq Controllers
    BY <1>4, <2>1 DEF TypeOK, ClusterTypeOK, LocalTypeOK, Steps
  <2> QED BY <1>2, <1>4, <2>2, LookingStepType DEF TypeOK, ClusterTypeOK
<1>5. CASE UNCHANGED <<status, faults>> /\ Goto("validate", st)
  <2>1. LocalTypeOK' /\ queue' \subseteq Controllers
    BY <1>1, <1>5, GotoType DEF Steps
  <2> QED BY <1>2, <1>5, <2>1, LookingStepType DEF TypeOK, ClusterTypeOK
<1>6. CASE Save(s, Advance("Active", TRUE, s), Goto("error", s))
  <2>1. Save(s, TRUE, TRUE) /\ (Advance("Active", TRUE, s) \/ Goto("error", s))
    BY <1>6 DEF Save
  <2>2. LocalTypeOK' /\ queue' \subseteq Controllers
    BY <1>1, <2>1, GotoType, AdvanceType DEF Steps, Phases
  <2> QED BY <1>1, <1>2, <2>1, <2>2, SavingStepType
<1> QED BY <1>3, <1>4, <1>5, <1>6 DEF Detect
\* What Ensure writes is a child.
LEMMA EnsuredType ==
  ASSUME TypeOK, NEW kind \in Kinds PROVE Ensured(kind) \in SpecRecord
<1>1. k.spec \in SpecRecord /\ kids[kind] \in Child
  BY DEF TypeOK, ClusterTypeOK, Meta
<1>2. CASE kind = "secret" /\ kids[kind] # NoChild
  <2>1. kids[kind].template \in Templates
    BY <1>1, <1>2 DEF Child, SpecRecord
  <2> QED BY <1>1, <1>2, <2>1 DEF Ensured, SpecRecord
<1> QED BY <1>1, <1>2 DEF Ensured

\* A child that is applied is built from a spec.
LEMMA ApplyType == ASSUME TypeOK, Apply PROVE TypeOK'
<1> DEFINE kind == First(todo, ApplyOrder)
           new  == [kids EXCEPT ![kind] = Ensured(kind)]
<1> HIDE DEF kind
<1>1. new \in [Kinds -> Child]
  <2>1. kids \in [Kinds -> Child]
    BY DEF TypeOK, ClusterTypeOK
  <2>2. CASE kind \in Kinds
    <3>1. Ensured(kind) \in Child
      BY <2>2, EnsuredType DEF Child
    <3> QED BY <2>1, <3>1
  <2>3. CASE kind \notin Kinds
    BY <2>1, <2>3
  <2> QED BY <2>2, <2>3
<1> HIDE DEF new
<1>2. CASE /\ WriteKids(new)
           /\ todo' = todo \ {kind}
           /\ pc' = IF todo' = {} THEN "validate" ELSE "apply"
           /\ UNCHANGED <<faults, k, st, next, again, queue>>
  BY <1>1, <1>2 DEF Apply, WriteKids, TypeOK, ClusterTypeOK, Steps, objVars, cacheVars
<1>3. CASE /\ IF Refused(kind) THEN UNCHANGED faults ELSE Fault("ensure")
           /\ UNCHANGED <<kids, seen>> /\ Goto("error", st)
  <2>1. LocalTypeOK' /\ queue' \subseteq Controllers
    BY <1>3, GotoType DEF TypeOK, Steps
  <2>2. faults' \in Nat
    BY <1>3, FaultType DEF TypeOK, ClusterTypeOK
  <2> QED BY <1>3, <2>1, <2>2 DEF Apply, TypeOK, ClusterTypeOK, LocalTypeOK, objVars, cacheVars
<1> QED BY <1>2, <1>3 DEF Apply, kind, new

\* Validation of the children, whatever it finds.
LEMMA ValidateType == ASSUME TypeOK, Validate PROVE TypeOK'
<1> DEFINE s == Progressing(st)
<1>1. st \in Status /\ s \in Status
  BY CopiesType DEF TypeOK
<1>2. OnlyStatus
  BY DEF Validate
<1>3. CASE ReadFails
  BY <1>2, <1>3, ReadFailsType
<1>4. CASE UNCHANGED <<status, faults>> /\ (Goto("error", st) \/ Goto("check", st))
  <2>1. LocalTypeOK' /\ queue' \subseteq Controllers
    BY <1>1, <1>4, GotoType DEF Steps
  <2> QED BY <1>2, <1>4, <2>1, LookingStepType DEF TypeOK, ClusterTypeOK
<1>5. CASE Save(s, Advance("Provisioning", TRUE, s), Goto("error", s))
  <2>1. Save(s, TRUE, TRUE) /\ (Advance("Provisioning", TRUE, s) \/ Goto("error", s))
    BY <1>5 DEF Save
  <2>2. LocalTypeOK' /\ queue' \subseteq Controllers
    BY <1>1, <2>1, GotoType, AdvanceType DEF Steps, Phases
  <2> QED BY <1>1, <1>2, <2>1, <2>2, SavingStepType
<1> QED BY <1>3, <1>4, <1>5 DEF Validate

\* The port of a template is a number.
LEMMA PortType == ASSUME TypeOK PROVE Port \in Nat
BY PortAssumption DEF TypeOK, Meta, SpecRecord, Port

\* A handler that saves s and advances, ends or fails.
LEMMA CheckStepType ==
  ASSUME TypeOK, OnlyStatus, NEW s \in Status, NEW phase \in Phases, NEW step \in Steps,
         NEW requeue \in BOOLEAN, Save(s, TRUE, TRUE),
         \/ Finish(TRUE) \/ Goto(step, s) \/ Goto("error", s) \/ Advance(phase, requeue, s)
  PROVE  TypeOK'
<1>1. LocalTypeOK' /\ queue' \subseteq Controllers
  BY FinishType, GotoType, AdvanceType DEF Steps
<1> QED BY <1>1, SavingStepType

\* handleProvisioningState after the template: the port it saves is a number.
LEMMA CheckProvisioningType == ASSUME TypeOK, CheckProvisioning PROVE TypeOK'
<1> DEFINE up == [Serving(st) EXCEPT !.port = Port]
<1>1. Progressing(st) \in Status /\ Serving(st) \in Status /\ OnlyStatus
  BY CopiesType DEF TypeOK, CheckProvisioning
<1>2. up \in Status
  BY <1>1, PortType DEF Status
<1>3. CASE ReadFails
  BY <1>1, <1>3, ReadFailsType
<1>4. CASE Save(Progressing(st), Finish(TRUE), Goto("error", Progressing(st)))
  <2>1. /\ Save(Progressing(st), TRUE, TRUE)
        /\ Finish(TRUE) \/ Goto("error", Progressing(st))
    BY <1>4 DEF Save
  <2> QED BY <1>1, <2>1, CheckStepType DEF Phases, Steps
<1>5. CASE Save(up, Advance("Active", FALSE, up), Goto("error", up))
  <2>1. Save(up, TRUE, TRUE) /\ (Advance("Active", FALSE, up) \/ Goto("error", up))
    BY <1>5 DEF Save
  <2> QED BY <1>1, <1>2, <2>1, CheckStepType DEF Phases, Steps
<1> QED BY <1>3, <1>4, <1>5 DEF CheckProvisioning

\* The end of handleUpdatingState, with the pod ready or not.
LEMMA CheckUpdatingType == ASSUME TypeOK, CheckUpdating PROVE TypeOK'
<1> DEFINE wait == WithConditions(st, "False", st.conds.avail, "True")
           up   == [Serving(st) EXCEPT !.port = Port, !.obs = k.gen]
<1>1. OnlyStatus /\ st \in Status /\ st.conds.avail \in ConditionStatus /\ k.gen \in Nat
  BY DEF TypeOK, CheckUpdating, Status, Conditions, Meta
<1>2. wait \in Status
  BY <1>1, WithConditionsType DEF ConditionStatus
<1>3. up \in Status
  <2>1. Serving(st) \in Status
    BY <1>1, CopiesType
  <2> QED BY <1>1, <2>1, PortType DEF Status
<1>4. CASE ReadFails
  BY <1>1, <1>4, ReadFailsType
<1>5. CASE Save(wait, Finish(TRUE), Goto("error", wait))
  <2>1. Save(wait, TRUE, TRUE) /\ (Finish(TRUE) \/ Goto("error", wait))
    BY <1>5 DEF Save
  <2> QED BY <1>1, <1>2, <2>1, CheckStepType DEF Phases, Steps
<1>6. CASE Save(up, Advance("Active", FALSE, up), Goto("error", up))
  <2>1. Save(up, TRUE, TRUE) /\ (Advance("Active", FALSE, up) \/ Goto("error", up))
    BY <1>6 DEF Save
  <2> QED BY <1>1, <1>3, <2>1, CheckStepType DEF Phases, Steps
<1> QED BY <1>4, <1>5, <1>6 DEF CheckUpdating

\* handleActiveState up to the port it may save.
LEMMA CheckActiveType == ASSUME TypeOK, CheckActive PROVE TypeOK'
<1> DEFINE down == Progressing(st)
           move == [st EXCEPT !.port = Port]
<1>1. OnlyStatus /\ st \in Status /\ down \in Status
  BY CopiesType DEF TypeOK, CheckActive
<1>2. move \in Status
  BY <1>1, PortType DEF Status
<1>3. CASE ReadFails
  BY <1>1, <1>3, ReadFailsType
<1>4. CASE Save(down, Advance("Updating", TRUE, down), Goto("error", down))
  <2>1. Save(down, TRUE, TRUE) /\ (Advance("Updating", TRUE, down) \/ Goto("error", down))
    BY <1>4 DEF Save
  <2> QED BY <1>1, <2>1, CheckStepType DEF Phases, Steps
<1>5. CASE Save(move, Goto("stabilise", move), Goto("error", move))
  <2>1. Save(move, TRUE, TRUE) /\ (Goto("stabilise", move) \/ Goto("error", move))
    BY <1>5 DEF Save
  <2> QED BY <1>1, <1>2, <2>1, CheckStepType DEF Phases, Steps
<1>6. CASE UNCHANGED <<status, faults>> /\ Goto("stabilise", st)
  <2>1. LocalTypeOK' /\ queue' \subseteq Controllers
    BY <1>1, <1>6, GotoType DEF Steps
  <2> QED BY <1>1, <1>6, <2>1, LookingStepType DEF TypeOK, ClusterTypeOK
<1> QED BY <1>3, <1>4, <1>5, <1>6 DEF CheckActive

\* determineRecoveryPhase returns a phase that has a handler.
LEMMA RecoverType == ASSUME TypeOK, Recover PROVE TypeOK'
<1>1. PICK phase \in Phases : Advance(phase, TRUE, st)
  BY DEF Recover, Phases
<1>2. LocalTypeOK' /\ queue' \subseteq Controllers
  BY <1>1, AdvanceType DEF TypeOK
<1>3. faults' \in Nat
  BY FaultType DEF Recover, TypeOK, ClusterTypeOK
<1> QED BY <1>2, <1>3, LookingStepType DEF Recover

\* handleFailedState, below and at the retry limit.
LEMMA HandleFailedType == ASSUME TypeOK, HandleFailed PROVE TypeOK'
<1> DEFINE stop  == WithConditions(st, "False", "False", "False")
           retry == [Progressing(st) EXCEPT !.retry = @ + 1, !.err = FALSE]
<1>1. OnlyStatus /\ st \in Status /\ Progressing(st) \in Status
  BY CopiesType DEF TypeOK, HandleFailed
<1>2. stop \in Status
  BY <1>1, WithConditionsType DEF ConditionStatus
<1>3. retry \in Status
  <2>1. Progressing(st).retry + 1 \in Nat
    BY <1>1 DEF Status
  <2> QED BY <1>1, <2>1 DEF Status
<1>4. CASE Save(stop, Finish(TRUE), Finish(TRUE))
  <2>1. Save(stop, TRUE, TRUE) /\ Finish(TRUE)
    BY <1>4 DEF Save
  <2> QED BY <1>1, <1>2, <2>1, CheckStepType DEF Phases, Steps
<1>5. CASE Save(retry, Goto("fetch", retry), Finish(TRUE))
  <2>1. Save(retry, TRUE, TRUE) /\ (Goto("fetch", retry) \/ Finish(TRUE))
    BY <1>5 DEF Save
  <2> QED BY <1>1, <1>3, <2>1, CheckStepType DEF Phases, Steps
<1> QED BY <1>4, <1>5 DEF HandleFailed

\* handleDeletingState, at each of its three ways on from checkResourcesDeleted.
LEMMA CheckDeletedType == ASSUME TypeOK, CheckDeleted PROVE TypeOK'
<1> DEFINE more == [st EXCEPT !.cycle = IF @ < MaxCycle THEN @ + 1 ELSE @]
<1>1. OnlyStatus /\ st \in Status /\ st.cycle \in Nat
  BY DEF TypeOK, CheckDeleted, Status
<1>2. more \in Status /\ [st EXCEPT !.cycle = 1] \in Status
  <2>1. (IF st.cycle < MaxCycle THEN st.cycle + 1 ELSE st.cycle) \in Nat
    BY <1>1
  <2> QED BY <1>1, <2>1 DEF Status
<1>3. CASE ReadFails
  BY <1>1, <1>3, ReadFailsType
<1>4. CASE UNCHANGED <<status, faults>> /\ Goto("removeFinalizer", st)
  <2>1. LocalTypeOK' /\ queue' \subseteq Controllers
    BY <1>1, <1>4, GotoType DEF Steps
  <2> QED BY <1>1, <1>4, <2>1, LookingStepType DEF TypeOK, ClusterTypeOK
<1>5. CASE /\ pc' = "cleanup" /\ todo' = ToDelete(k.spec)
           /\ st' = [st EXCEPT !.cycle = 1]
           /\ UNCHANGED <<status, faults, k, next, again, queue>>
  <2>1. ToDelete(k.spec) \subseteq Kinds
    BY DEF ToDelete, Wanted
  <2>2. LocalTypeOK' /\ queue' \subseteq Controllers
    BY <1>2, <1>5, <2>1 DEF TypeOK, ClusterTypeOK, LocalTypeOK, Steps
  <2> QED BY <1>1, <1>5, <2>2, LookingStepType DEF TypeOK, ClusterTypeOK
<1>6. CASE Save(more, Finish(TRUE), Finish(TRUE))
  <2>1. Save(more, TRUE, TRUE) /\ Finish(TRUE)
    BY <1>6 DEF Save
  <2> QED BY <1>1, <1>2, <2>1, CheckStepType DEF Phases, Steps
<1> QED BY <1>3, <1>4, <1>5, <1>6 DEF CheckDeleted

\* The clean-up goes on with one of the children left.
LEMMA FirstIn ==
  ASSUME NEW S \in SUBSET Kinds, S # {} PROVE First(S, CleanupOrder) \in S
<1> DEFINE IsFirst(x) == x \in S /\ \A y \in S : CleanupOrder[x] <= CleanupOrder[y]
<1>1. S \subseteq {"secret", "service", "statefulset", "pvc"}
  BY KindAssumption DEF AllKinds
<1>2. /\ CleanupOrder["statefulset"] = 1 /\ CleanupOrder["service"] = 2
      /\ CleanupOrder["secret"] = 3 /\ CleanupOrder["pvc"] = 4
  BY DEF CleanupOrder
<1>3. "statefulset" \in S => IsFirst("statefulset")
  BY <1>1, <1>2
<1>4. "statefulset" \notin S /\ "service" \in S => IsFirst("service")
  BY <1>1, <1>2
<1>5. "statefulset" \notin S /\ "service" \notin S /\ "secret" \in S => IsFirst("secret")
  BY <1>1, <1>2
<1>6. S = {"pvc"} => IsFirst("pvc")
  BY <1>2
<1>7. \E x : IsFirst(x)
  BY <1>1, <1>3, <1>4, <1>5, <1>6
<1> QED BY <1>7 DEF First

\* Cleanup deletes a kind of child that is left to delete.
LEMMA CleanupType == ASSUME TypeOK, todo # {}, Cleanup PROVE TypeOK'
<1> DEFINE kind == First(todo, CleanupOrder)
<1>0. kind \in Kinds
  BY FirstIn DEF TypeOK
<1> HIDE DEF kind
<1>1. CASE /\ terminating' = IF kids[kind] = NoChild THEN terminating
                                                      ELSE terminating \cup {kind}
           /\ todo' = todo \ {kind}
           /\ pc' = IF todo' = {} THEN "cleaned" ELSE "cleanup"
           /\ UNCHANGED <<faults, k, st, next, again, queue>>
  <2>1. terminating' \subseteq Kinds
    BY <1>0, <1>1 DEF TypeOK, ClusterTypeOK
  <2> QED BY <1>1, <2>1 DEF Cleanup, TypeOK, ClusterTypeOK, Steps, objVars, cacheVars
<1>2. CASE Fault("delete") /\ UNCHANGED terminating /\ Goto("error", st)
  <2>1. LocalTypeOK' /\ queue' \subseteq Controllers /\ faults' \in Nat
    BY <1>2, GotoType, FaultType DEF TypeOK, Steps
  <2> QED BY <1>2, <2>1 DEF Cleanup, TypeOK, ClusterTypeOK, LocalTypeOK, objVars, cacheVars
<1> QED BY <1>1, <1>2 DEF Cleanup, kind

\* Removing the finalizer, done, refused or failed.
LEMMA RemoveFinalizerType == ASSUME TypeOK, RemoveFinalizer PROVE TypeOK'
<1>1. Finish(FALSE) \/ Goto("error", st)
  BY DEF RemoveFinalizer
<1>2. LocalTypeOK' /\ queue' \subseteq Controllers
  BY <1>1, FinishType, GotoType DEF TypeOK, Steps
<1>3. faults' \in Nat
  BY FaultType DEF RemoveFinalizer, TypeOK, ClusterTypeOK
<1>4. kode' \in Meta
  BY DEF RemoveFinalizer, TypeOK, ClusterTypeOK, Meta
<1> QED BY <1>2, <1>3, <1>4
    DEF RemoveFinalizer, TypeOK, ClusterTypeOK, LocalTypeOK, cacheVars, childVars

\* Adding the finalizer, done, refused or failed.
LEMMA AddFinalizerType == ASSUME TypeOK, AddFinalizer PROVE TypeOK'
<1> DEFINE fresh == [st EXCEPT !.phase = "Pending", !.obs = k.gen]
<1>1. fresh \in Status
  BY DEF TypeOK, Status, Phases, Meta
<1>2. Goto("init", fresh) \/ Finish(TRUE)
  BY DEF AddFinalizer
<1>3. LocalTypeOK' /\ queue' \subseteq Controllers
  BY <1>1, <1>2, FinishType, GotoType DEF TypeOK, Steps
<1>4. faults' \in Nat
  BY FaultType DEF AddFinalizer, TypeOK, ClusterTypeOK
<1>5. kode' \in Meta
  BY DEF AddFinalizer, TypeOK, ClusterTypeOK, Meta
<1> QED BY <1>3, <1>4, <1>5
    DEF AddFinalizer, TypeOK, ClusterTypeOK, LocalTypeOK, cacheVars, childVars

\* A Kode that is gone only leaves the queue.
LEMMA SkipType == ASSUME TypeOK, Skip PROVE TypeOK'
BY DEF Skip, TypeOK, ClusterTypeOK, objVars, cacheVars, childVars, localVars

\* A crash forgets the copies, and a restart lists what the server has.
LEMMA CrashType == ASSUME TypeOK, Crash PROVE TypeOK'
<1>1. LocalTypeOK'
  BY ForgetType DEF Crash, LocalTypeOK
<1>2. faults' \in Nat
  BY FaultType DEF Crash
<1> QED BY <1>1, <1>2 DEF Crash, Restart, TypeOK, ClusterTypeOK, LocalTypeOK, objVars

-----------------------------------------------------------------------------
(* The cluster's own steps *)

\* Writing children leaves the children and their caches with their types.
LEMMA WriteKidsType ==
  ASSUME TypeOK, NEW kind \in Kinds, WriteKids([kids EXCEPT ![kind] = NoChild])
  PROVE  kids' \in [Kinds -> Child] /\ seen' \in [Kinds -> Child]
BY DEF WriteKids, TypeOK, ClusterTypeOK, Child

\* The steps of the user, the informers and the built-in controllers.
LEMMA EnvironmentType ==
  ASSUME TypeOK, Environment, UNCHANGED localVars PROVE TypeOK'
<1> USE DEF TypeOK, ClusterTypeOK, objVars, cacheVars, childVars, localVars
<1>1. CASE \E s \in Specs : EditSpec(s)
  <2>1. PICK s \in Specs : EditSpec(s)
    BY <1>1
  <2>2. s \in SpecRecord
    BY SpecsAssumption
  <2>3. kode \in Meta /\ kode.gen + 1 \in Nat
    BY DEF Meta
  <2>4. kode' = [kode EXCEPT !.spec = s, !.gen = kode.gen + 1]
    BY <2>1 DEF EditSpec
  <2>5. kode' \in Meta
    BY <2>2, <2>3, <2>4 DEF Meta
  <2> QED BY <2>1, <2>5 DEF EditSpec
<1>2. CASE DeleteKode
  <2>1. kode \in Meta /\ kode.gen + 1 \in Nat
    BY DEF Meta
  <2>2. \/ kode' = [kode EXCEPT !.deleting = TRUE, !.gen = kode.gen + 1]
        \/ kode' = [kode EXCEPT !.exists = FALSE]
    BY <1>2 DEF DeleteKode
  <2>3. kode' \in Meta
    BY <2>1, <2>2 DEF Meta
  <2> QED BY <1>2, <2>3 DEF DeleteKode
<1>3. CASE SyncKode
  BY <1>3 DEF SyncKode
<1>4. CASE PodStart \/ PodStop \/ PodFails
  BY <1>4, KindAssumption DEF PodStart, PodStop, PodFails, Child
<1>5. ASSUME NEW kind \in Kinds, SyncChild(kind) PROVE TypeOK'
  BY <1>5 DEF SyncChild
<1>6. ASSUME NEW kind \in Kinds, LoseChild(kind) \/ FinishDelete(kind) PROVE TypeOK'
  <2>1. kids' \in [Kinds -> Child] /\ seen' \in [Kinds -> Child]
    BY <1>6, WriteKidsType DEF LoseChild, FinishDelete
  <2> QED BY <1>6, <2>1 DEF LoseChild, FinishDelete
<1>7. ASSUME NEW kind \in Kinds, GarbageCollect(kind) PROVE TypeOK'
  BY <1>7 DEF GarbageCollect
<1>8. CASE EntryPointFails
  <2>1. status' = [status EXCEPT !.phase = "Failed", !.err = TRUE, !.conds.error = "True"]
    BY <1>8 DEF EntryPointFails
  <2>2. status.conds \in Conditions /\ status'.conds = [status.conds EXCEPT !.error = "True"]
    BY <2>1 DEF Status
  <2>3. status'.conds \in Conditions
    BY <2>2 DEF Conditions, ConditionStatus
  <2>4. status' \in Status
    BY <2>1, <2>3 DEF Status, Phases
  <2> QED BY <1>8, <2>4 DEF EntryPointFails
<1> QED BY <1>1, <1>2, <1>3, <1>4, <1>5, <1>6, <1>7, <1>8 DEF Environment

-----------------------------------------------------------------------------
(* Work left: a step that applies or deletes has a child to do it to *)

WorkLeft == pc \in {"apply", "cleanup"} => todo # {}

\* A reconcile that applies or deletes always has a kind left to handle.
LEMMA NextWorkLeft == ASSUME TypeOK, WorkLeft, Next PROVE WorkLeft'
<1> DEFINE Away == pc' \notin {"apply", "cleanup"}
<1>1. ASSUME NEW step, NEW s, Goto(step, s), step \notin {"apply", "cleanup"} PROVE Away
  BY <1>1 DEF Goto
<1>2. ASSUME NEW requeue, Finish(requeue) PROVE Away
  BY <1>2 DEF Finish, Forget
<1>3. ASSUME NEW phase, NEW requeue, NEW s, Advance(phase, requeue, s) PROVE Away
  BY <1>3 DEF Advance
<1>4. \A m, s : /\ Route(m, s) \notin {"apply", "cleanup"}
                /\ HandlerStep(s.phase) \notin {"apply", "cleanup"}
  BY DEF Route, HandlerStep
<1>5. CASE Skip
  BY <1>5 DEF Skip, WorkLeft, localVars
<1>6. CASE Environment /\ UNCHANGED localVars
  BY <1>6 DEF WorkLeft, localVars
<1>7. CASE Start
  BY <1>4, <1>7 DEF Start, WorkLeft
<1>8. CASE MarkDeleting \/ Initialise \/ GenerationMismatch \/ RecordError \/ SavePhase \/ CleanedUp
  BY <1>1, <1>2, <1>4, <1>8
     DEF MarkDeleting, Initialise, GenerationMismatch, RecordError, SavePhase, CleanedUp, Save, WorkLeft
<1>9. CASE AddFinalizer \/ RemoveFinalizer
  <2> DEFINE fresh == [st EXCEPT !.phase = "Pending", !.obs = k.gen]
  <2>1. Goto("init", fresh) \/ Finish(TRUE) \/ Finish(FALSE) \/ Goto("error", st)
    BY <1>9 DEF AddFinalizer, RemoveFinalizer
  <2> HIDE DEF fresh
  <2> QED BY <1>1, <1>2, <2>1 DEF WorkLeft
<1>10. CASE ResetRetry
  BY <1>1, <1>2, <1>4, <1>10 DEF ResetRetry, Save, WorkLeft
<1>11. CASE HandlePending \/ FetchTemplate
  BY <1>1, <1>3, <1>11 DEF HandlePending, FetchTemplate, FetchFailed, Save, WorkLeft
<1>12. CASE Detect
  BY <1>1, <1>3, <1>12 DEF Detect, ReadFails, Save, WorkLeft
<1>13. CASE Apply
  BY <1>1, <1>13 DEF Apply, WorkLeft
<1>14. CASE Validate \/ CheckProvisioning \/ CheckUpdating \/ CheckActive
  BY <1>1, <1>2, <1>3, <1>14
     DEF Validate, CheckProvisioning, CheckUpdating, CheckActive, ReadFails, Save, WorkLeft
<1>15. CASE Stabilise \/ HandleFailed \/ Recover \/ HandleDeleting
  <2>1. CASE HandleFailed
    <3> DEFINE retry == [Progressing(st) EXCEPT !.retry = @ + 1, !.err = FALSE]
    <3>1. Goto("fetch", retry) \/ Finish(TRUE)
      BY <2>1 DEF HandleFailed, Save
    <3> HIDE DEF retry
    <3> QED BY <1>1, <1>2, <3>1 DEF WorkLeft
  <2>2. CASE Recover
    <3>1. \E phase : Advance(phase, TRUE, st)
      BY <2>2 DEF Recover
    <3> QED BY <1>3, <3>1 DEF WorkLeft
  <2> QED BY <1>1, <1>2, <1>15, <2>1, <2>2 DEF Stabilise, HandleDeleting, Save, WorkLeft
<1>16. CASE CheckDeleted
  <2>1. "statefulset" \in ToDelete(k.spec)
    BY KindAssumption DEF ToDelete, Wanted
  <2> QED BY <1>1, <1>2, <1>16, <2>1 DEF CheckDeleted, ReadFails, Save, WorkLeft
<1>17. CASE Cleanup
  BY <1>1, <1>17 DEF Cleanup, WorkLeft
<1>18. CASE Crash
  BY <1>18 DEF Crash, Forget, WorkLeft
<1> HIDE DEF Away
<1>19. CASE Reconcile
  BY <1>5, <1>7, <1>8, <1>9, <1>10, <1>11, <1>12, <1>13, <1>14, <1>15, <1>16,
     <1>17, <1>19 DEF Reconcile
<1> QED BY <1>18, <1>6, <1>19 DEF Next

-----------------------------------------------------------------------------
(* Type correctness *)

\* The initial states have their type.
LEMMA InitType == Init => TypeOK
<1> SUFFICES ASSUME Init PROVE TypeOK
  OBVIOUS
<1>1. EmptyStatus \in Status
  BY DEF EmptyStatus, Status, Conditions, ConditionStatus
<1>2. NoKode \in Meta
  <2>1. (CHOOSE s \in Specs : TRUE) \in SpecRecord
    BY SpecsAssumption
  <2> QED BY <2>1 DEF NoKode, Meta
<1>3. kode \in Meta /\ cacheKode \in Meta
  BY SpecsAssumption DEF Init, ClusterInit, Meta
<1> QED BY <1>1, <1>2, <1>3
    DEF Init, ClusterInit, LocalInit, TypeOK, ClusterTypeOK, Child, Steps

\* No step of the system breaks the type.
LEMMA NextType == ASSUME TypeOK, WorkLeft, [Next]_vars PROVE TypeOK'
<1>1. CASE UNCHANGED vars
  BY <1>1 DEF TypeOK, ClusterTypeOK, vars, clusterVars, localVars
<1>2. CASE Reconcile
  <2>1. CASE Cleanup
    BY <2>1, CleanupType DEF Cleanup, WorkLeft
  <2> QED BY <1>2, <2>1, SkipType, StartType, MarkDeletingType, AddFinalizerType, InitialiseType,
     GenerationMismatchType, ResetRetryType, SavePhaseType, RecordErrorType,
     HandlePendingType, FetchTemplateType, DetectType, ApplyType, ValidateType,
     CheckProvisioningType, CheckUpdatingType, CheckActiveType, StabiliseType,
     HandleFailedType, RecoverType, HandleDeletingType, CheckDeletedType,
     CleanedUpType, RemoveFinalizerType DEF Reconcile
<1>3. CASE Crash
  BY <1>3, CrashType
<1>4. CASE Environment /\ UNCHANGED localVars
  BY <1>4, EnvironmentType
<1> QED BY <1>1, <1>2, <1>3, <1>4 DEF Next

\* Every variable keeps its type, whatever the specs, the faults and the
\* order of the steps: every status a handler saves, merged with whatever the
\* server holds by then, is a status with a phase that has a handler or none.
THEOREM TypeCorrect == Spec => []TypeOK
<1> DEFINE IInv == TypeOK /\ WorkLeft
<1>1. Init => IInv
  BY InitType DEF Init, LocalInit, WorkLeft
<1>2. IInv /\ [Next]_vars => IInv'
  <2> SUFFICES ASSUME IInv, [Next]_vars PROVE IInv'
    OBVIOUS
  <2>1. TypeOK'
    BY NextType
  <2>2. WorkLeft'
    BY NextWorkLeft DEF WorkLeft, vars, localVars
  <2> QED BY <2>1, <2>2
<1>3. IInv => TypeOK
  OBVIOUS
<1> QED BY <1>1, <1>2, <1>3, PTL DEF Spec

\* No reconcile is ever left applying or deleting nothing.
LEMMA WorkStays == Spec => []WorkLeft
<1>1. Init => WorkLeft
  BY DEF Init, LocalInit, WorkLeft
<1>2. TypeOK /\ WorkLeft /\ [Next]_vars => WorkLeft'
  BY NextWorkLeft DEF WorkLeft, vars, localVars
<1> QED BY <1>1, <1>2, TypeCorrect, PTL DEF Spec
=============================================================================
