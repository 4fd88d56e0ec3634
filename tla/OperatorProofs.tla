---------------------------- MODULE OperatorProofs ----------------------------
(***************************************************************************)
(* What TLAPS proves of the two controllers together: types, that a        *)
(* published URL always has its route, and that the retries stay bounded.  *)
(*                                                                         *)
(* Both controllers save whole copies of one status, each computed against *)
(* the same cache, and what the patch leaves out survives at the server.   *)
(* So a value may come to the server from five places, and the invariants  *)
(* say the same of all of them: the server, the cache and the two copies.  *)
(***************************************************************************)
EXTENDS Operator, KodeControllerProofs

-----------------------------------------------------------------------------
(* Type correctness *)

\* What a save of the EntryPoint controller leaves has its type.
LEMMA EPSaveType ==
  ASSUME OpTypeOK, NEW wanted \in Status, Save(wanted, TRUE, TRUE)
  PROVE  status' \in Status /\ faults' \in Nat
BY SaveType DEF OpTypeOK

\* A step of the EntryPoint controller that writes the status at most.
LEMMA EPStatusStepType ==
  ASSUME OpTypeOK, EPOnlyStatus, UNCHANGED localVars,
         status' \in Status, faults' \in Nat, queue' \subseteq Controllers
  PROVE  TypeOK'
BY DEF OpTypeOK, TypeOK, ClusterTypeOK, EPOnlyStatus, cacheVars, childVars, localVars

\* Each of the ways a step of the EntryPoint controller ends keeps the types.
LEMMA EPEndType ==
  ASSUME OpTypeOK, NEW s \in Status,
         \/ \E step \in {"route", "ensured", "publish", "fail"} : EPGoto(step, s)
         \/ \E requeue \in BOOLEAN : EPFinish(requeue)
  PROVE  /\ epc' \in {"idle", "find", "route", "ensured", "publish", "fail"}
         /\ est' \in Status /\ queue' \subseteq Controllers
<1>1. EmptyStatus \in Status
  BY DEF EmptyStatus, Status, Conditions, ConditionStatus
<1>2. queue \subseteq Controllers
  BY DEF OpTypeOK, TypeOK, ClusterTypeOK
<1> QED BY <1>1, <1>2 DEF EPGoto, EPFinish, EPForget, Controllers

\* A step of the EntryPoint controller that saves s and ends one way or another.
LEMMA EPSavingStepType ==
  ASSUME OpTypeOK, EPOnlyStatus, UNCHANGED localVars, NEW wanted \in Status,
         Save(wanted, TRUE, TRUE), NEW s \in Status,
         \/ \E step \in {"route", "ensured", "publish", "fail"} : EPGoto(step, s)
         \/ \E requeue \in BOOLEAN : EPFinish(requeue)
  PROVE  OpTypeOK'
<1>1. TypeOK'
  BY EPSaveType, EPEndType, EPStatusStepType
<1>2. EPTypeOK'
  BY EPEndType DEF OpTypeOK, EPTypeOK, EPOnlyStatus
<1> QED BY <1>1, <1>2 DEF OpTypeOK

\* The copies the EntryPoint controller saves are statuses.
LEMMA EPCopiesType ==
  ASSUME NEW s \in Status
  PROVE  /\ [s EXCEPT !.url = TRUE, !.conds.avail = "True"] \in Status
         /\ [s EXCEPT !.phase = "Failed", !.err = TRUE, !.conds.error = "True"] \in Status
<1>1. s.conds \in Conditions /\ "True" \in ConditionStatus
  BY DEF Status, ConditionStatus
<1>2. /\ [s.conds EXCEPT !.avail = "True"] \in Conditions
      /\ [s.conds EXCEPT !.error = "True"] \in Conditions
  BY <1>1 DEF Conditions
<1>3. /\ [s EXCEPT !.url = TRUE, !.conds.avail = "True"]
           = [[s EXCEPT !.url = TRUE] EXCEPT !.conds = [s.conds EXCEPT !.avail = "True"]]
      /\ [s EXCEPT !.phase = "Failed", !.err = TRUE, !.conds.error = "True"]
           = [[s EXCEPT !.phase = "Failed", !.err = TRUE]
                EXCEPT !.conds = [s.conds EXCEPT !.error = "True"]]
  BY DEF Status
<1> QED BY <1>2, <1>3 DEF Status, Phases

\* Every step of the EntryPoint controller.
LEMMA EPReconcileType ==
  ASSUME OpTypeOK, EPReconcile, UNCHANGED localVars PROVE OpTypeOK'
<1> USE DEF EPOnlyStatus
<1>1. est \in Status /\ cacheStatus \in Status /\ Serving(est) \in Status
  BY CopiesType DEF OpTypeOK, TypeOK, ClusterTypeOK, EPTypeOK
<1>2. CASE EPSkip
  BY <1>2 DEF EPSkip, OpTypeOK, TypeOK, ClusterTypeOK, EPTypeOK,
              objVars, cacheVars, childVars, epVars, localVars
<1>3. CASE EPStart
  BY <1>1, <1>3 DEF EPStart, OpTypeOK, TypeOK, ClusterTypeOK, EPTypeOK,
                    objVars, cacheVars, childVars, localVars
<1>4. CASE FindEntryPoint
  <2>1. \/ \E step \in {"route", "ensured", "publish", "fail"} : EPGoto(step, est)
        \/ \E requeue \in BOOLEAN : EPFinish(requeue)
    BY <1>4 DEF FindEntryPoint
  <2>2. EPOnlyStatus /\ UNCHANGED <<status, faults>>
    BY <1>4 DEF FindEntryPoint
  <2>3. TypeOK'
    BY <1>1, <2>1, <2>2, EPEndType, EPStatusStepType DEF OpTypeOK, TypeOK, ClusterTypeOK
  <2>4. EPTypeOK'
    BY <1>1, <2>1, <2>2, EPEndType DEF OpTypeOK, EPTypeOK
  <2> QED BY <2>3, <2>4 DEF OpTypeOK
<1>5. CASE EnsureRoute
  <2>1. EPGoto("ensured", est) \/ EPGoto("fail", est)
    BY <1>5 DEF EnsureRoute
  <2>2. /\ epc' \in {"idle", "find", "route", "ensured", "publish", "fail"}
        /\ est' \in Status /\ queue' \subseteq Controllers
    BY <1>1, <2>1, EPEndType
  <2>3. faults' \in Nat /\ route' \in BOOLEAN
    BY <1>5, FaultType DEF EnsureRoute, OpTypeOK, TypeOK, ClusterTypeOK, EPTypeOK
  <2> QED BY <1>5, <2>2, <2>3 DEF EnsureRoute, OpTypeOK, TypeOK, ClusterTypeOK, EPTypeOK,
                                  objVars, cacheVars, childVars, localVars
<1>6. CASE DeclareReady
  <2> DEFINE s == Serving(est)
  <2>1. /\ EPOnlyStatus /\ Save(s, TRUE, TRUE)
        /\ EPGoto("publish", s) \/ EPGoto("fail", s)
    BY <1>6 DEF DeclareReady, Save
  <2>2. s \in Status
    BY <1>1
  <2> HIDE DEF s
  <2> QED BY <2>1, <2>2, EPSavingStepType
<1>7. CASE PublishUrl \/ FailKode
  <2>1. PICK s \in {[est EXCEPT !.url = TRUE, !.conds.avail = "True"],
                    [est EXCEPT !.phase = "Failed", !.err = TRUE, !.conds.error = "True"]} :
          EPOnlyStatus /\ Save(s, TRUE, TRUE) /\ (EPFinish(FALSE) \/ EPFinish(TRUE))
    BY <1>7 DEF PublishUrl, FailKode, Save
  <2>2. s \in Status
    BY <1>1, <2>1, EPCopiesType
  <2> QED BY <2>1, <2>2, EPSavingStepType
<1> QED BY <1>2, <1>3, <1>4, <1>5, <1>6, <1>7 DEF EPReconcile

\* Neither controller, nor their going down together, breaks a type.
LEMMA OpNextType ==
  ASSUME OpTypeOK, WorkLeft, [OpNext]_opVars PROVE OpTypeOK' /\ WorkLeft'
<1>1. CASE UNCHANGED opVars
  BY <1>1 DEF OpTypeOK, TypeOK, ClusterTypeOK, EPTypeOK, WorkLeft,
              opVars, vars, clusterVars, localVars, epVars
<1>2. CASE Reconcile /\ UNCHANGED epVars
  <2>1. TypeOK' /\ WorkLeft'
    BY <1>2, NextType, NextWorkLeft DEF Next, OpTypeOK
  <2> QED BY <1>2, <2>1 DEF OpTypeOK, EPTypeOK, epVars
<1>3. CASE EPReconcile /\ UNCHANGED localVars
  BY <1>3, EPReconcileType DEF WorkLeft, localVars
<1>4. CASE OpCrash
  <2>1. Forget /\ Restart /\ Fault("crash") /\ EPForget /\ UNCHANGED route
    BY <1>4 DEF OpCrash
  <2>2. faults' \in Nat
    BY <2>1, FaultType DEF OpTypeOK
  <2>3. TypeOK'
    BY <2>1, <2>2, ForgetType DEF Restart, OpTypeOK, TypeOK, ClusterTypeOK, objVars
  <2>4. EmptyStatus \in Status
    BY DEF EmptyStatus, Status, Conditions, ConditionStatus
  <2> QED BY <2>1, <2>3, <2>4 DEF EPForget, Forget, OpTypeOK, EPTypeOK, WorkLeft
<1>5. CASE Environment /\ UNCHANGED <<localVars, epVars>>
  <2>1. TypeOK'
    BY <1>5, EnvironmentType DEF OpTypeOK
  <2> QED BY <1>5, <2>1 DEF OpTypeOK, EPTypeOK, WorkLeft, localVars, epVars
<1> QED BY <1>1, <1>2, <1>3, <1>4, <1>5 DEF OpNext

\* The initial states have their type.
LEMMA OpInitType == OpInit => OpTypeOK /\ WorkLeft
<1>1. EmptyStatus \in Status
  BY DEF EmptyStatus, Status, Conditions, ConditionStatus
<1> QED BY <1>1, InitType DEF OpInit, EPInit, OpTypeOK, EPTypeOK, Init, LocalInit, WorkLeft

\* Both controllers keep every variable in its type, whatever they find and in
\* whatever order they write: a merge of any two of their copies is a status.
THEOREM OpTypeCorrect == OpSpec => []OpTypeOK
<1>1. OpTypeOK /\ WorkLeft /\ [OpNext]_opVars => (OpTypeOK /\ WorkLeft)'
  BY OpNextType
<1> QED BY <1>1, OpInitType, PTL DEF OpSpec
-----------------------------------------------------------------------------
(* The URL has its route, and the retries stay bounded *)

\* A status that publishes no URL without a route and counts no retry too many.
Sound(s) == (s.url => route) /\ s.retry <= MaxRetries

\* So are the status, what the informer saw of it and both working copies; and
\* the EntryPoint controller has made the route before it declares it ready.
SoundInv ==
  /\ Sound(status) /\ Sound(cacheStatus) /\ Sound(st) /\ Sound(est)
  /\ epc \in {"ensured", "publish"} => route

\* A controller that saves sound copies leaves a sound status.
LEMMA SoundSave ==
  ASSUME SoundInv, NEW wanted, Sound(wanted), Save(wanted, TRUE, TRUE) \/ UNCHANGED status
  PROVE  Sound(status')
BY DEF SoundInv, Sound, Save, MergePatch, Pick

\* A reconcile starts and ends with an empty status, which is sound.
LEMMA SoundEmpty == Sound(EmptyStatus)
BY RetryAssumption DEF Sound, EmptyStatus

\* The copies the handlers save are as sound as the status they copied.
LEMMA SoundCopies ==
  ASSUME NEW s \in Status, Sound(s)
  PROVE  /\ \A a, b, c : Sound(WithConditions(s, a, b, c))
         /\ \A phase : Sound([s EXCEPT !.phase = phase])
         /\ \A gen : Sound(Mismatched(s, gen))
         /\ \A phase, gen : Sound([s EXCEPT !.phase = phase, !.obs = gen])
         /\ \A port : Sound([s EXCEPT !.port = port])
         /\ \A port : Sound([Serving(s) EXCEPT !.port = port])
         /\ \A port, gen : Sound([Serving(s) EXCEPT !.port = port, !.obs = gen])
         /\ \A n : Sound([s EXCEPT !.cycle = n])
         /\ Sound([s EXCEPT !.retry = 0])
         /\ Sound(Progressing(s)) /\ Sound(Serving(s)) /\ Sound(Errored(s))
         /\ Sound(Unchanged(s))
BY RetryAssumption DEF Sound, WithConditions, Mismatched, Progressing, Serving, Errored,
                       Unchanged, Status

\* The copy a step leaves is the one it saved, or none.
LEMMA CopyAfter ==
  ASSUME NEW s,
         \/ \E step : Goto(step, s)
         \/ \E requeue : Finish(requeue)
         \/ \E phase, requeue : Advance(phase, requeue, s)
  PROVE  st' \in {s, EmptyStatus}
BY DEF Goto, Finish, Forget, Advance

\* A step of the Kode controller saves a sound copy at most, and goes on with one.
SoundStep ==
  /\ \E wanted : Sound(wanted) /\ (Save(wanted, TRUE, TRUE) \/ UNCHANGED status)
  /\ Sound(st')

\* A step that saves s and goes on with it.
LEMMA SoundWrite ==
  ASSUME NEW s, Sound(s), Save(s, TRUE, TRUE) \/ UNCHANGED status,
         \/ \E step : Goto(step, s)
         \/ \E requeue : Finish(requeue)
         \/ \E phase, requeue : Advance(phase, requeue, s)
  PROVE  SoundStep
BY CopyAfter, SoundEmpty DEF SoundStep

\* Every step of Reconcile is one: the only handler that counts a retry is
\* that of Failed, below the limit.
LEMMA ReconcileSound ==
  ASSUME TypeOK, SoundInv, Reconcile PROVE SoundStep /\ UNCHANGED cacheStatus
<1>1. st \in Status /\ Sound(st) /\ cacheStatus \in Status /\ Sound(cacheStatus)
  BY DEF TypeOK, ClusterTypeOK, SoundInv
<1>2. UNCHANGED cacheStatus
  BY DEF Reconcile, Skip, Start, MarkDeleting, AddFinalizer, Initialise, GenerationMismatch,
         ResetRetry, SavePhase, RecordError, HandlePending, FetchTemplate, Detect, Apply,
         Validate, CheckProvisioning, CheckUpdating, CheckActive, Stabilise, HandleFailed,
         Recover, HandleDeleting, CheckDeleted, Cleanup, CleanedUp, RemoveFinalizer,
         OnlyStatus, cacheVars
<1> SUFFICES SoundStep
  BY <1>2
<1>3. CASE Skip \/ Start
  BY <1>1, <1>3, SoundCopies DEF Skip, Start, SoundStep, objVars, localVars
<1>4. CASE MarkDeleting \/ Initialise \/ CleanedUp \/ Apply \/ Cleanup \/ Recover
  <2>1. Save(st, TRUE, TRUE) \/ UNCHANGED status
    BY <1>4 DEF MarkDeleting, Initialise, CleanedUp, Apply, Cleanup, Recover, Save, objVars
  <2>2. \/ UNCHANGED st
        \/ \E step : Goto(step, st)
        \/ \E requeue : Finish(requeue)
        \/ \E phase, requeue : Advance(phase, requeue, st)
    BY <1>4 DEF MarkDeleting, Initialise, CleanedUp, Apply, Cleanup, Recover, Save
  <2> QED BY <1>1, <2>1, <2>2, CopyAfter, SoundEmpty DEF SoundStep
<1>5. CASE AddFinalizer \/ RemoveFinalizer
  <2> DEFINE fresh == [st EXCEPT !.phase = "Pending", !.obs = k.gen]
  <2>1. Sound(fresh)
    BY <1>1, SoundCopies
  <2>2. UNCHANGED status
    BY <1>5 DEF AddFinalizer, RemoveFinalizer
  <2>3. Goto("init", fresh) \/ Goto("error", st) \/ \E requeue : Finish(requeue)
    BY <1>5 DEF AddFinalizer, RemoveFinalizer
  <2> HIDE DEF fresh
  <2> QED BY <1>1, <2>1, <2>2, <2>3, SoundWrite
<1>6. CASE GenerationMismatch \/ ResetRetry \/ SavePhase \/ RecordError
  <2>1. PICK s \in {Mismatched(st, k.gen), [st EXCEPT !.retry = 0],
                    [st EXCEPT !.phase = next], Errored(st)} :
          /\ Save(s, TRUE, TRUE)
          /\ (\E step : Goto(step, s)) \/ (\E requeue : Finish(requeue))
    BY <1>6 DEF GenerationMismatch, ResetRetry, SavePhase, RecordError, Save
  <2>2. Sound(s)
    BY <1>1, <2>1, SoundCopies
  <2> QED BY <2>1, <2>2, SoundWrite
<1>7. CASE HandlePending \/ FetchTemplate
  <2>1. PICK s \in {st, Progressing(st)} :
          /\ Save(s, TRUE, TRUE) \/ UNCHANGED status
          /\ \/ \E step : Goto(step, s)
             \/ \E phase, requeue : Advance(phase, requeue, s)
    BY <1>7 DEF HandlePending, FetchTemplate, FetchFailed, Save
  <2>2. Sound(s)
    BY <1>1, <2>1, SoundCopies
  <2> QED BY <2>1, <2>2, SoundWrite
<1>8. CASE Detect \/ Validate
  <2>1. CASE /\ pc' = "apply" /\ todo' = Changes
             /\ UNCHANGED <<status, faults, k, st, next, again, queue>>
    BY <1>1, <2>1 DEF SoundStep
  <2>2. CASE \E s \in {st, Unchanged(st), Progressing(st)} :
               /\ Save(s, TRUE, TRUE) \/ UNCHANGED status
               /\ \/ \E step : Goto(step, s)
                  \/ \E phase, requeue : Advance(phase, requeue, s)
    <3>1. PICK s \in {st, Unchanged(st), Progressing(st)} :
               /\ Save(s, TRUE, TRUE) \/ UNCHANGED status
               /\ \/ \E step : Goto(step, s)
                  \/ \E phase, requeue : Advance(phase, requeue, s)
      BY <2>2
    <3>2. Sound(s)
      BY <1>1, <3>1, SoundCopies
    <3> QED BY <3>1, <3>2, SoundWrite
  <2> QED BY <1>8, <2>1, <2>2 DEF Detect, Validate, ReadFails, Save
<1>9. CASE CheckProvisioning \/ CheckUpdating \/ CheckActive \/ Stabilise
  <2> DEFINE Copies == {st, Progressing(st), Serving(st),
                        [Serving(st) EXCEPT !.port = Port],
                        WithConditions(st, "False", st.conds.avail, "True"),
                        [Serving(st) EXCEPT !.port = Port, !.obs = k.gen],
                        [st EXCEPT !.port = Port]}
  <2>1. \A s \in Copies : Sound(s)
    <3>1. Sound(st) /\ Sound(Progressing(st)) /\ Sound(Serving(st))
      BY <1>1, SoundCopies
    <3>2. Sound([Serving(st) EXCEPT !.port = Port]) /\ Sound([st EXCEPT !.port = Port])
      BY <1>1, SoundCopies
    <3>3. Sound(WithConditions(st, "False", st.conds.avail, "True"))
      BY <1>1, SoundCopies
    <3>4. Sound([Serving(st) EXCEPT !.port = Port, !.obs = k.gen])
      BY <1>1, SoundCopies
    <3> QED BY <3>1, <3>2, <3>3, <3>4
  <2>2. \E s \in Copies :
          /\ Save(s, TRUE, TRUE) \/ UNCHANGED status
          /\ \/ \E step : Goto(step, s)
             \/ \E requeue : Finish(requeue)
             \/ \E phase, requeue : Advance(phase, requeue, s)
    BY <1>9 DEF CheckProvisioning, CheckUpdating, CheckActive, Stabilise, ReadFails, Save
  <2> QED BY <2>1, <2>2, SoundWrite
<1>10. CASE HandleFailed
  <2> DEFINE stop  == WithConditions(st, "False", "False", "False")
             retry == [Progressing(st) EXCEPT !.retry = @ + 1, !.err = FALSE]
  <2>1. Sound(stop)
    BY <1>1, SoundCopies
  <2>2. st.retry < MaxRetries => Sound(retry)
    <3>1. Progressing(st) \in Status /\ Progressing(st).retry = st.retry
          /\ Progressing(st).url = st.url
      BY <1>1, CopiesType DEF Progressing, WithConditions, Status
    <3>2. retry.url = st.url /\ retry.retry = st.retry + 1 /\ st.retry \in Nat
      BY <1>1, <3>1 DEF Status
    <3> QED BY <1>1, <3>2, RetryAssumption DEF Sound
  <2>3. \/ Save(stop, TRUE, TRUE) /\ Finish(TRUE)
        \/ /\ st.retry < MaxRetries /\ Save(retry, TRUE, TRUE)
           /\ Goto("fetch", retry) \/ Finish(TRUE)
    <3>1. st.retry >= MaxRetries \/ st.retry < MaxRetries
      BY <1>1, RetryAssumption DEF Status
    <3>2. CASE st.retry >= MaxRetries
      <4>1. Save(stop, Finish(TRUE), Finish(TRUE))
        BY <1>10, <3>2 DEF HandleFailed
      <4> QED BY <4>1 DEF Save
    <3>3. CASE ~(st.retry >= MaxRetries)
      <4>1. Save(retry, Goto("fetch", retry), Finish(TRUE))
        BY <1>10, <3>3 DEF HandleFailed
      <4> HIDE DEF retry
      <4> QED BY <3>1, <3>3, <4>1 DEF Save
    <3> QED BY <3>2, <3>3
  <2> HIDE DEF stop, retry
  <2> QED BY <2>1, <2>2, <2>3, SoundWrite
<1>11. CASE HandleDeleting
  BY <1>1, <1>11, SoundCopies, SoundWrite DEF HandleDeleting, Save
<1>12. CASE CheckDeleted
  <2> DEFINE first == [st EXCEPT !.cycle = 1]
             more  == [st EXCEPT !.cycle = IF @ < MaxCycle THEN @ + 1 ELSE @]
  <2>1. Sound(first) /\ Sound(more)
    BY <1>1, SoundCopies
  <2>2. \/ UNCHANGED status /\ st' = first
        \/ UNCHANGED status /\ \E step : Goto(step, st)
        \/ Save(more, TRUE, TRUE) /\ Finish(TRUE)
    BY <1>12 DEF CheckDeleted, ReadFails, Save
  <2> HIDE DEF first, more
  <2>3. CASE UNCHANGED status /\ st' = first
    BY <1>1, <2>1, <2>3 DEF SoundStep
  <2> QED BY <1>1, <2>1, <2>2, <2>3, SoundWrite
<1> QED BY <1>3, <1>4, <1>5, <1>6, <1>7, <1>8, <1>9, <1>10, <1>11, <1>12 DEF Reconcile
\* What the EntryPoint controller saves and goes on with is sound: it fails
\* before it publishes when there is no route.
LEMMA EPReconcileSound ==
  ASSUME OpTypeOK, SoundInv, EPReconcile, UNCHANGED localVars PROVE SoundInv'
<1>1. est \in Status /\ cacheStatus \in Status /\ route \in BOOLEAN
  BY DEF OpTypeOK, TypeOK, ClusterTypeOK, EPTypeOK
<1>2. UNCHANGED <<cacheStatus, st>>
  BY DEF EPReconcile, EPSkip, EPStart, FindEntryPoint, EnsureRoute, DeclareReady,
         PublishUrl, FailKode, EPOnlyStatus, cacheVars, localVars
<1>3. CASE EPSkip \/ EPStart
  BY <1>3 DEF EPSkip, EPStart, SoundInv, Sound, objVars, cacheVars, localVars, epVars
<1>4. CASE FindEntryPoint
  BY <1>2, <1>4, SoundEmpty
     DEF FindEntryPoint, EPOnlyStatus, EPGoto, EPFinish, EPForget, SoundInv, Sound
<1>5. CASE EnsureRoute
  BY <1>1, <1>2, <1>5 DEF EnsureRoute, EPGoto, SoundInv, Sound, objVars
<1>6. CASE DeclareReady
  <2> DEFINE s == Serving(est)
  <2>1. /\ UNCHANGED route /\ Save(s, TRUE, TRUE) /\ est' = s
        /\ epc' \in {"publish", "fail"} /\ epc = "ensured"
    BY <1>6 DEF DeclareReady, EPOnlyStatus, EPGoto, Save
  <2>2. Sound(s)
    BY <1>1, SoundCopies DEF SoundInv
  <2> HIDE DEF s
  <2>3. Sound(status')
    BY <2>1, <2>2, SoundSave
  <2> QED BY <1>2, <2>1, <2>2, <2>3 DEF SoundInv, Sound
<1>7. CASE PublishUrl \/ FailKode
  <2>1. PICK s \in {[est EXCEPT !.url = TRUE, !.conds.avail = "True"],
                    [est EXCEPT !.phase = "Failed", !.err = TRUE, !.conds.error = "True"]} :
          /\ s.url => est.url \/ epc = "publish"
          /\ UNCHANGED route /\ Save(s, TRUE, TRUE) /\ EPForget
    BY <1>1, <1>7 DEF PublishUrl, FailKode, EPOnlyStatus, EPFinish, Save, Status
  <2>2. s.retry = est.retry
    BY <1>1, <2>1 DEF Status
  <2>3. Sound(s)
    BY <2>1, <2>2 DEF SoundInv, Sound
  <2>4. Sound(status')
    BY <2>1, <2>3, SoundSave
  <2> QED BY <1>2, <2>1, <2>4, SoundEmpty DEF SoundInv, Sound, EPForget
<1> QED BY <1>3, <1>4, <1>5, <1>6, <1>7 DEF EPReconcile

\* No step of the operator or of its surroundings breaks it.
LEMMA OpNextSound ==
  ASSUME OpTypeOK, SoundInv, [OpNext]_opVars PROVE SoundInv'
<1>1. CASE UNCHANGED opVars
  BY <1>1 DEF SoundInv, Sound, opVars, vars, clusterVars, localVars, epVars
<1>2. CASE Reconcile /\ UNCHANGED epVars
  <2>1. SoundStep /\ UNCHANGED cacheStatus
    BY <1>2, ReconcileSound DEF OpTypeOK
  <2>2. Sound(status') /\ Sound(st')
    BY <2>1, SoundSave DEF SoundStep
  <2> QED BY <1>2, <2>1, <2>2 DEF SoundInv, Sound, epVars
<1>3. CASE EPReconcile /\ UNCHANGED localVars
  BY <1>3, EPReconcileSound
<1>4. CASE OpCrash
  BY <1>4, SoundEmpty DEF OpCrash, Restart, Forget, EPForget, SoundInv, Sound, objVars
<1>5. CASE Environment /\ UNCHANGED <<localVars, epVars>>
  <2>1. CASE EntryPointFails
    BY <1>5, <2>1 DEF EntryPointFails, SoundInv, Sound, OpTypeOK, TypeOK, ClusterTypeOK,
                      Status, cacheVars, localVars, epVars
  <2>2. CASE ~EntryPointFails
    <3>1. UNCHANGED status /\ cacheStatus' \in {status, cacheStatus}
      BY <1>5, <2>2 DEF Environment, EditSpec, DeleteKode, SyncKode, PodStart, PodStop,
         PodFails, SyncChild, LoseChild, FinishDelete, GarbageCollect, objVars, cacheVars
    <3> QED BY <1>5, <3>1 DEF SoundInv, Sound, localVars, epVars
  <2> QED BY <2>1, <2>2
<1> QED BY <1>1, <1>2, <1>3, <1>4, <1>5 DEF OpNext

\* Types and soundness are one inductive invariant.
LEMMA SoundCorrect == OpSpec => [](OpTypeOK /\ SoundInv)
<1> DEFINE IInv == OpTypeOK /\ WorkLeft /\ SoundInv
<1>1. OpInit => IInv
  BY OpInitType, SoundEmpty
     DEF OpInit, EPInit, Init, ClusterInit, LocalInit, SoundInv, Sound
<1>2. IInv /\ [OpNext]_opVars => IInv'
  BY OpNextType, OpNextSound
<1> HIDE DEF IInv
<1>3. IInv => OpTypeOK /\ SoundInv
  BY DEF IInv
<1> QED BY <1>1, <1>2, <1>3, PTL DEF OpSpec

\* A published URL always has its HTTPRoute: neither controller, however old
\* its copy of the status, writes back a URL that nothing serves.
THEOREM UrlServedByRoute == OpSpec => []UrlHasRoute
<1>1. OpTypeOK /\ SoundInv => UrlHasRoute
  BY DEF SoundInv, Sound, UrlHasRoute
<1> QED BY <1>1, SoundCorrect, PTL

\* The retry counter of handleFailedState never passes maxRetries, although
\* two controllers write it back from copies of their own.
THEOREM RetriesStayBounded == OpSpec => []RetriesBounded
<1>1. OpTypeOK /\ SoundInv => RetriesBounded
  BY DEF SoundInv, Sound, RetriesBounded
<1> QED BY <1>1, SoundCorrect, PTL
=============================================================================
