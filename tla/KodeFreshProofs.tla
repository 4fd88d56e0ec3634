---------------------------- MODULE KodeFreshProofs ----------------------------
(***************************************************************************)
(* What the Kode controller promises when a reconcile starts from what the *)
(* server holds (FreshReads): it lives the strict life of KodeLifecycle,   *)
(* without Rewrite, and observes every edit.  Nothing holds it to what it  *)
(* read while it goes on: users, the EntryPoint controller and the         *)
(* informer still interleave with its steps.                               *)
(*                                                                         *)
(* And what it promises of the children while their caches are in step:    *)
(* the finalizer outlives them, for every age of the copy of the Kode; and *)
(* Active means that they were built from the spec, for fresh reads.       *)
(***************************************************************************)
EXTENDS KodeHandlerProofs

\* The copy, the cache and the server show one phase.  The EntryPoint controller may fail
\* an Active Kode behind the reconcile's back, and the informer may show it or not.
Shown ==
  \/ status.phase = st.phase /\ cacheStatus.phase = st.phase
  \/ st.phase = "Active" /\ {status.phase, cacheStatus.phase} \subseteq {"Active", "Failed"}

\* A reconcile that has started from what the server held: the observed generation is the
\* same in all three copies up to the one save that changes it.
FreshInv ==
  pc # "idle" /\ kode.exists =>
    /\ cacheStatus.obs = status.obs /\ status.obs <= k.gen
    /\ pc # "init" => st.obs = status.obs
    /\ pc = "mismatch" => st.obs # k.gen
    /\ pc \notin Early => st.obs = k.gen
    /\ pc # "init" /\ ~k.deleting => Shown
    /\ pc \in {"addFinalizer", "init"} => status.phase = NoPhase /\ cacheStatus.phase = NoPhase
    /\ pc = "init" => st.phase = "Pending" /\ st.obs = k.gen

\* Neither the phase nor the observed generation changes.
Steady == status'.phase = status.phase /\ status'.obs = status.obs

\* What a save of a fresh copy does to the lifecycle.
FreshSave ==
  UNCHANGED kode /\ (Steady \/ Lifecycle!Observe \/ Lifecycle!Move \/ Lifecycle!Mark)

-----------------------------------------------------------------------------
(* The saves of a fresh reconcile *)

\* A save that changes something finds a Kode the operator has taken on.
LEMMA FreshSaveOwned ==
  ASSUME RefInv, pc \notin {"idle", "addFinalizer"}, UNCHANGED kode,
         NEW w, Save(w, TRUE, TRUE), status' # status
  PROVE  /\ kode.exists /\ Lifecycle!OnlyPhase
         /\ status'.phase = Pick(cacheStatus.phase, w.phase, status.phase)
         /\ status'.obs = Pick(cacheStatus.obs, w.obs, status.obs)
<1>1. kode.exists /\ status' \in MergePatch(cacheStatus, w, status)
  BY SaveNeedsKode
<1>2. kode.fin
  BY <1>1 DEF RefInv, OwnedInv
<1> QED BY <1>1, <1>2 DEF Lifecycle!OnlyPhase, MergePatch

\* A handler leaves the phase alone, or makes Active again what the EntryPoint controller
\* has just failed.
LEMMA HandledFresh ==
  ASSUME TypeOK, LifeInv, RefInv, FreshInv, Handled, pc \notin Early
  PROVE  FreshInv' /\ FreshSave /\ (Steady \/ status.phase = "Failed")
<1>1. PICK s : /\ Keeps(s) /\ (Save(s, TRUE, TRUE) \/ UNCHANGED status) /\ MovesOn(s)
  BY DEF Handled
<1>2. UNCHANGED <<kode, cacheKode, cacheStatus>>
  BY DEF Handled
<1>3. kode.exists => s.obs = k.gen /\ st.obs = k.gen
  BY <1>1 DEF Keeps, FreshInv, Early
<1>4. CASE status' = status
  <2>1. FreshInv'
    BY <1>1, <1>2, <1>3, <1>4
       DEF FreshInv, Shown, MovesOn, Finish, Forget, Keeps, Early
  <2> QED BY <1>2, <1>4, <2>1 DEF FreshSave, Steady
<1>5. CASE status' # status
  <2>1. /\ kode.exists /\ Lifecycle!OnlyPhase
        /\ status'.phase = Pick(cacheStatus.phase, st.phase, status.phase)
        /\ status'.obs = Pick(cacheStatus.obs, s.obs, status.obs)
    BY <1>1, <1>2, <1>5, FreshSaveOwned DEF Early, Keeps
  <2>2. status'.obs = status.obs
    BY <1>3, <2>1 DEF FreshInv, Pick, Early
  <2>3. CASE k.deleting
    <3>1. status.phase = "Deleting" /\ st.phase = "Deleting"
      BY <2>1, <2>3 DEF RefInv, MarkedInv, LifeInv, CopyInv, Early
    <3>2. status'.phase = status.phase
      BY <2>1, <3>1 DEF Pick
    <3>3. FreshInv'
      BY <1>1, <1>2, <1>3, <2>2, <2>3, <3>2
         DEF FreshInv, MovesOn, Finish, Forget, Keeps, Early
    <3> QED BY <1>2, <2>2, <3>2, <3>3 DEF FreshSave, Steady
  <2>4. CASE ~k.deleting
    <3>1. Shown
      BY <2>1, <2>4 DEF FreshInv, Early
    <3>2. \/ status'.phase = status.phase
          \/ status.phase = "Failed" /\ status'.phase = "Active" /\ st.phase = "Active"
      BY <2>1, <3>1 DEF Pick, Shown
    <3>3. \/ status'.phase = st.phase /\ cacheStatus.phase = st.phase
          \/ /\ st.phase = "Active"
             /\ {status'.phase, cacheStatus.phase} \subseteq {"Active", "Failed"}
      BY <3>1, <3>2 DEF Shown
    <3>4. FreshInv'
      BY <1>1, <1>2, <1>3, <2>1, <2>2, <2>4, <3>3
         DEF FreshInv, Shown, MovesOn, Finish, Forget, Keeps, Early
    <3>5. Steady \/ Lifecycle!Move
      BY <2>1, <2>2, <3>2 DEF Steady, Lifecycle!Move, Lifecycle!Follows
    <3> QED BY <1>2, <2>2, <3>2, <3>4, <3>5 DEF FreshSave, Steady
  <2> QED BY <2>3, <2>4
<1> QED BY <1>4, <1>5

\* A deletion is marked once it is asked for, whatever the phase.
LEMMA MarkDeletingFresh ==
  ASSUME TypeOK, LifeInv, RefInv, FreshInv, MarkDeleting
  PROVE  FreshInv' /\ FreshSave /\ (Steady \/ Lifecycle!Mark)
<1>1. /\ pc = "markDeleting" /\ UNCHANGED <<kode, cacheKode, cacheStatus>>
      /\ Save(st, TRUE, TRUE) /\ (Goto(Route(k, st), st) \/ Finish(TRUE))
  BY DEF MarkDeleting, Save, OnlyStatus, cacheVars
<1>2. k.deleting /\ k.fin /\ st.phase = "Deleting" /\ kode.deleting
  BY <1>1 DEF LifeInv, CopyInv, StepInv, ServerInv
<1>3. Goto(Route(k, st), st) =>
        /\ pc' \in {"mismatch", "resetRetry", "deleting"} /\ k' = k /\ st' = st
        /\ pc' = "mismatch" <=> st.obs # k.gen
  BY <1>2 DEF Goto, Route, HandlerStep, TypeOK, Meta, Status
<1>4. Steady \/ Lifecycle!Mark
  <2>1. CASE status' = status
    BY <2>1 DEF Steady
  <2>2. CASE status' # status
    <3>1. /\ kode.exists /\ Lifecycle!OnlyPhase
          /\ status'.phase = Pick(cacheStatus.phase, "Deleting", status.phase)
          /\ status'.obs = Pick(cacheStatus.obs, st.obs, status.obs)
      BY <1>1, <1>2, <2>2, FreshSaveOwned
    <3>2. status'.obs = status.obs
      BY <1>1, <3>1 DEF FreshInv, Pick
    <3>3. status'.phase = "Deleting"
      BY <3>1 DEF Pick, RefInv, MarkedInv
    <3> QED BY <1>2, <3>1, <3>2, <3>3 DEF Steady, Lifecycle!Mark
  <2> QED BY <2>1, <2>2
<1>5. status'.obs = status.obs
  BY <1>4 DEF Steady, Lifecycle!Mark
<1>6. FreshInv'
  BY <1>1, <1>2, <1>3, <1>5 DEF FreshInv, Finish, Forget, Early
<1> QED BY <1>1, <1>4, <1>6 DEF FreshSave

\* The first status is one observation, Pending.
LEMMA InitialiseFresh ==
  ASSUME TypeOK, LifeInv, RefInv, FreshInv, Initialise
  PROVE  FreshInv' /\ FreshSave /\ (Steady \/ status'.phase = "Pending")
<1>1. /\ pc = "init" /\ UNCHANGED <<kode, cacheKode, cacheStatus>>
      /\ Save(st, TRUE, TRUE) /\ Finish(TRUE)
  BY DEF Initialise, Save, OnlyStatus, cacheVars
<1>2. pc' = "idle"
  BY <1>1 DEF Finish, Forget
<1>3. CASE status' = status
  BY <1>1, <1>2, <1>3 DEF FreshInv, FreshSave, Steady
<1>4. CASE status' # status
  <2>1. /\ kode.exists /\ Lifecycle!OnlyPhase
        /\ status'.phase = Pick(cacheStatus.phase, st.phase, status.phase)
        /\ status'.obs = Pick(cacheStatus.obs, st.obs, status.obs)
    BY <1>1, <1>4, FreshSaveOwned
  <2>2. /\ status.phase = NoPhase /\ cacheStatus.phase = NoPhase /\ st.phase = "Pending"
        /\ status.obs = 0 /\ cacheStatus.obs = 0 /\ st.obs = k.gen /\ k.gen >= 1
        /\ k.gen <= kode.gen /\ k.gen \in Nat /\ kode.gen \in Nat
    BY <1>1, <2>1 DEF FreshInv, LifeInv, ServerInv, CopyInv, RefInv, GenInv, TypeOK,
                      ClusterTypeOK, Meta
  <2>3. status'.phase = "Pending" /\ status'.obs = k.gen
    BY <2>1, <2>2 DEF Pick, NoPhase
  <2>4. Lifecycle!Observe
    <3>1. status'.obs \in status.obs + 1 .. kode.gen
      BY <2>2, <2>3
    <3>2. status.phase = ""
      BY <2>2 DEF NoPhase
    <3> QED BY <2>1, <2>3, <3>1, <3>2 DEF Lifecycle!Observe
  <2> QED BY <1>1, <1>2, <2>3, <2>4 DEF FreshInv, FreshSave
<1> QED BY <1>3, <1>4

\* An edit is observed: the Kode is Updating, unless it is being deleted.
LEMMA GenerationMismatchFresh ==
  ASSUME TypeOK, LifeInv, RefInv, FreshInv, GenerationMismatch
  PROVE  /\ FreshInv' /\ FreshSave
         /\ status' = status \/ status'.phase \in {"Updating", "Deleting"}
<1> DEFINE w == Mismatched(st, k.gen)
<1>1. /\ pc = "mismatch" /\ UNCHANGED <<kode, cacheKode, cacheStatus>>
      /\ Save(w, TRUE, TRUE) /\ Finish(TRUE)
  BY DEF GenerationMismatch, Save, OnlyStatus, cacheVars
<1>2. pc' = "idle"
  BY <1>1 DEF Finish, Forget
<1>3. /\ w.phase = IF st.phase = "Deleting" THEN "Deleting" ELSE "Updating"
      /\ w.obs = k.gen
  BY DEF Mismatched, Progressing, WithConditions, TypeOK, Status
<1> HIDE DEF w
<1>4. CASE status' = status
  BY <1>1, <1>2, <1>4 DEF FreshInv, FreshSave, Steady
<1>5. CASE status' # status
  <2>1. /\ kode.exists /\ Lifecycle!OnlyPhase
        /\ status'.phase = Pick(cacheStatus.phase, w.phase, status.phase)
        /\ status'.obs = Pick(cacheStatus.obs, w.obs, status.obs)
    BY <1>1, <1>5, FreshSaveOwned
  <2>2. /\ status.obs # k.gen /\ cacheStatus.obs = status.obs /\ status.obs <= k.gen
        /\ ~k.deleting => Shown
        /\ k.gen <= kode.gen /\ k.gen \in Nat /\ kode.gen \in Nat /\ status.obs \in Nat
    BY <1>1, <2>1 DEF FreshInv, RefInv, GenInv, TypeOK, ClusterTypeOK, Meta, Status
  <2>3. status'.obs = k.gen /\ status'.obs \in status.obs + 1 .. kode.gen
    BY <1>3, <2>1, <2>2 DEF Pick
  <2>4. CASE k.deleting
    <3>1. status.phase = "Deleting" /\ st.phase = "Deleting"
      BY <1>1, <2>1, <2>4 DEF RefInv, MarkedInv, LifeInv, CopyInv
    <3>2. status'.phase = "Deleting"
      BY <1>3, <2>1, <3>1 DEF Pick
    <3> QED BY <1>1, <1>2, <2>1, <2>3, <3>1, <3>2 DEF FreshInv, FreshSave, Lifecycle!Observe
  <2>5. CASE ~k.deleting
    <3>1. st.phase # "Deleting" /\ status.phase # "Deleting"
      BY <1>1, <2>5 DEF LifeInv, CopyInv
    <3>2. status'.phase = "Updating"
      BY <1>3, <2>1, <2>2, <2>5, <3>1 DEF Pick, Shown
    <3>3. Lifecycle!Observe
      BY <2>1, <2>3, <3>1, <3>2 DEF Lifecycle!Observe
    <3> QED BY <1>1, <1>2, <3>2, <3>3 DEF FreshInv, FreshSave
  <2> QED BY <2>4, <2>5
<1> QED BY <1>4, <1>5

\* HandleState makes the move the handler asked for.
LEMMA SavePhaseFresh ==
  ASSUME TypeOK, LifeInv, RefInv, HandlerInv, FreshInv, SavePhase PROVE FreshInv' /\ FreshSave
<1> DEFINE w == [st EXCEPT !.phase = next]
<1>1. /\ pc = "advance" /\ UNCHANGED <<kode, cacheKode, cacheStatus>>
      /\ Save(w, TRUE, TRUE) /\ pc' = "idle"
  BY DEF SavePhase, Save, OnlyStatus, cacheVars, Finish, Forget
<1>2. w.phase = next /\ w.obs = st.obs /\ ~k.deleting
  BY <1>1 DEF TypeOK, Status, LifeInv, StepInv, DeletionSteps
<1> HIDE DEF w
<1>3. CASE status' = status
  BY <1>1, <1>3 DEF FreshInv, FreshSave, Steady
<1>4. CASE status' # status
  <2>1. /\ kode.exists /\ Lifecycle!OnlyPhase
        /\ status'.phase = Pick(cacheStatus.phase, next, status.phase)
        /\ status'.obs = Pick(cacheStatus.obs, st.obs, status.obs)
    BY <1>1, <1>2, <1>4, FreshSaveOwned
  <2>2. status'.obs = status.obs /\ Shown
    BY <1>1, <1>2, <2>1 DEF FreshInv, Pick, Early
  <2>3. next \in Lifecycle!Follows(st.phase)
    BY <1>1 DEF HandlerInv, QueueInv
  <2>4. CASE status.phase = st.phase /\ cacheStatus.phase = st.phase
    BY <1>1, <2>1, <2>2, <2>3, <2>4, Moves
       DEF Pick, FreshInv, FreshSave, Steady, Lifecycle!Move
  <2>5. CASE /\ st.phase = "Active"
             /\ {status.phase, cacheStatus.phase} \subseteq {"Active", "Failed"}
    <3>1. next \in {"Updating", "Failed"}
      BY <2>3, <2>5 DEF Lifecycle!Follows
    <3>2. Steady \/ Lifecycle!Move
      BY <2>1, <2>2, <2>5, <3>1 DEF Pick, Steady, Lifecycle!Move, Lifecycle!Follows
    <3> QED BY <1>1, <3>2 DEF FreshInv, FreshSave
  <2> QED BY <2>2, <2>4, <2>5 DEF Shown
<1> QED BY <1>3, <1>4

-----------------------------------------------------------------------------
(* The other steps *)

\* What a step is to the strict lifecycle.
FreshStep ==
  \/ FreshSave
  \/ Lifecycle!Adopt \/ Lifecycle!Release
  \/ Lifecycle!Edit \/ Lifecycle!Request \/ Lifecycle!Vanish \/ Lifecycle!Move

\* A step that leaves the Kode and its status alone is none.
LEMMA UnseenIsFresh == Unseen => FreshStep
BY DEF Unseen, FreshStep, FreshSave, Steady

\* A reconcile starts from copies of what the server holds.
LEMMA StartFresh ==
  ASSUME FreshReads, TypeOK, LifeInv, RefInv, Start PROVE FreshInv' /\ FreshStep
<1>1. /\ UNCHANGED <<kode, status, cacheKode, cacheStatus>>
      /\ k' = kode /\ cacheKode = kode /\ cacheStatus = status
      /\ IF kode.deleting
           THEN pc' = "markDeleting" /\ st' = [status EXCEPT !.phase = "Deleting"]
           ELSE pc' = Route(kode, status) /\ st' = status
  BY DEF Start, Synced, objVars, cacheVars
<1>2. /\ status \in Status /\ kode \in Meta /\ status.obs <= kode.gen
      /\ status.phase = NoPhase => status.obs = 0
      /\ kode.exists /\ ~kode.fin => status.phase = NoPhase
  BY DEF TypeOK, ClusterTypeOK, RefInv, GenInv, OwnedInv, LifeInv, ServerInv
<1>3. ASSUME kode.deleting PROVE FreshInv'
  BY <1>1, <1>2, <1>3 DEF FreshInv, Early, Status
<1>4. ASSUME ~kode.deleting PROVE FreshInv'
  <2>1. /\ pc' # "init"
        /\ pc' = "mismatch" => status.obs # kode.gen
        /\ pc' \notin Early => status.obs = kode.gen
        /\ pc' = "addFinalizer" => ~kode.fin
    BY <1>1, <1>2, <1>4 DEF Route, HandlerStep, Early, Meta, Status
  <2> QED BY <1>1, <1>2, <1>4, <2>1 DEF FreshInv, Shown
<1> QED BY <1>1, <1>3, <1>4, UnseenIsFresh DEF Unseen

\* The finalizer comes before the first status, and goes after the last.
LEMMA FinalizerFresh ==
  ASSUME TypeOK, LifeInv, RefInv, FreshInv, AddFinalizer \/ RemoveFinalizer
  PROVE  FreshInv' /\ FreshStep
<1>1. UNCHANGED <<status, cacheKode, cacheStatus>>
  BY DEF AddFinalizer, RemoveFinalizer, cacheVars
<1>2. FreshStep
  <2>1. LifeStep
    BY FinalizerSteps
  <2>2. Rewritten => Unseen
    BY <1>1 DEF Rewritten, Unseen
  <2> QED BY <2>1, <2>2, UnseenIsFresh DEF LifeStep, FreshStep
<1>3. CASE AddFinalizer
  <2> DEFINE fresh == [st EXCEPT !.phase = "Pending", !.obs = k.gen]
  <2>1. pc = "addFinalizer" /\ (Goto("init", fresh) \/ Finish(TRUE))
    BY <1>3 DEF AddFinalizer
  <2>2. kode'.exists = kode.exists
    BY <1>3 DEF AddFinalizer, TypeOK, ClusterTypeOK, Meta
  <2>3. fresh.phase = "Pending" /\ fresh.obs = k.gen
    BY DEF TypeOK, Status
  <2> HIDE DEF fresh
  <2>4. FreshInv'
    BY <1>1, <2>1, <2>2, <2>3 DEF FreshInv, Goto, Finish, Forget, Early
  <2> QED BY <1>2, <2>4
<1>4. CASE RemoveFinalizer
  <2>1. /\ pc = "removeFinalizer"
        /\ Finish(FALSE) \/ (Goto("error", st) /\ UNCHANGED kode)
    BY <1>4 DEF RemoveFinalizer
  <2>2. k.deleting
    BY <2>1 DEF RefInv, MarkedInv, DeletingSteps
  <2>3. FreshInv'
    BY <1>1, <2>1, <2>2 DEF FreshInv, Goto, Finish, Forget, Early
  <2> QED BY <1>2, <2>3
<1> QED BY <1>3, <1>4

\* What a reconcile holds of the server survives what others do: an edit is not observed
\* yet, and only an Active Kode is failed.
LEMMA EnvironmentFresh ==
  ASSUME TypeOK, LifeInv, RefInv, FreshInv, Environment, UNCHANGED localVars
  PROVE  FreshInv' /\ FreshStep
<1> USE DEF localVars
<1>1. CASE UNCHANGED <<kode, status, cacheKode, cacheStatus>>
  BY <1>1, UnseenIsFresh DEF FreshInv, Shown, Unseen
<1>2. CASE (\E s \in Specs : EditSpec(s)) \/ DeleteKode
  <2>1. FreshStep
    BY <1>2, EditRefines, DeleteRefines DEF FreshStep
  <2>2. /\ UNCHANGED <<status, cacheKode, cacheStatus>> /\ kode.exists
    BY <1>2 DEF EditSpec, DeleteKode, cacheVars
  <2> QED BY <2>1, <2>2 DEF FreshInv, Shown
<1>3. CASE SyncKode
  <2>1. UNCHANGED <<kode, status>> /\ cacheStatus' = status
    BY <1>3 DEF SyncKode, objVars
  <2>2. FreshInv'
    BY <2>1 DEF FreshInv, Shown
  <2> QED BY <2>1, <2>2, UnseenIsFresh DEF Unseen
<1>4. CASE EntryPointFails
  <2>1. /\ UNCHANGED <<kode, cacheKode, cacheStatus>>
        /\ status.phase = "Active" /\ cacheStatus = status
    BY <1>4 DEF EntryPointFails, cacheVars, Synced
  <2>2. status'.phase = "Failed" /\ status'.obs = status.obs
    BY <1>4 DEF EntryPointFails, TypeOK, ClusterTypeOK, Status
  <2>3. FreshInv'
    BY <2>1, <2>2 DEF FreshInv, Shown, NoPhase
  <2> QED BY <1>4, <2>3, EntryPointRefines DEF FreshStep
<1>5. (\/ PodStart \/ PodStop \/ PodFails
       \/ \E kind \in Kinds :
            SyncChild(kind) \/ LoseChild(kind) \/ FinishDelete(kind) \/ GarbageCollect(kind))
        => UNCHANGED <<kode, status, cacheKode, cacheStatus>>
  BY DEF PodStart, PodStop, PodFails, SyncChild, LoseChild, FinishDelete, GarbageCollect,
         objVars, cacheVars
<1> QED BY <1>1, <1>2, <1>3, <1>4, <1>5 DEF Environment

\* No step of a system whose reads are fresh breaks the invariant, or rewrites.
LEMMA NextFresh ==
  ASSUME FreshReads, TypeOK, LifeInv, RefInv, HandlerInv, FreshInv, [Next]_vars
  PROVE  FreshInv' /\ FreshStep
<1>1. CASE UNCHANGED vars
  BY <1>1, UnseenIsFresh DEF vars, clusterVars, localVars, FreshInv, Shown, Unseen
<1>2. CASE Reconcile
  <2>1. Skip => FreshInv' /\ Unseen
    BY DEF Skip, FreshInv, Unseen, objVars, cacheVars, localVars
  <2> QED BY <1>2, <2>1, StepsOfReconcile, UnseenIsFresh, StartFresh, FinalizerFresh,
             InitialiseFresh, GenerationMismatchFresh, SavePhaseFresh, MarkDeletingFresh,
             HandledFresh DEF FreshStep, HandlerInv
<1>3. CASE Crash
  <2>1. pc' = "idle" /\ Unseen
    BY <1>3 DEF Crash, Forget, Restart, Unseen, objVars
  <2> QED BY <2>1, UnseenIsFresh DEF FreshInv
<1>4. CASE Environment /\ UNCHANGED localVars
  BY <1>4, EnvironmentFresh
<1> QED BY <1>1, <1>2, <1>3, <1>4 DEF Next

-----------------------------------------------------------------------------
(* The invariant, and what it gives *)

\* The inductive invariant of fresh reads: one phase and one observed generation in the
\* copy, the cache and the server, but for what the EntryPoint controller may fail.
THEOREM FreshCorrect == ASSUME FreshReads = TRUE PROVE Spec => []FreshInv
<1>1. Init => FreshInv
  BY DEF Init, LocalInit, FreshInv
<1>2. TypeOK /\ LifeInv /\ RefInv /\ HandlerInv /\ FreshInv /\ [Next]_vars => FreshInv'
  BY NextFresh
<1> QED BY <1>1, <1>2, TypeCorrect, LifeCorrect, RefCorrect, HandlerCorrect, PTL DEF Spec

\* With fresh reads the controller lives the strict life of a Kode: every move between
\* phases is one of Follows, no observed generation falls back, nothing is rewritten.
THEOREM StrictLifecycle == ASSUME FreshReads = TRUE PROVE Spec => FollowsLifecycle
<1>1. Init => Lifecycle!Init
  <2> SUFFICES ASSUME Init PROVE Lifecycle!Init
    OBVIOUS
  <2>1. PICK s \in Specs :
          kode = [exists |-> TRUE, deleting |-> FALSE, fin |-> FALSE, gen |-> 1, spec |-> s]
    BY DEF Init, ClusterInit
  <2> QED BY <2>1 DEF Init, ClusterInit, EmptyStatus, NoPhase, Lifecycle!Init
<1>2. TypeOK /\ LifeInv /\ RefInv /\ HandlerInv /\ FreshInv /\ [Next]_vars
        => [Lifecycle!Next]_(Lifecycle!life)
  <2> SUFFICES ASSUME TypeOK, LifeInv, RefInv, HandlerInv, FreshInv, [Next]_vars
               PROVE  [Lifecycle!Next]_(Lifecycle!life)
    OBVIOUS
  <2>1. FreshStep
    BY NextFresh
  <2>2. UNCHANGED kode /\ Steady => UNCHANGED Lifecycle!life
    BY DEF Steady, Lifecycle!life
  <2> QED BY <2>1, <2>2 DEF FreshStep, FreshSave, Lifecycle!Next
<1> QED BY <1>1, <1>2, TypeCorrect, LifeCorrect, RefCorrect, HandlerCorrect, FreshCorrect, PTL
        DEF Spec, FollowsLifecycle, Lifecycle!Spec

\* The Kode controller implements the lifecycle, for every age of its reads: strictly when
\* they are fresh, and with rewrites that never undo a deletion when they are not.
THEOREM ImplementsLifecycle == Spec => FollowsLifecycle
<1>1. FreshReads = TRUE \/ FreshReads = FALSE
  BY FaultAssumption
<1> QED BY <1>1, StrictLifecycle, LifecycleImplemented

\* With fresh reads and no EntryPoint controller to interfere, what handleGenerationMismatch
\* says of itself is true: the edit it observes makes the Kode Updating.  The run lost_edit
\* shows that the freshness is needed.
THEOREM EditsUpdate ==
  ASSUME FreshReads = TRUE, "entrypoint" \notin Drifts PROVE Spec => MismatchUpdates
<1>1. TypeOK /\ LifeInv /\ RefInv /\ FreshInv /\ [Next]_vars
        => [pc = "mismatch" /\ status' # status /\ status'.phase # "Deleting"
              => status'.phase = "Updating"]_vars
  <2> SUFFICES ASSUME TypeOK, LifeInv, RefInv, FreshInv, Next, pc = "mismatch", status' # status,
                      status'.phase # "Deleting"
               PROVE  status'.phase = "Updating"
    BY DEF vars, clusterVars
  <2>1. CASE Reconcile
    <3>1. GenerationMismatch
      BY <2>1 DEF Reconcile, Skip, Start, MarkDeleting, AddFinalizer, Initialise, ResetRetry,
         SavePhase, RecordError, HandlePending, FetchTemplate, Detect, Apply, Validate,
         CheckProvisioning, CheckUpdating, CheckActive, Stabilise, HandleFailed, Recover,
         HandleDeleting, CheckDeleted, Cleanup, CleanedUp, RemoveFinalizer
    <3> QED BY <3>1, GenerationMismatchFresh
  <2>2. CASE Crash
    BY <2>2 DEF Crash, Restart, objVars
  <2>3. CASE Environment
    BY <2>3 DEF Environment, EditSpec, DeleteKode, SyncKode, PodStart, PodStop, PodFails,
       EntryPointFails, SyncChild, LoseChild, FinishDelete, GarbageCollect, objVars
  <2> QED BY <2>1, <2>2, <2>3 DEF Next
<1> QED BY <1>1, TypeCorrect, LifeCorrect, RefCorrect, FreshCorrect, PTL
        DEF Spec, MismatchUpdates

-----------------------------------------------------------------------------
(* The children: the finalizer outlives them *)

\* None of the children any spec owns is left.
NoneLeft == \A spec \in Specs : \A kind \in Wanted(spec) : kids[kind] = NoChild

\* The caches of the children are in step, and the specs are those of users.
SpecInv ==
  /\ seen = kids
  /\ kode.spec \in Specs /\ cacheKode.spec \in Specs /\ k.spec \in Specs

\* A Kode without the finalizer has no children, whether it is new or gone; and of a Kode
\* that is gone, no copy is left that a reconcile would build children from.
OrphanInv ==
  /\ SpecInv
  /\ (kode.exists /\ kode.fin) \/ NoneLeft
  /\ pc = "removeFinalizer" => NoneLeft
  /\ ~kode.exists =>
       /\ pc \in {"idle", "addFinalizer", "init"} \/ k.deleting
       /\ cacheKode.exists /\ cacheKode.fin => cacheKode.deleting

\* Only Apply writes children and only Cleanup deletes them, only what CheckDeleted found
\* to be gone lets the finalizer go, and no reconcile makes up a spec.
LEMMA ReconcileKids ==
  ASSUME Reconcile
  PROVE  /\ pc = "apply" \/ UNCHANGED <<kids, seen>>
         /\ pc = "cleanup" \/ UNCHANGED terminating
         /\ pc' = "removeFinalizer" => Gone(k.spec)
         /\ k' \in {k, cacheKode, NoKode}
<1> USE DEF Save, Goto, Finish, Forget, Advance, OnlyStatus, childVars
<1>1. CASE Skip \/ Start \/ MarkDeleting
  <2>1. \A m, s : Route(m, s) # "removeFinalizer"
    BY DEF Route, HandlerStep
  <2> QED BY <1>1, <2>1 DEF Skip, Start, MarkDeleting, localVars
<1>2. CASE ResetRetry
  <2>1. \A phase : HandlerStep(phase) # "removeFinalizer"
    BY DEF HandlerStep
  <2>2. /\ UNCHANGED <<kids, seen, terminating>> /\ k' \in {k, NoKode}
        /\ pc' = "idle" \/ \E phase : pc' = HandlerStep(phase)
    BY <1>2 DEF ResetRetry
  <2> QED BY <2>1, <2>2
<1>3. CASE AddFinalizer \/ RemoveFinalizer
  BY <1>3 DEF AddFinalizer, RemoveFinalizer
<1>4. CASE Initialise \/ GenerationMismatch \/ SavePhase \/ RecordError \/ CleanedUp
  BY <1>4 DEF Initialise, GenerationMismatch, SavePhase, RecordError, CleanedUp
<1>5. CASE HandlePending \/ FetchTemplate
  BY <1>5 DEF HandlePending, FetchTemplate, FetchFailed
<1>6. CASE Detect \/ Validate
  BY <1>6 DEF Detect, Validate, ReadFails
<1>7. CASE CheckProvisioning \/ CheckUpdating \/ CheckActive \/ Stabilise \/ Recover
  BY <1>7 DEF CheckProvisioning, CheckUpdating, CheckActive, Stabilise, Recover, ReadFails
<1>8. CASE HandleFailed \/ HandleDeleting \/ CheckDeleted
  BY <1>8 DEF HandleFailed, HandleDeleting, CheckDeleted, ReadFails
<1>9. CASE Apply \/ Cleanup
  BY <1>9 DEF Apply, Cleanup
<1> QED BY <1>1, <1>2, <1>3, <1>4, <1>5, <1>6, <1>7, <1>8, <1>9 DEF Reconcile

\* Who else writes children deletes one.
LEMMA EnvironmentKids ==
  ASSUME ChildLag = FALSE, TypeOK, Environment, seen = kids
  PROVE  /\ seen' = kids'
         /\ \/ UNCHANGED kids
            \/ /\ "child" \in Drifts \/ terminating # {}
               /\ \A kind \in Kinds : kids[kind] = NoChild => kids'[kind] = NoChild
<1>1. CASE \E kind \in Kinds : LoseChild(kind) \/ FinishDelete(kind)
  <2>1. PICK kind \in Kinds : LoseChild(kind) \/ FinishDelete(kind)
    BY <1>1
  <2>2. kids' = [kids EXCEPT ![kind] = NoChild] /\ seen' = kids'
    BY <2>1 DEF LoseChild, FinishDelete, WriteKids
  <2>3. "child" \in Drifts \/ terminating # {}
    BY <2>1 DEF LoseChild, FinishDelete
  <2> QED BY <2>2, <2>3 DEF TypeOK, ClusterTypeOK
<1>2. CASE \E kind \in Kinds : SyncChild(kind)
  BY <1>2 DEF SyncChild
<1>3. CASE ~ \E kind \in Kinds : LoseChild(kind) \/ FinishDelete(kind) \/ SyncChild(kind)
  BY <1>3 DEF Environment, EditSpec, DeleteKode, SyncKode, PodStart, PodStop, PodFails,
              EntryPointFails, GarbageCollect, childVars
<1> QED BY <1>1, <1>2, <1>3

\* A reconcile only builds children of a Kode that is there and has the finalizer.
LEMMA ApplyOrphan ==
  ASSUME ChildLag = FALSE, TypeOK, LifeInv, RefInv, OrphanInv, Apply PROVE OrphanInv'
<1>1. /\ pc = "apply" /\ UNCHANGED <<kode, cacheKode>>
      /\ k' = k /\ pc' \in {"apply", "validate", "error"}
  BY DEF Apply, Goto, objVars, cacheVars
<1>2. seen' = kids'
  BY DEF Apply, WriteKids, OrphanInv, SpecInv
<1>3. kode.exists /\ kode.fin
  BY <1>1 DEF LifeInv, StepInv, DeletionSteps, OrphanInv, RefInv, OwnedInv
<1> QED BY <1>1, <1>2, <1>3 DEF OrphanInv, SpecInv

\* The other steps leave the children alone.
LEMMA ReconcileOrphan ==
  ASSUME \A s, t \in Specs : Wanted(s) = Wanted(t),
         TypeOK, LifeInv, RefInv, HandlerInv, OrphanInv, Reconcile, pc # "apply"
  PROVE  OrphanInv'
<1>1. UNCHANGED <<kids, seen>> /\ (pc' = "removeFinalizer" => Gone(k.spec))
  BY ReconcileKids
<1>2. NoneLeft' <=> NoneLeft
  BY <1>1 DEF NoneLeft
<1>3. pc' = "removeFinalizer" => NoneLeft
  BY <1>1 DEF Gone, NoneLeft, OrphanInv, SpecInv
<1>4. UNCHANGED cacheKode /\ (kode' = kode \/ kode' = [kode EXCEPT !.fin = TRUE]
                               \/ kode' = [kode EXCEPT !.fin = FALSE, !.exists = ~kode.deleting])
  BY StepsOfReconcile
     DEF HandlerInv, Skip, Start, AddFinalizer, Initialise, GenerationMismatch, SavePhase,
         RemoveFinalizer, Handled, OnlyStatus, objVars, cacheVars
<1>5. SpecInv'
  <2>1. kode'.spec = kode.spec /\ NoKode.spec \in Specs
    BY <1>4, SpecsAssumption DEF TypeOK, ClusterTypeOK, Meta, NoKode
  <2> QED BY <1>1, <1>4, <2>1, ReconcileKids DEF OrphanInv, SpecInv
<1>6. CASE UNCHANGED kode
  <2>1. ~kode.exists =>
          /\ pc' \in {"idle", "addFinalizer", "init"} \/ k'.deleting
    <3>1. CASE Start
      <4>1. /\ cacheKode.exists /\ k' = cacheKode /\ cacheKode \in Meta
            /\ ~cacheKode.deleting => pc' = Route(cacheKode, cacheStatus)
        BY <3>1 DEF Start, TypeOK, ClusterTypeOK
      <4> QED BY <4>1 DEF OrphanInv, Route, Meta
    <3>2. CASE AddFinalizer \/ Initialise \/ GenerationMismatch \/ SavePhase \/ Skip
      BY <3>2 DEF AddFinalizer, Initialise, GenerationMismatch, SavePhase, Skip, Save, Goto,
                  Finish, Forget, localVars, OrphanInv
    <3>3. CASE RemoveFinalizer
      BY <3>3 DEF RemoveFinalizer, Goto, Finish, Forget, OrphanInv
    <3>4. CASE Handled /\ (MarkDeleting \/ pc \notin Early)
      <4>1. pc' = "idle" \/ k' = k
        BY <3>4 DEF Handled, MovesOn, Finish, Forget
      <4> QED BY <3>4, <4>1 DEF MarkDeleting, OrphanInv, Early
    <3> QED BY <3>1, <3>2, <3>3, <3>4, StepsOfReconcile DEF HandlerInv
  <2> QED BY <1>2, <1>3, <1>4, <1>5, <1>6, <2>1 DEF OrphanInv
<1>7. CASE AddFinalizer /\ kode' = [kode EXCEPT !.fin = TRUE] /\ kode.exists
  <2>1. kode'.exists /\ kode'.fin
    BY <1>7 DEF TypeOK, ClusterTypeOK, Meta
  <2> QED BY <1>2, <1>3, <1>5, <2>1 DEF OrphanInv
<1>8. CASE RemoveFinalizer /\ ~(UNCHANGED kode)
  <2>1. pc = "removeFinalizer" /\ pc' = "idle"
    BY <1>8 DEF RemoveFinalizer, Finish, Forget
  <2>2. cacheKode.deleting
    BY <2>1 DEF RefInv, MarkedInv, DeletingSteps, LifeInv, CopyInv
  <2> QED BY <1>2, <1>4, <1>5, <2>1, <2>2 DEF OrphanInv
<1> QED BY <1>6, <1>7, <1>8, StepsOfReconcile
        DEF HandlerInv, AddFinalizer, UpdateAccepted, Skip, Start, Initialise,
            GenerationMismatch, SavePhase, Handled, OnlyStatus, objVars

\* A Kode that vanishes has never had the finalizer; a crash lists everything afresh.
LEMMA OthersOrphan ==
  ASSUME ChildLag = FALSE, TypeOK, LifeInv, RefInv, OrphanInv,
         Crash \/ (Environment /\ UNCHANGED localVars)
  PROVE  OrphanInv'
<1>1. CASE Crash
  <2>1. /\ UNCHANGED <<kode, kids>> /\ seen' = kids /\ cacheKode' = kode
        /\ pc' = "idle" /\ k' = NoKode
    BY <1>1 DEF Crash, Restart, Forget, objVars
  <2>2. NoKode.spec \in Specs
    BY SpecsAssumption DEF NoKode
  <2> QED BY <2>1, <2>2 DEF OrphanInv, SpecInv, NoneLeft
<1>2. CASE Environment /\ UNCHANGED localVars
  <2>1. pc' = pc /\ k' = k
    BY <1>2 DEF localVars
  <2>2. seen' = kids' /\ (NoneLeft => NoneLeft')
    BY <1>2, EnvironmentKids DEF OrphanInv, SpecInv, NoneLeft, Wanted
  <2>3. CASE UNCHANGED <<kode, cacheKode>>
    BY <2>1, <2>2, <2>3 DEF OrphanInv, SpecInv
  <2>4. CASE SyncKode
    <3>1. UNCHANGED kode /\ cacheKode' = kode
      BY <2>4 DEF SyncKode, objVars
    <3> QED BY <2>1, <2>2, <3>1 DEF OrphanInv, SpecInv
  <2>5. CASE \E s \in Specs : EditSpec(s)
    <3>1. /\ UNCHANGED cacheKode /\ kode'.exists = kode.exists /\ kode'.fin = kode.fin
          /\ kode'.spec \in Specs /\ kode.exists
      BY <2>5 DEF EditSpec, cacheVars, TypeOK, ClusterTypeOK, Meta
    <3> QED BY <2>1, <2>2, <3>1 DEF OrphanInv, SpecInv
  <2>6. CASE DeleteKode
    <3>1. /\ UNCHANGED cacheKode /\ kode.exists /\ kode'.fin = kode.fin
          /\ kode'.spec = kode.spec /\ (kode.fin => kode'.exists)
      BY <2>6 DEF DeleteKode, cacheVars, TypeOK, ClusterTypeOK, Meta
    <3>2. ~kode.fin => pc \in {"idle", "addFinalizer"} /\ ~cacheKode.fin
      BY <3>1 DEF RefInv, OwnedInv
    <3> QED BY <2>1, <2>2, <3>1, <3>2 DEF OrphanInv, SpecInv
  <2>7. UNCHANGED <<kode, cacheKode>> \/ SyncKode \/ DeleteKode \/ \E s \in Specs : EditSpec(s)
    BY <1>2 DEF Environment, PodStart, PodStop, PodFails, EntryPointFails, SyncChild,
                LoseChild, FinishDelete, GarbageCollect, objVars, cacheVars
  <2> QED BY <2>3, <2>4, <2>5, <2>6, <2>7
<1> QED BY <1>1, <1>2

\* The inductive invariant of the children: where there is no finalizer, there are none.
THEOREM OrphanCorrect ==
  ASSUME ChildLag = FALSE, \A s, t \in Specs : Wanted(s) = Wanted(t)
  PROVE  Spec => []OrphanInv
<1>1. Init => OrphanInv
  <2> SUFFICES ASSUME Init PROVE OrphanInv
    OBVIOUS
  <2>1. kode.spec \in Specs /\ cacheKode.spec \in Specs /\ ~kode.fin /\ kode.exists
    BY DEF Init, ClusterInit
  <2>2. k.spec \in Specs /\ pc = "idle"
    BY SpecsAssumption DEF Init, LocalInit, NoKode
  <2>3. seen = kids /\ NoneLeft
    BY DEF Init, ClusterInit, NoneLeft, Wanted
  <2> QED BY <2>1, <2>2, <2>3 DEF OrphanInv, SpecInv
<1>2. TypeOK /\ LifeInv /\ RefInv /\ HandlerInv /\ OrphanInv /\ [Next]_vars => OrphanInv'
  <2> SUFFICES ASSUME TypeOK, LifeInv, RefInv, HandlerInv, OrphanInv, [Next]_vars
               PROVE  OrphanInv'
    OBVIOUS
  <2>1. CASE UNCHANGED vars
    BY <2>1 DEF vars, clusterVars, localVars, OrphanInv, SpecInv, NoneLeft
  <2>2. CASE Reconcile
    <3>1. pc = "apply" => Apply
      BY <2>2 DEF Reconcile, Skip, Start, MarkDeleting, AddFinalizer, Initialise, ResetRetry,
         GenerationMismatch, SavePhase, RecordError, HandlePending, FetchTemplate, Detect,
         Validate, CheckProvisioning, CheckUpdating, CheckActive, Stabilise, HandleFailed,
         Recover, HandleDeleting, CheckDeleted, Cleanup, CleanedUp, RemoveFinalizer
    <3> QED BY <2>2, <3>1, ApplyOrphan, ReconcileOrphan
  <2> QED BY <2>1, <2>2, OthersOrphan DEF Next
<1> QED BY <1>1, <1>2, TypeCorrect, LifeCorrect, RefCorrect, HandlerCorrect, PTL DEF Spec

\* The finalizer outlives the children, whatever fails and however old the copy of the Kode
\* is: it goes once CheckDeleted has found them gone, and no reconcile builds them again.
\* That edits do not change which kinds are owned is needed (a claim that is no longer
\* owned is never deleted), and so are caches of the children that are in step.
THEOREM NothingOrphaned ==
  ASSUME ChildLag = FALSE, \A s, t \in Specs : Wanted(s) = Wanted(t)
  PROVE  Spec => []NoOrphans
<1>1. OrphanInv => NoOrphans
  BY DEF OrphanInv, SpecInv, NoneLeft, NoOrphans
<1> QED BY <1>1, OrphanCorrect, PTL

-----------------------------------------------------------------------------
(* The children: Active for a generation means built from its spec *)

\* What a reconcile knows of the children it has compared, or built.
WorkInv ==
  /\ pc \in {"detect", "apply", "validate"} => st.phase \in {"Configuring", "Updating"}
  /\ pc = "apply" => \A kind \in Wanted(k.spec) \ todo : Matches(kids, kind, k.spec)
  /\ \/ pc = "validate"
     \/ pc = "check" /\ st.phase = "Updating"
     \/ pc = "advance" /\ next \in {"Active", "Provisioning"}
     \/ pc \notin Early /\ st.phase = "Provisioning"
     => Applied(kids, k.spec)

\* What holds between reconciles: a Provisioning Kode has its children, and only one that
\* is being deleted loses any.
BuiltInv ==
  /\ terminating # {} => status.phase = "Deleting"
  /\ status.phase = "Provisioning" /\ status.obs = kode.gen => Applied(kids, kode.spec)
  /\ pc # "idle" /\ k.gen = kode.gen => k.spec = kode.spec

AppliedInv == seen = kids /\ (kode.exists => WorkInv /\ BuiltInv)

\* The way of a reconcile to Provisioning and to Active leads through a comparison of the
\* children with the spec, or through their building.
LEMMA Path ==
  ASSUME Reconcile, st.phase # "Failed"
  PROVE  /\ pc' = "detect" => st.phase \in {"Configuring", "Updating"}
         /\ pc' = "apply" => pc = "apply" \/ (pc = "detect" /\ todo' = Changes)
         /\ pc' = "validate" => pc = "apply" \/ (pc = "detect" /\ Changes = {})
         /\ pc' = "check" => st.phase # "Updating" \/ pc = "validate"
         /\ pc' = "advance" /\ next' \in {"Active", "Provisioning"} =>
              \/ pc = "validate" \/ (pc = "detect" /\ Changes = {})
              \/ pc = "check" /\ st.phase \in {"Updating", "Provisioning"}
<1> USE DEF Save, Goto, Finish, Forget, Advance
<1> DEFINE Away == pc' \notin {"detect", "apply", "validate", "check", "advance"}
<1>1. CASE Skip \/ Start \/ MarkDeleting
  <2>1. \A m, s : Route(m, s) \notin {"detect", "apply", "validate", "check", "advance"}
    BY DEF Route, HandlerStep
  <2>2. Away
    BY <1>1, <2>1 DEF Skip, Start, MarkDeleting, localVars
  <2> QED BY <2>2
<1>2. CASE ResetRetry
  <2>1. \A phase : HandlerStep(phase) \notin {"detect", "apply", "validate", "check", "advance"}
    BY DEF HandlerStep
  <2>2. pc' = "idle" \/ \E phase : pc' = HandlerStep(phase)
    BY <1>2 DEF ResetRetry
  <2>3. Away
    BY <2>1, <2>2
  <2> QED BY <2>3
<1>3. CASE AddFinalizer \/ RemoveFinalizer
  BY <1>3 DEF AddFinalizer, RemoveFinalizer
<1>4. CASE Initialise \/ GenerationMismatch \/ SavePhase \/ RecordError \/ CleanedUp
  BY <1>4 DEF Initialise, GenerationMismatch, SavePhase, RecordError, CleanedUp
<1>5. CASE HandlePending
  BY <1>5 DEF HandlePending
<1>6. CASE FetchTemplate
  BY <1>6 DEF FetchTemplate, FetchFailed
<1>7. CASE Detect
  BY <1>7 DEF Detect, ReadFails
<1>8. CASE Validate
  BY <1>8 DEF Validate, ReadFails
<1>9. CASE CheckProvisioning \/ CheckUpdating \/ CheckActive \/ Stabilise \/ Recover
  BY <1>9 DEF CheckProvisioning, CheckUpdating, CheckActive, Stabilise, Recover, ReadFails
<1>10. CASE HandleFailed \/ HandleDeleting \/ CheckDeleted
  BY <1>10 DEF HandleFailed, HandleDeleting, CheckDeleted, ReadFails
<1>11. CASE Apply \/ Cleanup
  BY <1>11 DEF Apply, Cleanup
<1> QED BY <1>1, <1>2, <1>3, <1>4, <1>5, <1>6, <1>7, <1>8, <1>9, <1>10, <1>11 DEF Reconcile

\* What is left to apply is taken in order.
LEMMA FirstToApply ==
  ASSUME NEW S \in SUBSET Kinds, S # {} PROVE First(S, ApplyOrder) \in S
<1> DEFINE IsFirst(x) == x \in S /\ \A y \in S : ApplyOrder[x] <= ApplyOrder[y]
<1>1. S \subseteq {"secret", "service", "statefulset", "pvc"}
  BY KindAssumption DEF AllKinds
<1>2. /\ ApplyOrder["secret"] = 1 /\ ApplyOrder["service"] = 2
      /\ ApplyOrder["statefulset"] = 3 /\ ApplyOrder["pvc"] = 4
  BY DEF ApplyOrder
<1>3. "secret" \in S => IsFirst("secret")
  BY <1>1, <1>2
<1>4. "secret" \notin S /\ "service" \in S => IsFirst("service")
  BY <1>1, <1>2
<1>5. "secret" \notin S /\ "service" \notin S /\ "statefulset" \in S => IsFirst("statefulset")
  BY <1>1, <1>2
<1>6. S = {"pvc"} => IsFirst("pvc")
  BY <1>2
<1>7. \E x : IsFirst(x)
  BY <1>1, <1>3, <1>4, <1>5, <1>6
<1> QED BY <1>7 DEF First

\* A child that is ensured is what change detection wants it to be.
LEMMA EnsuredMatches ==
  ASSUME TypeOK, NEW kind \in Kinds
  PROVE  /\ Ensured(kind) # NoChild
         /\ Aspect(kind, Ensured(kind)) = Aspect(kind, k.spec)
<1>1. k.spec \in SpecRecord /\ kids[kind] \in SpecRecord \cup {NoChild}
  BY DEF TypeOK, ClusterTypeOK, Meta, Child
<1>2. Ensured(kind) \in SpecRecord
  BY <1>1 DEF Ensured, SpecRecord
<1>3. kind # "secret" => Ensured(kind) = k.spec
  BY DEF Ensured
<1>4. Ensured(kind).cred = k.spec.cred
  BY <1>1 DEF Ensured, SpecRecord
<1> QED BY <1>2, <1>3, <1>4, ChildAssumption DEF Aspect

\* Apply brings one more child to what the spec wants.
LEMMA ApplyBuilt ==
  ASSUME ChildLag = FALSE, TypeOK, LifeInv, RefInv, FreshInv, WorkLeft, AppliedInv,
         kode.exists, Apply
  PROVE  AppliedInv'
<1> DEFINE kind == First(todo, ApplyOrder)
<1>1. /\ pc = "apply" /\ UNCHANGED <<kode, status, k, st, terminating>>
      /\ seen = kids /\ seen' = kids'
  BY DEF Apply, Goto, WriteKids, objVars, AppliedInv
<1>2. kind \in todo /\ kind \in Kinds
  BY <1>1, FirstToApply DEF TypeOK, WorkLeft
<1>3. /\ st.phase \in {"Configuring", "Updating"} /\ status.phase = st.phase
      /\ \A x \in Wanted(k.spec) \ todo : Matches(kids, x, k.spec)
  BY <1>1 DEF AppliedInv, WorkInv, LifeInv, StepInv, DeletionSteps, FreshInv, Shown
<1>4. WorkInv'
  <2>1. CASE /\ kids' = [kids EXCEPT ![kind] = Ensured(kind)] /\ todo' = todo \ {kind}
             /\ pc' = IF todo' = {} THEN "validate" ELSE "apply"
    <3>1. \A x \in Kinds : kids'[x] = IF x = kind THEN Ensured(kind) ELSE kids[x]
      BY <1>2, <2>1 DEF TypeOK, ClusterTypeOK
    <3>2. \A x \in Wanted(k.spec) \ todo' : Matches(kids', x, k.spec)
      BY <1>2, <1>3, <2>1, <3>1, EnsuredMatches DEF Matches, Wanted
    <3> QED BY <1>1, <1>3, <2>1, <3>2 DEF WorkInv, Applied
  <2>2. CASE Goto("error", st)
    BY <1>1, <1>3, <2>2 DEF Goto, WorkInv
  <2> QED BY <2>1, <2>2 DEF Apply, WriteKids
<1>5. BuiltInv'
  BY <1>1, <1>3 DEF AppliedInv, BuiltInv, Goto, Apply
<1> QED BY <1>1, <1>4, <1>5 DEF AppliedInv

\* The other handlers change no child, and keep what the reconcile has found out.
LEMMA HandledBuilt ==
  ASSUME "entrypoint" \notin Drifts, TypeOK, LifeInv, RefInv, FreshInv, AppliedInv,
         kode.exists, Reconcile, Handled, pc \notin Early, pc # "apply"
  PROVE  AppliedInv'
<1>1. st.phase # "Failed" /\ status.phase # "Failed"
  BY DEF RefInv, FailInv, Early
<1>2. /\ Steady /\ UNCHANGED <<kode, kids, seen>>
      /\ pc = "cleanup" \/ UNCHANGED terminating
  BY <1>1, HandledFresh, ReconcileKids DEF Handled
<1>3. pc' = "idle" \/ (k' = k /\ st'.phase = st.phase /\ pc' \notin Early \ {"mismatch"})
  BY DEF Handled, MovesOn, Finish, Forget, Keeps, Early
<1>4. WorkInv'
  <2>1. CASE pc' = "idle"
    BY <2>1 DEF WorkInv, Early
  <2>2. CASE pc' # "idle"
    <3>1. seen = kids /\ WorkInv
      BY DEF AppliedInv
    <3>2. pc' \in {"detect", "apply", "validate"} => st.phase \in {"Configuring", "Updating"}
      BY <1>1, <3>1, Path DEF WorkInv
    <3>3. pc' = "apply" => \A kind \in Wanted(k.spec) \ todo' : Matches(kids, kind, k.spec)
      BY <1>1, <3>1, Path DEF Changes
    <3>4. pc = "detect" /\ Changes = {} => Applied(kids, k.spec)
      BY <3>1 DEF Changes, Applied
    <3>5. \/ pc' = "validate"
          \/ pc' = "check" /\ st.phase = "Updating"
          \/ pc' = "advance" /\ next' \in {"Active", "Provisioning"}
          \/ st.phase = "Provisioning"
          => Applied(kids, k.spec)
      BY <1>1, <3>1, <3>4, Path DEF WorkInv
    <3>6. k' = k /\ st'.phase = st.phase /\ kids' = kids
      BY <1>2, <1>3, <2>2
    <3> QED BY <3>2, <3>3, <3>5, <3>6 DEF WorkInv, Applied, Matches
  <2> QED BY <2>1, <2>2
<1>5. BuiltInv'
  <2>1. pc = "cleanup" => status.phase = "Deleting"
    BY DEF RefInv, MarkedInv, DeletingSteps
  <2> QED BY <1>2, <1>3, <2>1 DEF Steady, AppliedInv, BuiltInv, Applied, Matches, Early
<1> QED BY <1>2, <1>4, <1>5 DEF AppliedInv

\* A reconcile of a Provisioning Kode starts with its children built.
LEMMA StartBuilt ==
  ASSUME FreshReads, TypeOK, LifeInv, RefInv, AppliedInv, kode.exists, Start
  PROVE  AppliedInv'
<1>1. /\ UNCHANGED <<kode, status, kids, seen, terminating>> /\ pc = "idle"
      /\ k' = kode
      /\ IF kode.deleting THEN pc' = "markDeleting"
                          ELSE pc' = Route(kode, status) /\ st' = status
  BY DEF Start, Synced, objVars, childVars
<1>2. pc' \notin {"detect", "apply", "validate", "check", "advance"}
  BY <1>1 DEF Route, HandlerStep
<1>3. pc' \notin Early => st' = status /\ status.obs = kode.gen
  BY <1>1 DEF Route, HandlerStep, Early, TypeOK, ClusterTypeOK, Meta, Status
<1>4. WorkInv'
  BY <1>1, <1>2, <1>3 DEF WorkInv, AppliedInv, BuiltInv, Applied, Matches
<1>5. BuiltInv'
  BY <1>1 DEF BuiltInv, AppliedInv, Applied, Matches
<1> QED BY <1>1, <1>4, <1>5 DEF AppliedInv

\* HandleState puts into Provisioning, or Active, a Kode whose children are built.
LEMMA SavePhaseBuilt ==
  ASSUME "entrypoint" \notin Drifts,
         TypeOK, LifeInv, RefInv, HandlerInv, FreshInv, AppliedInv, kode.exists, SavePhase
  PROVE  /\ AppliedInv'
         /\ status' = status \/ status'.obs = k.gen
         /\ status'.phase = "Active" => status.phase = "Active" \/ Applied(kids, k.spec)
<1> DEFINE w == [st EXCEPT !.phase = next]
<1>1. /\ pc = "advance" /\ UNCHANGED <<kode, kids, seen, terminating>>
      /\ Save(w, TRUE, TRUE) /\ pc' = "idle"
  BY DEF SavePhase, Save, OnlyStatus, childVars, Finish, Forget
<1>2. /\ st.obs = k.gen /\ status.obs = k.gen /\ cacheStatus.obs = k.gen
      /\ status.phase = st.phase /\ cacheStatus.phase = st.phase
  <2>1. ~k.deleting /\ "Failed" \notin {status.phase, cacheStatus.phase}
    BY <1>1 DEF LifeInv, StepInv, DeletionSteps, RefInv, FailInv
  <2> QED BY <1>1, <2>1 DEF FreshInv, Shown, Early
<1>3. \/ status' = status
      \/ status'.phase = next /\ status'.obs = k.gen
  <2>1. w.phase = next /\ w.obs = st.obs
    BY DEF TypeOK, Status
  <2>2. next # cacheStatus.phase
    BY <1>1, <1>2, Moves DEF HandlerInv, QueueInv
  <2>3. CASE status' # status
    <3>1. /\ status'.phase = Pick(cacheStatus.phase, w.phase, status.phase)
          /\ status'.obs = Pick(cacheStatus.obs, w.obs, status.obs)
      BY <1>1, <2>3, FreshSaveOwned
    <3> QED BY <1>2, <2>1, <2>2, <3>1 DEF Pick
  <2> QED BY <2>3
<1>4. next \in {"Active", "Provisioning"} => Applied(kids, k.spec)
  BY <1>1 DEF AppliedInv, WorkInv
<1>5. status.phase # "Deleting" /\ pc # "idle"
  BY <1>1 DEF LifeInv, StepInv, CopyInv, DeletionSteps
<1>6. WorkInv' /\ BuiltInv'
  BY <1>1, <1>3, <1>4, <1>5 DEF WorkInv, AppliedInv, BuiltInv, Early, Applied, Matches
<1> QED BY <1>1, <1>3, <1>4, <1>6 DEF AppliedInv

\* The steps before the state machine make no Kode Provisioning.
LEMMA PreludeBuilt ==
  ASSUME "entrypoint" \notin Drifts, TypeOK, LifeInv, RefInv, HandlerInv, FreshInv, AppliedInv,
         kode.exists, kode'.exists,
         \/ Skip \/ AddFinalizer \/ Initialise \/ GenerationMismatch \/ RemoveFinalizer
         \/ MarkDeleting
  PROVE  AppliedInv'
<1>1. UNCHANGED <<kids, seen, terminating>>
  <2>1. Reconcile /\ pc \notin {"apply", "cleanup"}
    BY DEF Reconcile, Skip, AddFinalizer, Initialise, GenerationMismatch, RemoveFinalizer,
           MarkDeleting
  <2> QED BY <2>1, ReconcileKids
<1>2. kode'.gen = kode.gen /\ kode'.spec = kode.spec
  BY DEF Skip, AddFinalizer, Initialise, GenerationMismatch, RemoveFinalizer, MarkDeleting,
         OnlyStatus, objVars, TypeOK, ClusterTypeOK, Meta
<1>3. (k' = k /\ pc # "idle") \/ pc' = "idle"
  BY DEF Skip, AddFinalizer, Initialise, GenerationMismatch, RemoveFinalizer, MarkDeleting,
         Save, Goto, Finish, Forget, localVars
<1>4. \/ status'.phase = status.phase /\ status'.obs = status.obs
      \/ status'.phase \in {"Pending", "Updating", "Deleting"}
  <2>1. CASE Skip \/ AddFinalizer \/ RemoveFinalizer
    BY <2>1 DEF Skip, AddFinalizer, RemoveFinalizer, objVars
  <2>2. CASE Initialise
    <3>1. /\ pc = "init" /\ Save(st, TRUE, TRUE) /\ UNCHANGED kode
      BY <2>2 DEF Initialise, Save, OnlyStatus
    <3>2. cacheStatus.phase = NoPhase /\ st.phase = "Pending"
      BY <3>1 DEF FreshInv
    <3> QED BY <3>1, <3>2, FreshSaveOwned DEF Pick, NoPhase
  <2>3. CASE GenerationMismatch
    BY <2>3, GenerationMismatchFresh
  <2>4. CASE MarkDeleting
    BY <2>4, MarkDeletingFresh DEF Steady, Lifecycle!Mark
  <2> QED BY <2>1, <2>2, <2>3, <2>4
<1>5. \/ pc' \in Early
      \/ pc' \in {"resetRetry", "deleting", "error"} /\ st'.phase = "Deleting"
  <2>1. CASE MarkDeleting
    <3>1. k.fin /\ st.phase = "Deleting"
      BY <2>1 DEF MarkDeleting, LifeInv, StepInv, CopyInv
    <3>2. Route(k, st) \in {"mismatch", "resetRetry", "deleting"}
      BY <3>1 DEF Route, HandlerStep, TypeOK, Meta
    <3> QED BY <2>1, <3>1, <3>2 DEF MarkDeleting, Save, Goto, Finish, Forget, Early
  <2>2. CASE RemoveFinalizer
    <3>1. st.phase = "Deleting"
      BY <2>2 DEF RemoveFinalizer, RefInv, MarkedInv, DeletingSteps, LifeInv, CopyInv
    <3> QED BY <2>2, <3>1 DEF RemoveFinalizer, Goto, Finish, Forget, Early
  <2>3. CASE Skip \/ AddFinalizer \/ Initialise \/ GenerationMismatch
    BY <2>3 DEF Skip, AddFinalizer, Initialise, GenerationMismatch, Save, Goto, Finish, Forget,
                localVars, Early
  <2> QED BY <2>1, <2>2, <2>3
<1>6. status.phase = "Deleting" => status'.phase = "Deleting"
  <2>1. CASE ~GenerationMismatch /\ ~Initialise
    BY <2>1, MarkDeletingFresh
       DEF Skip, AddFinalizer, RemoveFinalizer, objVars, Steady, Lifecycle!Mark
  <2>2. CASE GenerationMismatch
    BY <2>2, GenerationMismatchLife DEF StaysDeleting
  <2>3. CASE Initialise
    BY <2>3 DEF Initialise, FreshInv, NoPhase
  <2> QED BY <2>1, <2>2, <2>3
<1>7. WorkInv'
  BY <1>5 DEF WorkInv, Early
<1>8. BuiltInv'
  <2>1. BuiltInv
    BY DEF AppliedInv
  <2>2. pc' # "idle" /\ k'.gen = kode'.gen => k'.spec = kode'.spec
    BY <1>2, <1>3, <2>1 DEF BuiltInv
  <2>3. status'.phase = "Provisioning" =>
          status.phase = "Provisioning" /\ status'.obs = status.obs
    BY <1>4
  <2> QED BY <1>1, <1>2, <1>6, <2>1, <2>2, <2>3 DEF BuiltInv, Applied, Matches
<1> QED BY <1>1, <1>7, <1>8 DEF AppliedInv

\* An edit makes a new generation, and only a Kode that is being deleted loses children.
LEMMA EnvironmentBuilt ==
  ASSUME ChildLag = FALSE, "child" \notin Drifts, "entrypoint" \notin Drifts,
         TypeOK, LifeInv, RefInv, AppliedInv,
         Environment, UNCHANGED localVars, kode'.exists
  PROVE  AppliedInv'
<1>1. seen' = kids' /\ (UNCHANGED kids \/ terminating # {})
  BY EnvironmentKids DEF AppliedInv
<1>2. UNCHANGED <<pc, k, st, next, todo, status>>
  BY DEF localVars, Environment, EditSpec, DeleteKode, SyncKode, PodStart, PodStop, PodFails,
         EntryPointFails, SyncChild, LoseChild, FinishDelete, GarbageCollect, objVars
<1>3. /\ kode.exists
      /\ kode' = kode \/ kode'.gen = kode.gen + 1
  <2>1. CASE (\E s \in Specs : EditSpec(s)) \/ DeleteKode
    BY <2>1 DEF EditSpec, DeleteKode, TypeOK, ClusterTypeOK, Meta
  <2>2. CASE ~((\E s \in Specs : EditSpec(s)) \/ DeleteKode)
    BY <2>2 DEF Environment, SyncKode, PodStart, PodStop, PodFails, EntryPointFails,
                SyncChild, LoseChild, FinishDelete, GarbageCollect, objVars
  <2> QED BY <2>1, <2>2
<1>4. terminating' # {} => terminating # {}
  BY <1>3 DEF Environment, EditSpec, DeleteKode, SyncKode, PodStart, PodStop, PodFails,
              EntryPointFails, SyncChild, LoseChild, FinishDelete, GarbageCollect, childVars
<1>5. kode.gen \in Nat /\ status.obs <= kode.gen /\ (pc # "idle" => k.gen <= kode.gen)
  BY DEF TypeOK, ClusterTypeOK, Meta, RefInv, GenInv
<1>6. CASE UNCHANGED kids
  BY <1>1, <1>2, <1>3, <1>4, <1>5, <1>6
     DEF AppliedInv, WorkInv, BuiltInv, Applied, Matches, TypeOK, ClusterTypeOK, Meta, Status
<1>7. CASE terminating # {}
  <2>1. status.phase = "Deleting"
    BY <1>3, <1>7 DEF AppliedInv, BuiltInv
  <2>2. WorkInv'
    <3>1. pc # "idle" => k.deleting
      BY <2>1 DEF LifeInv, CopyInv
    <3>2. pc \notin Early => st.phase = "Deleting"
      BY <3>1 DEF LifeInv, CopyInv, Early
    <3>3. pc \in DeletionSteps
      BY <3>1 DEF LifeInv, StepInv, DeletionSteps
    <3> QED BY <1>2, <3>2, <3>3 DEF WorkInv, DeletionSteps
  <2>3. BuiltInv'
    BY <1>2, <1>3, <1>5, <2>1 DEF AppliedInv, BuiltInv, TypeOK, ClusterTypeOK, Meta, Status
  <2> QED BY <1>1, <2>2, <2>3 DEF AppliedInv
<1> QED BY <1>1, <1>6, <1>7

\* No step breaks it.
LEMMA NextBuilt ==
  ASSUME FreshReads, ChildLag = FALSE, "child" \notin Drifts, "entrypoint" \notin Drifts,
         TypeOK, WorkLeft, LifeInv, RefInv, HandlerInv, FreshInv, AppliedInv, [Next]_vars
  PROVE  AppliedInv'
<1>1. CASE UNCHANGED vars
  BY <1>1 DEF vars, clusterVars, localVars, AppliedInv, WorkInv, BuiltInv, Applied, Matches
<1>2. CASE Reconcile
  <2>1. pc = "apply" => Apply
    BY <1>2 DEF Reconcile, Skip, Start, MarkDeleting, AddFinalizer, Initialise, ResetRetry,
       GenerationMismatch, SavePhase, RecordError, HandlePending, FetchTemplate, Detect,
       Validate, CheckProvisioning, CheckUpdating, CheckActive, Stabilise, HandleFailed,
       Recover, HandleDeleting, CheckDeleted, Cleanup, CleanedUp, RemoveFinalizer
  <2>2. kode'.exists => kode.exists
    BY <1>2, StepsOfReconcile
       DEF HandlerInv, Skip, Start, AddFinalizer, UpdateAccepted, Initialise,
           GenerationMismatch, SavePhase, RemoveFinalizer, Handled, OnlyStatus, objVars
  <2>3. seen' = kids'
    <3>1. Apply => seen' = kids'
      BY DEF Apply, WriteKids, AppliedInv
    <3> QED BY <1>2, <2>1, <3>1, ReconcileKids DEF AppliedInv
  <2>4. CASE kode'.exists
    BY <1>2, <2>1, <2>2, <2>4, StepsOfReconcile, StartBuilt, SavePhaseBuilt, PreludeBuilt,
       ApplyBuilt, HandledBuilt DEF HandlerInv
  <2> QED BY <2>3, <2>4 DEF AppliedInv
<1>3. CASE Crash
  BY <1>3 DEF Crash, Restart, Forget, objVars, AppliedInv, WorkInv, BuiltInv, Early,
              Applied, Matches
<1>4. CASE Environment /\ UNCHANGED localVars
  <2>1. seen' = kids'
    BY <1>4, EnvironmentKids DEF AppliedInv
  <2> QED BY <1>4, <2>1, EnvironmentBuilt DEF AppliedInv
<1> QED BY <1>1, <1>2, <1>3, <1>4 DEF Next

\* The inductive invariant of the way to Active: a reconcile that has compared or built
\* the children knows them to be those of its spec, and Provisioning carries that from
\* one reconcile to the next.
THEOREM BuiltCorrect ==
  ASSUME FreshReads = TRUE, ChildLag = FALSE, "child" \notin Drifts, "entrypoint" \notin Drifts
  PROVE  Spec => []AppliedInv
<1>1. Init => AppliedInv
  <2> SUFFICES ASSUME Init PROVE AppliedInv
    OBVIOUS
  <2>1. seen = kids /\ terminating = {} /\ pc = "idle" /\ status.phase = ""
    BY DEF Init, ClusterInit, LocalInit, EmptyStatus, NoPhase
  <2> QED BY <2>1 DEF AppliedInv, WorkInv, BuiltInv, Early
<1>2. TypeOK /\ WorkLeft /\ LifeInv /\ RefInv /\ HandlerInv /\ FreshInv /\ AppliedInv
        /\ [Next]_vars => AppliedInv'
  BY NextBuilt
<1> QED BY <1>1, <1>2, TypeCorrect, WorkStays, LifeCorrect, RefCorrect, HandlerCorrect,
           FreshCorrect, PTL DEF Spec

\* A Kode that becomes Active for its current generation has the children its spec asks
\* for, built from that spec: an edit during the reconcile makes a generation that is not
\* the observed one, and the way to Active leads through children that match.
THEOREM ActiveMeansApplied ==
  ASSUME FreshReads = TRUE, ChildLag = FALSE, "child" \notin Drifts, "entrypoint" \notin Drifts
  PROVE  Spec => ActiveIsApplied
<1> DEFINE Step == status.phase # "Active" /\ status'.phase = "Active" /\ status'.obs = kode.gen
                     => Applied(kids', kode.spec)
<1>1. TypeOK /\ LifeInv /\ RefInv /\ HandlerInv /\ FreshInv /\ AppliedInv /\ [Next]_vars
        => [Step]_vars
  <2> SUFFICES ASSUME TypeOK, LifeInv, RefInv, HandlerInv, FreshInv, AppliedInv, Next,
                      status.phase # "Active", status'.phase = "Active", status'.obs = kode.gen
               PROVE  Applied(kids', kode.spec)
    OBVIOUS
  <2>1. CASE SavePhase
    <3>1. pc = "advance" /\ kode.exists /\ UNCHANGED <<kode, kids>>
      BY <2>1 DEF SavePhase, Save, OnlyStatus, childVars
    <3>2. Applied(kids, k.spec) /\ status'.obs = k.gen
      BY <2>1, <3>1, SavePhaseBuilt
    <3>3. k.spec = kode.spec
      BY <3>1, <3>2 DEF AppliedInv, BuiltInv
    <3> QED BY <3>1, <3>2, <3>3 DEF Applied, Matches
  <2>2. CASE Handled /\ pc \notin Early
    BY <2>2, HandledFresh DEF Steady, RefInv, FailInv
  <2>3. CASE MarkDeleting \/ GenerationMismatch \/ Initialise
    BY <2>3, MarkDeletingFresh, GenerationMismatchFresh, InitialiseFresh
       DEF Steady, Lifecycle!Mark
  <2>4. CASE Skip \/ Start \/ AddFinalizer \/ RemoveFinalizer
    BY <2>4 DEF Skip, Start, AddFinalizer, RemoveFinalizer, objVars
  <2>5. CASE Crash
    BY <2>5 DEF Crash, Restart, objVars
  <2>6. CASE Environment
    BY <2>6 DEF Environment, EditSpec, DeleteKode, SyncKode, PodStart, PodStop, PodFails,
       EntryPointFails, SyncChild, LoseChild, FinishDelete, GarbageCollect, objVars
  <2> QED BY <2>1, <2>2, <2>3, <2>4, <2>5, <2>6, StepsOfReconcile DEF Next, HandlerInv
<1> QED BY <1>1, TypeCorrect, LifeCorrect, RefCorrect, HandlerCorrect, FreshCorrect,
           BuiltCorrect, PTL DEF Spec, ActiveIsApplied
=============================================================================
