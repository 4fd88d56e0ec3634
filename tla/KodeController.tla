---------------------------- MODULE KodeController ----------------------------
(***************************************************************************)
(* The Kode controller: Reconcile (internal/controllers/kode/reconciler.go)*)
(* with the state machine it runs and the handler of every phase.          *)
(*                                                                         *)
(* One worker handles the Kode at a time.  A reconcile is a sequence of    *)
(* steps, each ending in one call to the API server; between two of them   *)
(* the user, the informers, the pod, the children or a crash may step in.  *)
(* What a reconcile decides rests on the copies k and st it made when it   *)
(* started, and on what the caches show when it looks.                     *)
(***************************************************************************)
EXTENDS KodeCluster

CONSTANTS
  MaxRetries,     \* maxRetries of handleFailedState, 5 in the code
  MaxCycle        \* bound: where the count of deletion cycles stops growing

ASSUME RetryAssumption == MaxRetries \in Nat \ {0} /\ MaxCycle \in Nat \ {0}

VARIABLES
  pc,             \* the next step of the reconcile, "idle" between two
  k, st,          \* the copy of the Kode and of its status it works on
  next, again,    \* the phase to move to, and whether the handler requeues
  todo            \* the children still to be applied or deleted

localVars == <<pc, k, st, next, again, todo>>
vars == <<clusterVars, localVars>>

Steps == {"idle", "markDeleting", "addFinalizer", "init", "mismatch", "resetRetry",
          "pending", "fetch", "detect", "apply", "validate", "check", "stabilise",
          "failed", "deleting", "checkDeleted", "cleanup", "cleaned",
          "removeFinalizer", "advance", "error", "unhandled"}

NoKode == [exists |-> FALSE, deleting |-> FALSE, fin |-> FALSE, gen |-> 0,
           spec |-> CHOOSE s \in Specs : TRUE]

\* The controller's copies are Kodes and statuses, its next phase one that has a
\* handler, and what it has left to apply or delete kinds of children.
TypeOK ==
  /\ ClusterTypeOK
  /\ pc \in Steps
  /\ k \in Meta /\ st \in Status
  /\ next \in Phases \cup {NoPhase} /\ again \in BOOLEAN
  /\ todo \subseteq Kinds

LocalInit ==
  /\ pc = "idle" /\ k = NoKode /\ st = EmptyStatus
  /\ next = NoPhase /\ again = FALSE /\ todo = {}

Init == ClusterInit /\ LocalInit

-----------------------------------------------------------------------------
(* How a step ends *)

Goto(step, s) ==
  /\ pc' = step /\ st' = s
  /\ UNCHANGED <<k, next, again, todo, queue>>

\* The locals of a reconcile die with it.
Forget ==
  /\ pc' = "idle" /\ k' = NoKode /\ st' = EmptyStatus
  /\ next' = NoPhase /\ again' = FALSE /\ todo' = {}

\* Requeue, RequeueAfter and an error all bring the Kode back.
Finish(requeue) ==
  /\ Forget
  /\ queue' = IF requeue THEN queue \cup {"kode"} ELSE queue

\* A handler returns a phase other than the current one without an error.
Advance(phase, requeue, s) ==
  /\ pc' = "advance" /\ st' = s /\ next' = phase /\ again' = requeue
  /\ UNCHANGED <<k, todo, queue>>

\* Leave everything but the status, the faults and the locals.
OnlyStatus == UNCHANGED <<kode, cacheVars, childVars, flaps>>

-----------------------------------------------------------------------------
(* Reconcile, before the state machine *)

\* "unhandled" is HandleState finding no handler for the phase; it is never
\* reached (HandlerRegistered), so no step leaves it.
HandlerStep(phase) ==
  CASE phase = "Pending"  -> "pending"
    [] phase = "Deleting" -> "deleting"
    [] phase = "Failed"   -> "failed"
    [] phase \in {"Configuring", "Provisioning", "Active", "Updating"} -> "fetch"
    [] OTHER -> "unhandled"

\* Variant: the generation is not compared.
RouteUnobserved(m, s) ==
  CASE ~m.fin -> "addFinalizer"
    [] m.fin /\ s.phase # "Failed" /\ s.retry > 0 -> "resetRetry"
    [] OTHER -> HandlerStep(s.phase)

\* Variant: the retry count is never reset.
RouteCounting(m, s) ==
  CASE ~m.fin -> "addFinalizer"
    [] m.fin /\ m.gen # s.obs -> "mismatch"
    [] OTHER -> HandlerStep(s.phase)

Route(m, s) ==
  CASE ~m.fin -> "addFinalizer"
    [] m.fin /\ m.gen # s.obs -> "mismatch"
    [] m.fin /\ m.gen = s.obs /\ s.phase # "Failed" /\ s.retry > 0 -> "resetRetry"
    [] OTHER -> HandlerStep(s.phase)

\* Nothing is left to reconcile.
Skip ==
  /\ pc = "idle" /\ "kode" \in queue
  /\ ~cacheKode.exists \/ (cacheKode.deleting /\ ~cacheKode.fin)
  /\ queue' = queue \ {"kode"}
  /\ UNCHANGED <<objVars, cacheVars, childVars, faults, flaps, localVars>>

Start ==
  /\ pc = "idle" /\ "kode" \in queue
  /\ cacheKode.exists /\ (cacheKode.deleting => cacheKode.fin)
  /\ FreshReads => Synced
  /\ queue' = queue \ {"kode"}
  /\ k' = cacheKode
  /\ IF cacheKode.deleting
       THEN pc' = "markDeleting" /\ st' = [cacheStatus EXCEPT !.phase = "Deleting"]
       ELSE pc' = Route(cacheKode, cacheStatus) /\ st' = cacheStatus
  /\ UNCHANGED <<objVars, cacheVars, childVars, faults, flaps, next, again, todo>>

MarkDeleting ==
  /\ pc = "markDeleting" /\ OnlyStatus
  /\ Save(st, Goto(Route(k, st), st), Finish(TRUE))

\* AddFinalizer and RemoveFinalizer update the cached object: the server
\* accepts the update only when the cache is up to date.
UpdateAccepted == cacheKode.exists /\ kode.exists /\ Synced

\* Variant: the error of the update is logged, and the reconcile goes on.
AddFinalizerAnyway ==
  /\ pc = "addFinalizer"
  /\ \/ UpdateAccepted /\ kode' = [kode EXCEPT !.fin = TRUE] /\ UNCHANGED faults
     \/ ~cacheKode.exists /\ UNCHANGED <<kode, faults>>
     \/ cacheKode.exists /\ UNCHANGED kode
        /\ IF UpdateAccepted THEN Fault("finalizer") ELSE UNCHANGED faults
  /\ Goto("init", [st EXCEPT !.phase = "Pending", !.obs = k.gen])
  /\ UNCHANGED <<status, cacheVars, childVars, flaps>>

AddFinalizer ==
  /\ pc = "addFinalizer"
  /\ LET fresh == [st EXCEPT !.phase = "Pending", !.obs = k.gen]
     IN  \/ UpdateAccepted /\ kode' = [kode EXCEPT !.fin = TRUE]
            /\ UNCHANGED faults /\ Goto("init", fresh)
         \/ ~cacheKode.exists /\ UNCHANGED <<kode, faults>> /\ Goto("init", fresh)
         \/ cacheKode.exists /\ UNCHANGED kode /\ Finish(TRUE)
            /\ IF UpdateAccepted THEN Fault("finalizer") ELSE UNCHANGED faults
  /\ UNCHANGED <<status, cacheVars, childVars, flaps>>

Initialise ==
  /\ pc = "init" /\ OnlyStatus
  /\ Save(st, Finish(TRUE), Finish(TRUE))

GenerationMismatch ==
  /\ pc = "mismatch" /\ OnlyStatus
  /\ Save(Mismatched(st, k.gen), Finish(TRUE), Finish(TRUE))

ResetRetry ==
  /\ pc = "resetRetry" /\ OnlyStatus
  /\ LET s == [st EXCEPT !.retry = 0]
     IN  Save(s, Goto(HandlerStep(s.phase), s), Finish(TRUE))

\* HandleState saves the phase the handler moved to.
SavePhase ==
  /\ pc = "advance" /\ OnlyStatus
  /\ Save([st EXCEPT !.phase = next], Finish(again), Finish(TRUE))

\* Variant: the error is recorded and swallowed.
RecordErrorOnly ==
  /\ pc = "error" /\ OnlyStatus
  /\ Save(Errored(st), Finish(FALSE), Finish(FALSE))

\* Variant: the phase returned beside the error is saved with it.
RecordErrorFailing ==
  /\ pc = "error" /\ OnlyStatus
  /\ Save([Errored(st) EXCEPT !.phase = "Failed"], Finish(TRUE), Finish(TRUE))

\* handleReconcileError: record the error and hand it back.  The phase it
\* returns beside the error is not saved.
RecordError ==
  /\ pc = "error" /\ OnlyStatus
  /\ Save(Errored(st), Finish(TRUE), Finish(TRUE))

-----------------------------------------------------------------------------
(* Pending, Configuring, Updating *)

HandlePending ==
  /\ pc = "pending" /\ OnlyStatus
  /\ LET s == Progressing(st)
     IN  IF k.spec.valid
           THEN Save(s, Advance("Configuring", TRUE, s), Goto("error", s))
           ELSE UNCHANGED <<status, faults>> /\ Goto("error", st)

\* Without a template a recovery starts over; every other handler fails.
FetchFailed ==
  IF st.phase = "Failed" THEN Advance("Pending", TRUE, st) ELSE Goto("error", st)

\* fetchTemplatesWithRetry also saves the runtime, and so the whole status.
FetchTemplate ==
  /\ pc = "fetch" /\ OnlyStatus
  /\ \/ Fault("template") /\ UNCHANGED status /\ FetchFailed
     \/ Save(st,
             Goto(IF st.phase \in {"Configuring", "Updating"} THEN "detect" ELSE "check", st),
             FetchFailed)

\* A cached read of the children fails.
ReadFails == Fault("read") /\ UNCHANGED status /\ Goto("error", st)

\* Variant: only missing children count.
MissingOnly == {kind \in Wanted(k.spec) : seen[kind] = NoChild}

\* detectChanges compares what the caches show with what the spec wants.
Changes == {kind \in Wanted(k.spec) : ~Matches(seen, kind, k.spec)}

Unchanged(s) ==
  [WithConditions(s, "True", s.conds.avail, "False") EXCEPT !.obs = k.gen]

Detect ==
  /\ pc = "detect" /\ OnlyStatus
  /\ \/ ReadFails
     \/ /\ Changes # {}
        /\ pc' = "apply" /\ todo' = Changes
        /\ UNCHANGED <<status, faults, k, st, next, again, queue>>
     \/ /\ Changes = {} /\ st.phase = "Configuring"
        /\ UNCHANGED <<status, faults>> /\ Goto("validate", st)
     \/ /\ Changes = {} /\ st.phase = "Updating"
        /\ LET s == Unchanged(st)
           IN  Save(s, Advance("Active", TRUE, s), Goto("error", s))

ApplyOrder   == [secret |-> 1, service |-> 2, statefulset |-> 3, pvc |-> 4]
CleanupOrder == [statefulset |-> 1, service |-> 2, secret |-> 3, pvc |-> 4]

First(S, order) == CHOOSE x \in S : \A y \in S : order[x] <= order[y]

\* The server refuses to create what it has, to patch what it lacks, and to
\* change the selector of a StatefulSet, which holds the template's name.
Refused(kind) ==
  \/ (seen[kind] = NoChild) # (kids[kind] = NoChild)
  \/ /\ kind = "statefulset" /\ kids[kind] # NoChild
     /\ kids[kind].template # k.spec.template

\* A patched Secret keeps the labels it was created with.
Ensured(kind) ==
  IF kind = "secret" /\ kids[kind] # NoChild
    THEN [k.spec EXCEPT !.template = kids[kind].template]
    ELSE k.spec

\* A child that is there is patched with what its informer's copy lacks: the whole of
\* it where that copy is up to date, as it is wherever children are checked (ChildLag).
Apply ==
  /\ pc = "apply"
  /\ LET kind == First(todo, ApplyOrder)
     IN  \/ /\ ~Refused(kind)
            /\ WriteKids([kids EXCEPT ![kind] = Ensured(kind)])
            /\ todo' = todo \ {kind}
            /\ pc' = IF todo' = {} THEN "validate" ELSE "apply"
            /\ UNCHANGED <<faults, k, st, next, again, queue>>
         \/ /\ IF Refused(kind) THEN UNCHANGED faults ELSE Fault("ensure")
            /\ UNCHANGED <<kids, seen>> /\ Goto("error", st)
  /\ UNCHANGED <<objVars, cacheVars, terminating, running, flaps>>

\* validateConfiguration reads the children back through the caches.
Validated(kind) ==
  /\ seen[kind] # NoChild
  /\ kind = "pvc" => seen[kind].size = k.spec.size
  /\ kind # "pvc" => seen[kind].template = k.spec.template
  /\ kind = "statefulset" /\ k.spec.storage # "none" => seen[kind].storage # "none"

ConfigurationValid == \A kind \in Wanted(k.spec) : Validated(kind)

Validate ==
  /\ pc = "validate" /\ OnlyStatus
  /\ \/ ReadFails
     \/ ~ConfigurationValid /\ UNCHANGED <<status, faults>> /\ Goto("error", st)
     \/ /\ ConfigurationValid /\ st.phase = "Configuring"
        /\ LET s == Progressing(st)
           IN  Save(s, Advance("Provisioning", TRUE, s), Goto("error", s))
     \/ /\ ConfigurationValid /\ st.phase = "Updating"
        /\ UNCHANGED <<status, faults>> /\ Goto("check", st)

-----------------------------------------------------------------------------
(* Readiness: Provisioning, Updating, Active and recovery *)

Ready(spec) ==
  /\ \A kind \in Wanted(spec) : seen[kind] # NoChild
  /\ "service" \in Kinds => TPort[seen["service"].template] = TPort[spec.template]
  /\ running # NoChild /\ running.template = spec.template

Port == TPort[k.spec.template]

\* Variant: waiting for the pod relies on an event that nothing sends.
CheckProvisioningOnce ==
  /\ pc = "check" /\ st.phase = "Provisioning" /\ OnlyStatus
  /\ \/ ReadFails
     \/ /\ ~Ready(k.spec)
        /\ LET s == Progressing(st) IN Save(s, Finish(FALSE), Goto("error", s))
     \/ /\ Ready(k.spec)
        /\ LET s == [Serving(st) EXCEPT !.port = Port]
           IN  Save(s, Advance("Active", FALSE, s), Goto("error", s))

CheckProvisioning ==
  /\ pc = "check" /\ st.phase = "Provisioning" /\ OnlyStatus
  /\ \/ ReadFails
     \/ /\ ~Ready(k.spec)
        /\ LET s == Progressing(st) IN Save(s, Finish(TRUE), Goto("error", s))
     \/ /\ Ready(k.spec)
        /\ LET s == [Serving(st) EXCEPT !.port = Port]
           IN  Save(s, Advance("Active", FALSE, s), Goto("error", s))

CheckUpdating ==
  /\ pc = "check" /\ st.phase = "Updating" /\ OnlyStatus
  /\ \/ ReadFails
     \/ /\ ~Ready(k.spec)
        /\ LET s == WithConditions(st, "False", st.conds.avail, "True")
           IN  Save(s, Finish(TRUE), Goto("error", s))
     \/ /\ Ready(k.spec)
        /\ LET s == [Serving(st) EXCEPT !.port = Port, !.obs = k.gen]
           IN  Save(s, Advance("Active", FALSE, s), Goto("error", s))

\* An Active Kode first saves a port that has changed.
CheckActive ==
  /\ pc = "check" /\ st.phase = "Active" /\ OnlyStatus
  /\ \/ ReadFails
     \/ /\ ~Ready(k.spec)
        /\ LET s == Progressing(st)
           IN  Save(s, Advance("Updating", TRUE, s), Goto("error", s))
     \/ /\ Ready(k.spec) /\ st.port # Port
        /\ LET s == [st EXCEPT !.port = Port]
           IN  Save(s, Goto("stabilise", s), Goto("error", s))
     \/ /\ Ready(k.spec) /\ st.port = Port
        /\ UNCHANGED <<status, faults>> /\ Goto("stabilise", st)

\* Conditions that say so already are saved again unless their reasons, which the
\* model leaves out, are those of an earlier look.
Stabilise ==
  /\ pc = "stabilise" /\ OnlyStatus
  /\ LET s == Serving(st)
     IN  \/ Save(s, Finish(TRUE), Goto("error", s))
         \/ st = s /\ UNCHANGED <<status, faults>> /\ Finish(TRUE)

\* determineRecoveryPhase
Recover ==
  /\ pc = "check" /\ st.phase = "Failed" /\ OnlyStatus /\ UNCHANGED status
  /\ \/ Fault("read") /\ Advance("Pending", TRUE, st)
     \/ UNCHANGED faults
        /\ LET phase == CASE ~Ready(k.spec) -> "Provisioning"
                          [] Ready(k.spec) /\ k.gen # st.obs -> "Configuring"
                          [] OTHER -> "Pending"
           IN  Advance(phase, TRUE, st)

\* Variant: one retry too many.
HandleFailedOneMore ==
  /\ pc = "failed" /\ OnlyStatus
  /\ IF st.retry > MaxRetries
       THEN Save(WithConditions(st, "False", "False", "False"), Finish(TRUE), Finish(TRUE))
       ELSE LET s == [Progressing(st) EXCEPT !.retry = @ + 1, !.err = FALSE]
            IN  Save(s, Goto("fetch", s), Finish(TRUE))

HandleFailed ==
  /\ pc = "failed" /\ OnlyStatus
  /\ IF st.retry >= MaxRetries
       THEN Save(WithConditions(st, "False", "False", "False"), Finish(TRUE), Finish(TRUE))
       ELSE LET s == [Progressing(st) EXCEPT !.retry = @ + 1, !.err = FALSE]
            IN  Save(s, Goto("fetch", s), Finish(TRUE))

-----------------------------------------------------------------------------
(* Deletion *)

HandleDeleting ==
  /\ pc = "deleting" /\ OnlyStatus
  /\ LET s == Progressing(st) IN Save(s, Goto("checkDeleted", s), Finish(TRUE))

\* Variant: the claim is not waited for.
GoneButClaim(spec) == \A kind \in Wanted(spec) \ {"pvc"} : seen[kind] = NoChild

Gone(spec) == \A kind \in Wanted(spec) : seen[kind] = NoChild

\* Variant: the claim is never deleted.
ToDeleteNoClaim(spec) == Wanted(spec) \ {"pvc"}

ToDelete(spec) == Wanted(spec) \ (IF spec.storage = "keep" THEN {"pvc"} ELSE {})

CheckDeleted ==
  /\ pc = "checkDeleted" /\ OnlyStatus
  /\ \/ ReadFails
     \/ /\ Gone(k.spec)
        /\ UNCHANGED <<status, faults>> /\ Goto("removeFinalizer", st)
     \/ /\ ~Gone(k.spec) /\ st.cycle = 0
        /\ pc' = "cleanup" /\ todo' = ToDelete(k.spec)
        /\ st' = [st EXCEPT !.cycle = 1]
        /\ UNCHANGED <<status, faults, k, next, again, queue>>
     \/ /\ ~Gone(k.spec) /\ st.cycle > 0
        /\ LET s == [st EXCEPT !.cycle = IF @ < MaxCycle THEN @ + 1 ELSE @]
           IN  Save(s, Finish(TRUE), Finish(TRUE))

\* CleanupManager.Cleanup: the first failing deletion ends it.
Cleanup ==
  /\ pc = "cleanup"
  /\ LET kind == First(todo, CleanupOrder)
     IN  \/ /\ terminating' = IF kids[kind] = NoChild THEN terminating
                                                      ELSE terminating \cup {kind}
            /\ todo' = todo \ {kind}
            /\ pc' = IF todo' = {} THEN "cleaned" ELSE "cleanup"
            /\ UNCHANGED <<faults, k, st, next, again, queue>>
         \/ Fault("delete") /\ UNCHANGED terminating /\ Goto("error", st)
  /\ UNCHANGED <<objVars, cacheVars, kids, seen, running, flaps>>

CleanedUp ==
  /\ pc = "cleaned" /\ OnlyStatus
  /\ Save(st, Finish(TRUE), Finish(TRUE))

RemoveFinalizer ==
  /\ pc = "removeFinalizer"
  /\ \/ UpdateAccepted
        /\ kode' = [kode EXCEPT !.fin = FALSE, !.exists = ~kode.deleting]
        /\ UNCHANGED faults /\ Finish(FALSE)
     \/ ~cacheKode.exists /\ UNCHANGED <<kode, faults>> /\ Finish(FALSE)
     \/ /\ cacheKode.exists /\ UNCHANGED kode /\ Goto("error", st)
        /\ IF UpdateAccepted THEN Fault("finalizer") ELSE UNCHANGED faults
  /\ UNCHANGED <<status, cacheVars, childVars, flaps>>

-----------------------------------------------------------------------------
(* The operator stops in the middle of a reconcile and comes back: it lists *)
(* everything afresh and enqueues the Kode.                                 *)

Restart ==
  /\ cacheKode' = kode /\ cacheStatus' = status /\ seen' = kids
  /\ queue' = Controllers
  /\ UNCHANGED <<objVars, kids, terminating, running, flaps>>

Crash == pc # "idle" /\ Fault("crash") /\ Forget /\ Restart

Reconcile ==
  \/ Skip \/ Start \/ MarkDeleting \/ AddFinalizer \/ Initialise
  \/ GenerationMismatch \/ ResetRetry \/ SavePhase \/ RecordError
  \/ HandlePending \/ FetchTemplate \/ Detect \/ Apply \/ Validate
  \/ CheckProvisioning \/ CheckUpdating \/ CheckActive \/ Stabilise
  \/ HandleFailed \/ Recover
  \/ HandleDeleting \/ CheckDeleted \/ Cleanup \/ CleanedUp \/ RemoveFinalizer

Next ==
  \/ Reconcile
  \/ Crash
  \/ Environment /\ UNCHANGED localVars

Spec == Init /\ [][Next]_vars

\* The workqueue hands out what it holds, informers deliver, and the built-in
\* controllers act.  Users, faults, drifts and crashes owe nothing.
Fairness ==
  /\ WF_vars(Reconcile)
  /\ WF_vars(SyncKode /\ UNCHANGED localVars)
  /\ WF_vars(PodStart /\ UNCHANGED localVars)
  /\ WF_vars(PodStop /\ UNCHANGED localVars)
  /\ \A kind \in Kinds :
       /\ WF_vars(SyncChild(kind) /\ UNCHANGED localVars)
       /\ WF_vars(FinishDelete(kind) /\ UNCHANGED localVars)

FairSpec == Spec /\ Fairness

\* Besides, the informer wins the race against RemoveFinalizer now and then:
\* it delivers the status write of HandleDeleting before the update is sent.
TimelySpec ==
  FairSpec /\ SF_vars(SyncKode /\ pc = "removeFinalizer" /\ UNCHANGED localVars)

-----------------------------------------------------------------------------
(* Safety *)

\* A reconcile always finds a handler for the phase it read: the object never
\* has an empty phase together with a finalizer and an observed generation
\* that agree with its metadata (HandleState's "no handler for phase").
HandlerRegistered == pc # "unhandled"

\* handleActiveState dereferences the three conditions without a nil check:
\* whatever led to Active must have set them.
ConditionsPresent ==
  pc = "stabilise" =>
    "none" \notin {st.conds.ready, st.conds.avail, st.conds.prog}

\* An existing Kode is never dropped.  Handlers that return Result{} rely on
\* their own status write coming back as an event: when the Kode is neither
\* queued nor being reconciled, the informer still owes one.
NeverForgotten ==
  kode.exists /\ pc = "idle" /\ "kode" \notin queue => ~Synced

\* No handler ever puts its Kode into Failed: each returns PhaseFailed beside
\* an error, HandleState hands the error back without saving the phase, and
\* what handleReconcileError saves keeps the phase the Kode was in.
NeverFails == status.phase # "Failed"

\* Deleting is final: although every save writes the whole status of a copy
\* that may be old, none takes a Kode out of Deleting again.
DeletingIsFinal ==
  [][status.phase = "Deleting" => status'.phase = "Deleting"]_vars

\* A Kode that becomes Active for its current generation has the children
\* its spec asks for, built from that spec.
ActiveIsApplied ==
  [][status.phase # "Active" /\ status'.phase = "Active" /\ status'.obs = kode.gen
       => Applied(kids', kode.spec)]_vars

\* The finalizer outlives the children: a Kode that is gone leaves none of
\* the children its spec owns behind.
NoOrphans ==
  ~kode.exists => \A kind \in Wanted(kode.spec) : kids[kind] = NoChild

\* What the user sees of all this is the life of a Kode as KodeLifecycle tells it.
Lifecycle ==
  INSTANCE KodeLifecycle WITH
    Fresh <- FreshReads, alive <- kode.exists, owned <- kode.fin,
    requested <- kode.deleting, gen <- kode.gen, obs <- status.obs, phase <- status.phase

\* The controller implements the lifecycle: every write of a status, an old copy's
\* included, and every change of the finalizer is one of its steps or changes
\* nothing there.
FollowsLifecycle == Lifecycle!Spec

-----------------------------------------------------------------------------
(* Liveness *)

Settled ==
  \/ ~kode.exists \/ kode.deleting
  \/ /\ status.phase = "Active" /\ status.obs = kode.gen
     /\ Applied(kids, kode.spec) /\ Ready(kode.spec)

\* Once the user stops editing, the Kode becomes Active for its last
\* generation, with the children of its last spec up and ready, and stays so.
Converges == <>[]Settled

\* A Kode that is deleted goes: its children are cleaned up and the finalizer
\* is removed.
DeletionCompletes == kode.deleting ~> ~kode.exists

-----------------------------------------------------------------------------
(* What the documentation says and the code does not do: each of these is   *)
(* violated in a run of its own.                                            *)

\* kode-reconcile.mmd: a new Kode starts in Pending, where it is validated;
\* nothing is built from a spec that fails validation.  The code keeps the
\* finalizer and the initial status in two calls, and a Kode that got only
\* the first goes to Updating, which validates nothing.
InvalidNeverApplied ==
  \A kind \in Kinds : kids[kind] # NoChild => kids[kind].valid

\* handleGenerationMismatch says it always moves to Updating, except when
\* deleting.  Its patch leaves the phase out when a stale cache shows Updating
\* already, and the edit counts as observed by a Kode that stays Active.
MismatchUpdates ==
  [][pc = "mismatch" /\ status' # status /\ status'.phase # "Deleting"
       => status'.phase = "Updating"]_vars

\* PhaseActive means fully operational: a handler moves to Active only when it
\* finds the children and the pod ready.  The "no changes" branch of
\* handleUpdatingState, taken on the second pass over an update whose pod is
\* still coming up, does not look.
ActiveMeansReady ==
  [][pc # "advance" /\ pc' = "advance" /\ next' = "Active" => Ready(k.spec)]_vars
=============================================================================
