# A TLA+ model of kode-operator

kode-operator is a Kubernetes operator. A user creates a `Kode`; the operator
builds a Secret, a Service, a StatefulSet and a PersistentVolumeClaim from it and
from the template it names, keeps them in line with the spec, publishes a URL for
it through the Gateway API, and takes everything down again when the Kode is
deleted. This directory holds a model of its core, the runs that check it with
TLC and the theorems that TLAPS proves about it. Paths below are relative to
`src/`.

## The system

| Part | Code | State it keeps | Operations |
|---|---|---|---|
| Kode controller | `internal/controllers/kode`, `internal/statemachine` | none between two reconciles but its work queue; a local copy of the Kode during one | `Reconcile`, the state machine's `HandleState`, one handler per phase |
| Kode status | `api/v1alpha2/kode_types.go`, `common_types.go`, `condition.go` | phase, observed generation, retry and deletion counters, last error, conditions, port, URL | `UpdateStatus`, `SetCondition`, `AddFinalizer`, `RemoveFinalizer`, `SetRuntime` |
| Children | `ensure_container_*.go`, `configure_resources.go`, `validate_resources.go`, `check_resources.go`, `cleanup.go` | the objects at the API server, and the informers' copies | detect changes, ensure, validate, check ready, check deleted |
| Cleanup manager | `internal/cleanup` | none | delete each child in turn |
| Resource manager | `internal/resourcev1` | none | cached get, create or patch, delete |
| Template manager | `internal/template` | a map of fetched templates, for the life of the process | `Fetch` with retries |
| EntryPoint controller | `internal/controllers/entrypoint` | its work queue | `reconcileKode`: find the EntryPoint, ensure the HTTPRoute, publish the URL |
| Manager | `cmd/main.go` | caches shared by both controllers | start, stop |
| Event recorder | `internal/event` | none | write an event |
| Validation | `pkg/validation` | none | verdict on a spec |
| Envoy configuration | `pkg/envoy` | none | generate a sidecar |

How they interact. Both controllers watch `Kode` objects through one informer and
nothing else that matters (the Kode controller watches no child, the EntryPoint
controller does not see its routes change). Both write the *same* status, each
from the copy it read when its reconcile began, as a JSON merge patch computed
against the informer's copy. There is no lock and no resource version on that
patch. Everything else the operator knows, it reads through caches.

What is hard about it:

* **Stale copies.** A reconcile decides on a copy; its status write is a
  difference to the cache. Fields the cache already shows as wanted are not sent.
* **Two writers of one status**, one of which sets the phase from outside the
  state machine.
* **Many small writes.** Finalizer, initial status, conditions, phase, counters
  and port are saved one by one. A failure or a crash can fall between any two.
* **Requeueing by own events.** Some handlers return an empty result and rely on
  their status write coming back through the watch.
* **Deletion** is spread over many reconciles, a counter and a cache.
* **Edits and deletions at any moment**, in any phase.
* **Caches that outlive their truth.** Each controller keeps every template it has
  fetched, in a map its workers share without a lock.
* **Writes the server must refuse**: selectors, access modes, classes and shrinking
  claims; an update that needs one can never be applied.

What makes each part correct:

* Kode controller: a phase always has a handler; conditions it dereferences are
  there; a Kode is never forgotten; Active stands for the current spec applied;
  Deleting is final; an edited Kode settles; a deleted one goes, and not before
  its children.
* Status: whatever copies are merged, it stays a status with a known phase, and a
  published URL has a route.
* EntryPoint controller: a Kode it failed recovers; the URL is published again
  when an older copy wipes it out.
* Children: what changed is what is applied; what a Kode owns is what is deleted.
* Template manager: what a controller takes for a template stays the same until the
  process restarts, whatever its workers answer late.
* Publication: a published URL leads to the Kode's Service; what wants a SecurityPolicy,
  which the operator cannot make, is not published; Kodes do not share a host; every
  Kode is published in the end, or one can say why not.

The children, in more detail: a Kode's children are four objects, built from a spec
and a template, compared with what is there field by field, and validated and
checked for readiness by rules of their own. What is compared, what is written and
what is validated are three different lists. The secret and the claim may belong to
the user.

## Modules

| Module | Models |
|---|---|
| `KodeStatus` | the status record, the changes made to a local copy (`Progressing`, `Serving`, `Errored`, `Mismatched`), and `MergePatch`, what the server holds after `UpdateStatus` |
| `KodeCluster` | everything the operator does not do itself: the Kode at the server, the informers' copies, the children, the pod, the queues; actions of the user, the informers, the built-in controllers and the garbage collector, and `EntryPointFails`, the EntryPoint controller as an instance without it meets it; `Save`, the call of `UpdateStatus` |
| `KodeController` | `Reconcile`, the state machine and the handlers; safety and liveness of one controller |
| `KodeLifecycle` | the abstract specification: the life of a Kode as its user sees it, which `KodeController` implements |
| `EntryPointController` | `reconcileKode`, its copies and its status writes |
| `Operator` | both controllers in one process, with crashes and restarts of the process |
| `KodeResources` | the children field by field: what is built from a spec and a template, detection, application, validation, readiness, cleanup, the user's own secret and claim |
| `TemplateManager` | `Fetch`: the map of each manager, attempts and retries, the two kinds of template, the search for the EntryPoint |
| `Publication` | two controllers with a template manager each: from template and EntryPoint to Service port, HTTPRoute and URL; the SecurityPolicy that is never made |
| `MCKodeController`, `MCOperator`, `MCKodeResources`, `MCPublication` | the specs, templates and EntryPoints the instances use |
| `KodeControllerProofs` | type correctness |
| `KodeLifecycleProofs` | the lifecycle invariant and what follows from it |
| `KodeRefinementProofs` | `KodeController` implements `KodeLifecycle`; no handler fails a Kode |
| `KodeHandlerProofs` | the conditions Active needs; no Kode is forgotten |
| `KodeFreshProofs` | the strict refinement with fresh reads; what edits, Active and the finalizer mean for the children |
| `OperatorProofs` | both controllers: types, URL and route, the bound on retries |
| `KodeResourcesProofs` | what a pass writes, and whose; what the StatefulSet of an Active Kode says |
| `PublicationProofs` | the template managers' maps; what is published |

Three modules look at the same code from three sides. `KodeController` has every
step of a reconcile with failures, crashes and lagging copies, and takes a child for
"built from this spec". `KodeResources` says what building and comparing mean and
keeps of a reconcile only the pass over the children. `Publication` keeps only what
depends on templates and EntryPoints. `Operator` composes `KodeController` and
`EntryPointController`; `Publication` extends `TemplateManager` and calls it from the
workers of both controllers.

### State and actions

A reconcile is a sequence of steps, each ending in one call to the API server;
`pc` names the next step, `k` and `st` are the local copy of the Kode and of its
status. `Start` is the cached read at the top of `Reconcile`; `Route` is its chain
of early returns (finalizer, generation, retry counter, handler). Then:

| Step (`pc`) | Action | Code |
|---|---|---|
| `markDeleting` | `MarkDeleting` | `reconciler.go:87-97` |
| `addFinalizer`, `init` | `AddFinalizer`, `Initialise` | `reconciler.go:100-117` |
| `mismatch` | `GenerationMismatch` | `utils.go:156-182` |
| `resetRetry` | `ResetRetry` | `reconciler.go:124-130` |
| `pending` | `HandlePending` | `handlers.go:37-68` |
| `fetch` | `FetchTemplate` | `utils.go:35-95` |
| `detect`, `apply`, `validate` | `Detect`, `Apply`, `Validate` | `handlers.go:70-137`, `304-370`, `configure_resources.go`, `validate_resources.go` |
| `check` | `CheckProvisioning`, `CheckUpdating`, `CheckActive`, `Recover` | `handlers.go:139-398`, `664-698` |
| `stabilise` | `Stabilise` | `handlers.go:271-302` |
| `failed` | `HandleFailed` | `handlers.go:485-548` |
| `deleting`, `checkDeleted`, `cleanup`, `cleaned`, `removeFinalizer` | the actions of the same names | `handlers.go:400-483`, `cleanup_manager.go` |
| `advance` | `SavePhase` | `statemachine.go:61-68` |
| `error` | `RecordError` | `utils.go:97-113` |

A `Variant` definition in front of an action is the same action with a plausible
bug; no specification uses it. Each is there to show that a property notices.

In `KodeController` a child is represented by the spec it was built from; `Aspect`
says which part of it change detection compares for each kind. The ready pod is
represented by what it was built from.

`KodeLifecycle` has six variables, all of them visible to the user; the refinement
mapping (`Lifecycle` in `KodeController`) takes them from the Kode at the server.
Its `Next` says what may follow what: adoption before any status, observation of a
generation the spec really has, the moves between phases, `Mark` and `Release` for a
deletion. A controller that reads old copies may in addition `Rewrite` an older
status, but even then it never takes a Kode out of Deleting or puts it there
unasked. `Fresh` switches `Rewrite` off; it is mapped to `FreshReads`.

A pass of `KodeResources` is `Detect`, then `EnsureSecret`, `EnsureService`,
`EnsureStatefulSet`, `EnsureClaim` for what has changed, in that order, then
`Validate`; `pc`, `k` and `todo` are the step, the copy of the spec and the `changes`
map of `applyConfiguration`. An edit may come between any two. Around it:

| Action or operator | Code (`internal/controllers/kode`) |
|---|---|
| `PodTemplate`, `MainContainer`, `Sidecars`, `ProxyConfig` | `ensure_container_statefulset.go`, `ensure_container_sidecars.go`, `pkg/envoy` |
| `PodHash` | `calculatePodTemplateHash` |
| `Changes`, `DetectionPanics`, `PodOutdated` | `configure_resources.go:76-` |
| `Valid`, `Ready` | `validate_resources.go`, `check_resources.go` |
| `ClaimRefused`, and the refusal in `EnsureStatefulSet` | what the API server does with the objects sent to it |
| `Provision`, `Degrade`, `Observe`, `Cleanup` | the handlers between two passes, `cleanup.go` |
| `ScaleToZero`, `PodStart`, `PodStop` | a user with `kubectl scale`, the StatefulSet controller |

In `TemplateManager` a call of `Fetch` is `AtOnce` (an entry of the map, or an
incomplete reference) or runs through `BeginFetch`, `Attempt` and `AttemptAgain` to
`Store` or `GiveUp`. `Publication` gives each worker a job: the Kode controller's two
workers go on in `Reconcile` with what they got, the EntryPoint controller's one
through `FindEntryPoint`, `EnsureRoute`, `EnsurePolicy` and `Publish`
(`entrypoint/reconciler.go:95-190`, `ensure_routes.go`). An overlapping access to the
map either has one of the two first or ends the process (`Restart`): Go's maps
detect it and the process dies of it.

`EnsurePolicy` fails for every EntryPoint that wants a policy. The manager's scheme
(`cmd/main.go:40-45`) has no type for a SecurityPolicy, so `CreateOrPatch` ends in
`AddTypeInformationToObject` (`resourcev1/resource.go:58`, `common/utils.go:156`) before
it calls the server; `config/rbac/role.yaml` grants nothing on `securitypolicies` either.

`Detect` of `KodeResources` may or may not get rid of an outdated pod: the error of the
delete is ignored (`configure_resources.go:268-270`), and the role gives the operator
`list` and `watch` on pods and no `delete`. While templates do not change the branch
is never entered.

### What is abstracted

* The workqueue hands a key to one worker at a time, so there is one `pc` per
  controller although two workers run; several Kodes share nothing in the model.
* The cached reads of the children in one step are read together and merged with
  the API call that follows. The cache of a kind may lag (`ChildLag`).
* Two equal snapshots of an object count as the same resource version.
* Reasons, messages and time stamps of conditions are left out. As the patch
  replaces the list as a whole, `MergePatch` leaves open whether a list that looks
  the same is sent, and likewise the last error.
* `latestKode.Status = k.Status` shares slices and pointers with the caller and
  decodes the server's answer into them; the model's copy stays as the handler
  made it.
* Claims bind no later than the pod starts. The pod of a StatefulSet is one pod.
* The delay of `RequeueAfter` is not modelled: a requeued Kode is in the queue.
  The periodic resync is not modelled; it would only add wake-ups.
* A spec knows four aspects (credentials, what the pod is built from, size,
  template), the storage mode and whether it is valid. Storage without a size, an
  existing secret, access mode and class are in `KodeResources`.
* In `KodeResources` the caches are up to date, a call succeeds unless the server must
  refuse it, and templates do not change; `KodeController` has the first two the other
  way round, `Publication` the third. An image, an environment of the template and
  a plugin's arguments are one value each.
* In `Publication` pods come up at once, a status is read and written up to date, and
  a reconcile of the Kode controller is one step once it has its template; what lies
  between its writes is in `KodeController` and `Operator`. Of a route there is the
  host, the prefix, the backend and its port.
* `Apply` of `KodeController` writes a child as a whole. `CreateOrPatch` sends the
  difference to the cached child, which is less when the cache lags; the properties
  about what children hold are checked with `ChildLag` FALSE, where the two agree.
* `Stabilise` may save or not: `handleActiveState` skips the save when the conditions
  have the reasons it sets, and reasons are left out.
* Panics: a missing gateway, a gateway reference without a namespace
  (`entrypoint/config.go:35`) and an EntryPoint reference without one
  (`entrypoint/utils.go:52`). controller-runtime turns each into an error and the
  reconcile is tried again, as for an EntryPoint that is not there; the first two are
  `ConfigPanics`, the third is a key no EntryPoint has.

### Assumptions

* `FreshReads`: the informer of Kodes has caught up when a reconcile starts. The
  code has nothing that ensures it. The properties that need it are checked with
  it (`kode_updates`, `kode_liveness`, the operator runs); `kode_faults` does
  without it, and `lost_edit` shows what happens otherwise.
* `ChildLag = FALSE`, likewise, for `NoOrphans`, `ActiveIsApplied` and liveness.

* The runs of `KodeResources` and `Publication` never have lagging object caches;
  theirs are the questions that remain when reading is perfect.

## Runs

All constants are in the `.cfg` files. `MaxGen` bounds edits, `MaxFaults` failing
calls and crashes, `MaxFlaps` events nobody asked for. `MaxRetries` (5 in the
code) is 1 where the retry limit is to be reached and 2 in `kode_liveness`, where
one fault must not use the retries up: a Kode at the limit is abandoned, which is
what `handleFailedState` says of it. `MaxCycle` is where the count of deletion passes
saturates: the code distinguishes zero from more. One fault is enough for each hazard here, as
every fault leads to the same error path with the locals of one reconcile, and the
status it leaves is what the next starts from; `operator_recovers` allows two, so
that a Kode is failed again after it recovered.

`MaxEdits` (2) and `MaxScales` (1) of `resources`: a history of three specs in a row
has every pair of them in both orders, and a third to go on to from a pass that was
not finished; every property there is about what one spec leaves to the next. The
twelve specs of `MCKodeResources` differ from each other in one aspect each; one
template has another port under the same image, one is of the other type.
`Histories` of `publication` are the sets of events that may happen in a run: any one
alone, and the restart after an edit of a template, as only then the maps of the two
processes differ. `Attempts` is 2 of the 5 in the code: with two there is one that
fails and goes on and one that is the last. Two Kodes share a template, so that both
workers of the Kode controller are after the same entry.

`CHECK_DEADLOCK` is off: once the Kode and its children are gone, the system
really stops.

| Run | Instance | Properties |
|---|---|---|
| `kode_faults` | a valid or an invalid spec, every call may fail, crashes, lagging informers | `TypeOK`, `HandlerRegistered`, `ConditionsPresent`, `NeverForgotten`, `NeverFails`, `DeletingIsFinal`, `FollowsLifecycle` |
| `kode_updates` | one edit between five specs, four kinds of child, failing status and ensure calls, crashes, a pod that stops | `NoOrphans`, `ActiveIsApplied` |
| `kode_liveness` | one edit of pod or size, with a claim, every call but delete may fail, crashes, a pod that stops or an EntryPoint controller that fails the Kode | `Converges`, `DeletionCompletes`, `FollowsLifecycle` |
| `operator_safety` | both controllers, every outcome of the search for the EntryPoint, every fault, a child that is lost | `OpTypeOK`, `UrlHasRoute`, `RetriesBounded` |
| `operator_recovers` | both controllers, two failing ensure calls | `Recovers`, `PublishesAgain`, `DeletionCompletes` |
| `resources` | twelve specs, three templates, three user's secrets, two claims, two edits, one scaling | `ResTypeOK`, `ActiveMatches`, `UserAgrees`, `ServiceReachesProxy`, `ForeignKept`, `Idempotent`, `Settles` |
| `publication` | two Kodes, two controllers with three workers, what a template and what an EntryPoint say in three forms each, six histories | `PublicationTypeOK`, `UrlServed`, `SecuredUnpublished`, `HostsApart`, `EntryPointNeverFound`, `FailsLate`, `CacheHolds`, `Publishes` |

`FollowsLifecycle` is checked twice, as the refinement with `Fresh` false
(`kode_faults`) and the strict one (`kode_liveness`, where an EntryPoint controller
may also fail the Kode). It is a property of the Kode controller: in the composition
the EntryPoint controller's old copy can take a Kode from Deleting to Failed.

`Settles` and `Publishes` say that a Kode gets where it should "unless", and the
point of them is the list that follows: there is no other reason. `Settles` names
five (`SecretUnusable`, `StorageIncomplete`, `ClaimFixed`, `TemplateFixed`,
`PodBlocked`), `Publishes` five (`TemplateLacking`, `PointLacking`, `RouteTaken`,
`ProvisioningStuck`, `PolicyImpossible`). They are read off the state, not the history:
each names what in the objects keeps the Kode there. A settled Kode is Active, in line
with its spec, and the pod that runs is one of its StatefulSet as it is.

`ActiveMatches` and `UserAgrees` hold of every Active Kode, and speak of the
StatefulSet's pod template only. Of the pod that runs they would be false: the pass
that writes a new template finds the former pod ready (`check_resources.go:224`,
`handlers.go:360-397`) and goes to Active. With the former pod still running, its user
may even be another than the secret says. `Settles` says that this passes.

In the instance of `publication` the EntryPoint for subdomains has a policy that takes
no effect, as it is not https, and the one for paths has one that does. There is one
EntryPoint, so that no route is found to belong to another one, the port is always set
when the EntryPoint controller looks at an Active Kode, and `RouteTaken` is never the
reason; the disjuncts of `FindEntryPoint` and `EnsureRoute` for these cases are in the
module, are part of the proofs, and do not fire in TLC.

Five runs show where code and documents disagree; each checks one property and
is expected to find it violated.

| Run | Property | What happens |
|---|---|---|
| `invalid_applied` | `InvalidNeverApplied` | the write after the finalizer fails; the Kode has no phase and an old observed generation, goes to Updating and is built without validation (`reconciler.go:102-113`) |
| `lost_edit` | `MismatchUpdates` | the cache shows an earlier Updating, the server Active; the patch leaves the phase out and the edit counts as observed (`utils.go:156-171`) |
| `active_unready` | `ActiveMeansReady` | on the second pass over an update nothing has changed, and the handler goes to Active without looking at the pod (`handlers.go:332-344`) |
| `cleanup_failure` | `DeletionCompletes` | the cycle is counted before cleanup has worked, and cleanup never runs again (`handlers.go:429-438`) |
| `keep_volume` | `DeletionCompletes` | deletion waits for the claim that cleanup keeps (`check_resources.go:85-94`) |

`NeverFails`, which holds, contradicts the diagram `docs/diagrams/kode-reconcile.mmd`,
where failed validation leads to Failed: `HandleState` returns on an error before it
sets the phase (`statemachine.go:55-59`). Seven more disagreements are told by properties
that hold, as each states what the code does or names what it leaves out:

* `UserAgrees`: the spec's credentials are not ignored with an existing secret; they
  are what the secret is compared with (`configure_resources.go:135`).
* `ActiveMatches`: an update is over while the former pod still runs
  (`check_resources.go:224`).
* `SecuredUnpublished`: a SecurityPolicy can never be made; the Kode alternates between
  Active and Failed, and its route is there without protection (`main.go:40`).
* `ForeignKept`: deletion deletes the existing secret (`cleanup.go:49`).
* `EntryPointNeverFound`: the template manager looks for the EntryPoint without its
  namespace (`template.go:187`).
* `FailsLate`: a missing template is retried (`template.go:59`).
* `HostsApart`: the routes of Kodes published by path all take every path of the base
  domain (`ensure_routes.go:199`).

### Fairness

In `KodeController` and `Operator`: weak fairness of the reconcile (the workqueue
hands out what it holds), of the informers and of the built-in controllers. Users, failures, drifts and crashes owe
nothing. `TimelySpec` adds strong fairness to the informer delivering while the
Kode controller stands before `RemoveFinalizer`: that update goes out with the
cached resource version and conflicts with the status write of the same reconcile
until that write has come back, and each conflict writes the status once more.
The code relies on the informer winning this race now and then, and so does
`DeletionCompletes`. `OpTimelySpec` is the same for the composition.

In `KodeResources`: weak fairness of a pass and of the StatefulSet controller. Every
phase requeues until it is left, Active after a longer while. In `Publication`: weak
fairness of what a worker is at, and of the Kode controller taking a Kode, which it
always has in its queue; strong fairness of the EntryPoint controller taking one, as
its queue is left and entered again and hands its Kodes out in turn. Edits, scalings,
failures and restarts owe nothing.

## Theorems

TLC checks small instances; the theorems hold for every value of the constants
that satisfies the named assumptions of the module the theorem is about.

The Kode controller:

* `TypeCorrect`: `Spec => []TypeOK`. `TypeOK` is inductive as it stands; the proof
  has one lemma per action, over lemmas about `MergePatch`, `Save` and the ways a
  step ends.
* `LifeCorrect`: `Spec => []LifeInv`. `LifeInv` is the strengthening from which the
  next two follow. `ServerInv` says of the server and the
  informer that a status without a phase has observed no generation, that a phase
  once seen does not go away, and that only a Kode whose deletion the informer has
  seen is in Deleting. `CopyInv` says of the copy of a reconcile that it is in
  Deleting exactly when its Kode is being deleted, and that past the finalizer and
  the generation check it has a phase. `StepInv` ties the steps to the two: a Kode
  that is not being deleted takes no step of deletion, one that is takes no other,
  and `SavePhase` never saves Deleting. All three are needed because a status write
  mixes fields of three ages: the copy's, the informer's and the server's.
* `HandlerAlwaysRegistered`: `Spec => []HandlerRegistered`. `Route` can only reach a
  missing handler with an empty phase and an observed generation that agrees,
  which `LifeInv` excludes for every copy.
* `DeletingStays`: `Spec => DeletingIsFinal`.
* `RefCorrect`: `Spec => []RefInv`. The refinement needs more of the three ages than
  `LifeInv` has: `GenInv`, that no copy is ahead of the server's generation;
  `OwnedInv`, that a Kode without the finalizer has no phase and a reconcile past it
  has one; `MarkedInv`, that the server says Deleting before any step of a deletion;
  `FailInv`, that only the EntryPoint controller brings Failed about.
* `LifecycleImplemented`: without `FreshReads`, `Spec => FollowsLifecycle`. Initial
  states map to initial states; each action maps to a step of `KodeLifecycle` or
  changes none of its variables, by a lemma per action over what `MergePatch` can make
  of the phase and the observed generation.
* `FailsNothing`: without an EntryPoint controller, `Spec => []NeverFails`.
* `HandlerCorrect`: `Spec => []HandlerInv`, over one observation about all handlers
  (`Handled`): a handler saves one copy at most, which keeps the phase, and goes on with
  it. `FillInv` says where the three conditions are: everywhere but in a status nobody
  but `Initialise` has written; it has to speak of the server, the informer and the copy,
  as a patch can bring a condition list from any of them. `QueueInv` says that a reconcile
  nobody has queued again works on the phase the informer still shows.
* `ConditionsAlwaysPresent`: `Spec => []ConditionsPresent`, from `FillInv`.
* `KodeNeverForgotten`: `Spec => []NeverForgotten`. The handlers that return an empty
  result move to another phase; by `QueueInv` the patch then has a phase to send, and
  the write comes back as an event. Without the part of `QueueInv` about the informer's
  phase the patch might be empty.
* `FreshCorrect`: with `FreshReads`, `Spec => []FreshInv`: one phase and one observed
  generation at the server, in the informer and in the copy of a reconcile that has read
  them, except where the EntryPoint controller may have failed the Kode since.
* `StrictLifecycle`: with `FreshReads`, `Spec => FollowsLifecycle`, where the lifecycle
  has no `Rewrite`. `ImplementsLifecycle` puts the two refinements together: no hypothesis
  is left.
* `EditsUpdate`: with `FreshReads` and without an EntryPoint controller that fails the
  Kode, `Spec => MismatchUpdates`, which `lost_edit` shows violated otherwise: the stale
  read is the only cause of the lost edit.
* `OrphanCorrect`, `NothingOrphaned`: `Spec => []NoOrphans`, for every age of the Kode's
  cache and every fault. `OrphanInv` says that without the finalizer there are no
  children, and that of a Kode that is gone no copy is left that would build any.
* `BuiltCorrect`, `ActiveMeansApplied`: `Spec => ActiveIsApplied`. `AppliedInv` follows a
  reconcile: past `detect` and `apply` the children are those of the copy's spec, and the
  copy's spec is the server's as long as the generations agree; a Kode in Provisioning
  carries this from one reconcile to the next.

The hypotheses of the last two pairs are the assumptions listed above, and each is
needed: with lagging child caches neither holds; a spec edited during its deletion to one
that owns a claim, after its children were found gone, leaves the claim behind
(`NothingOrphaned` asks that all specs own the same kinds, as those of `kode_updates` do);
and a child deleted by hand, or a status written by the EntryPoint controller, after the
children were compared is not seen before Active (`ActiveMeansApplied` excludes both by
`Drifts`; the run has the pod stop, which is no hypothesis of the theorem).

Both controllers:

* `OpTypeCorrect`: `OpSpec => []OpTypeOK`.
* `UrlServedByRoute`, `RetriesStayBounded`: `OpSpec => []UrlHasRoute` and
  `OpSpec => []RetriesBounded`. Both rest on `SoundInv`: what is saved may come from
  five places (the server, the informer and the copies of both controllers), so the
  URL has its route and the counter its bound in each of them. The invariant of the
  server alone is not inductive: the next save of an old copy breaks it.

The children:

* `ShapeCorrect`: `Spec => []ShapeInv`: specs, secrets and claims keep their types, the
  copy of a pass included, whose credentials an existing secret may have replaced.
* `ForeignSafe`: `Spec => ForeignKept`, from `ShapeInv`.
* `PassCorrect`: `Spec => []PassInv`: a pass works on the template of an observed spec,
  a Kode that has left the passes for Provisioning or Active has the Service its spec
  asks for, and the StatefulSet and the pod have been built from some spec. Validation
  at the end of a pass is what brings the second about.
* `ServiceLeadsToProgram`: `Spec => []ServiceReachesProxy`, from the two: `Ready` looks
  at the Service's port and the pod's label, and what is built under one label has one
  port.
* `ResourcesTyped`: `Spec => []ResTypeOK`; what a StatefulSet holds is a pod of some
  spec, and lemmas on sequences say what such a pod looks like.
* `MatchCorrect`: `Spec => []MatchInv`, with the invariants before it. As long as the
  generation is observed, what a pass has not left to do agrees with the Kode's spec, and
  its copy differs from that spec in the credentials of an existing secret at most. An
  edit in the middle of a pass voids all of it by making the generation unobserved. That
  a list of changes belongs to `apply` alone is part of it, or `Validate` could end a pass
  with something left.
* `ActiveMatchesSpec`: `Spec => []ActiveMatches`, of the StatefulSet's pod template. `MatchInv` gives equal hashes; the lemma
  `HashSame` shows that two pods of equal hash run the same programs, which needs that
  both were built from specs (`PassInv`).
* `PassesSettle`: `Spec => Idempotent`, from `MatchInv` and what `Valid` asks for.
* `UserOfSecret`: `Spec => []UserAgrees`: the user in the StatefulSet's pod template is
  that of the secret. `UserInv`: past its first part a pass has the user of the secret in
  its copy, and the template of a Kode without a secret of its own has the user of the
  existing one. The order of `ApplyOrder` is what makes it inductive.

Templates and publication:

* `TemplatesCorrect`: `Spec => []TemplateInv`, the types of the maps and the calls and
  that no template in them has found its EntryPoint. It is proved once for the steps of
  `TemplateManager`; a lemma shows that every step of `Publication` is one of these or
  leaves the manager alone.
* `EntryPointsUnknown`: `Spec => []EntryPointNeverFound`.
* `CacheSettles`: `Spec => CacheHolds`, for any number of workers and managers.
* `FetchFailsLate`: `Spec => FailsLate` where `Attempts > 1`, as in the code; with a single
  attempt one failing call would fail a fetch. `TriesInv` says that a second attempt means
  a failing call or a missing template, and `ThereInv`, which carries it past an edit in
  the middle of a call, that before the only edit every template is there. A run has
  one failing call and one edit at most; the theorem says nothing of more.
* `PublicationCorrect`: `Spec => []PubInv`, for every number of workers and Kodes, every
  set of EntryPoints and every history. `RoutesInv` and `UrlsInv` say for whom a route and
  a URL were made (a Kode, an EntryPoint and what it said at that time), `JobsInv` what
  the EntryPoint controller's worker has done of its way to the URL, `PortsInv` that a
  Kode has one port wherever it is written while no template is edited.
* `PublicationTyped`, `UrlsAreServed`, `SecuredHeldBack`, `HostsStayApart`:
  `PublicationTypeOK`, `UrlServed`, `SecuredUnpublished` and `HostsApart` from `PubInv`.

Two of the last properties were wider when they were only checked, and the proof stopped at
instances with two namespaces that TLC then confirmed as counterexamples. Two Kodes of one
name in different namespaces that name one EntryPoint get one route, with the port of the
first (`ensure_routes.go:158`): `UrlServed` now speaks of the port only where no other Kode
has the name (`Alone`). Two EntryPoints of different namespaces with one base domain make
two routes for one host (`reconciler.go:129`): `HostsApart` now speaks of the routes of one
namespace.

Assumptions that are only there to tell values apart: `ChildAssumption`, `RoutesAssumption`
and `ResAbsentAssumption` say that "missing" is none of the objects that can be there;
`ResClassAssumption` that a string is one.

`LifeInv`, `RefInv`, `HandlerInv`, `FreshInv`, `OrphanInv`, `AppliedInv`, `SoundInv`,
`ShapeInv`, `MatchInv`, `UserInv`, `TemplateInv`, `PubInv` and, but for its last two
conjuncts, which range over every spec there could be, `PassInv` were checked with TLC on
the instances of the runs before they were proved.

Only model-checked: the liveness properties (`Converges`, `DeletionCompletes`, `Recovers`,
`PublishesAgain`, `Settles`, `Publishes`), as fairness and `ENABLED` are out of the
prover's reach.

## Known limits of the code, seen while modelling

The hazards in `PROJECT.json` name the lines; where a property has an exclusion or a
reason in its list, this is what it stands for.

* A child lost while the Kode is in Provisioning is never created again.
* With a lagging child cache a finalizer can go while a child still exists; the
  garbage collector removes it.
* A changed template reference changes the StatefulSet's selector, which the server
  refuses every time.
* The retry limit of `handleFailedState` rarely ends anything: the Kode controller
  resets the counter as soon as it sees another phase.
* The lines of `UpdateStatus` that reset the last error never run to effect: they compare
  the status with itself.
* In the composition `DeletingIsFinal` does not hold: an old copy of the EntryPoint
  controller can write Active or Failed over Deleting. The next reconcile sets it again;
  that the deletion completes all the same is checked there (`operator_recovers`).
* A template without an EntryPoint, which the types allow, makes its Kode fail
  each time it is Active, for ever (`PointLacking`).
* A StatefulSet scaled to zero is not scaled up again, as the number of replicas is
  not compared.
* A StatefulSet whose plugins' arguments, mounts or claim alone differ from the spec
  counts as up to date (`PodHash`).
* A pass that the server refuses to finish (a new template's selector) has already
  given the Service the selector of the new template, under which there is no pod:
  the Kode is out of reach until the edit is taken back.
* A route that is lost, or whose EntryPoint is deleted and made again, is not restored:
  the URL in the status has not changed. A route that exists keeps its host and its
  port when EntryPoint or template change, and the URL of a Kode published before a
  SecurityPolicy is added to its EntryPoint stays.
* A Kode of an https EntryPoint with a SecurityPolicy is Active and Failed in turn for
  ever; its route, made before the policy is tried, stays without one.
* After an update a Kode can be Active while its former pod runs.
* The role does not let the operator delete pods; the pod of a changed template is
  replaced by the StatefulSet controller or not at all.
* Routes are named after the Kode and live in the EntryPoint's namespace: Kodes of one
  name in two namespaces share one, and a backend without a namespace is looked for
  beside the route. The properties are about Kodes in the namespace of the EntryPoint.
* An EntryPoint without a gateway, a gateway reference or an EntryPoint reference without
  a namespace, and a storage without resources, are nil dereferences; controller-runtime
  turns the panic into an error and the reconcile is tried again.
* A template's port that is one the pod itself uses (3000, 9001, 9901) is not turned
  down.
* References to one cluster template with different namespaces are cached apart.

## Not modelled, and why

* The EntryPoint phase handlers (`states.go`, `entrypoint/cleanup.go`) and
  `handleUnknownState`: no code reaches them.
* Events, metrics, probes and logging: nothing reads them back.
* The rules behind the verdict on a spec (`pkg/validation`) and the string helpers:
  pure functions on strings.
* The wording of the sidecar's configuration beyond its listener, filters, route and
  clusters; timeouts and header rules.
* Charts, manifests, generated deep copies and registration: no program logic.
* Leader election: off by default.

## Plan

1. Done: status, cluster, Kode controller, EntryPoint controller, composition; the
   children field by field; templates and publication; the lifecycle as an abstract
   specification and the refinement.
2. Done: theorems for every safety and action property a passing run checks.
3. Still worth having: a theorem for the composition that names what its Kode still keeps
   of the lifecycle; `ActiveIsApplied` while children may be lost.
