------------------------------ MODULE KodeCluster ------------------------------
(***************************************************************************)
(* What the operator shares with the cluster: one Kode object and its      *)
(* status at the API server, the informer's copy of both, the children the *)
(* Kode owns, the informers' view of them, the pod, and the work queues.   *)
(* The actions here belong to the user, the API server, the informers and  *)
(* the built-in controllers; the operator's own steps are in the modules   *)
(* that extend this one.                                                   *)
(***************************************************************************)
EXTENDS KodeStatus, FiniteSets

CONSTANTS
  Specs,          \* the specs a user may submit
  Creds, Pods, Sizes, Templates, \* what the fields of a spec range over
  TPort,          \* the port a template exposes
  NoChild,        \* no child object, no running pod
  Kinds,          \* the kinds of child followed
  MaxGen,         \* bound: the generation up to which the user edits the spec
  FaultyCalls,    \* the calls that may fail
  MaxFaults,      \* bound: failing calls and crashes in a behaviour
  Drifts,         \* what may go wrong by itself: "pods", a "child", the "entrypoint"
  MaxFlaps,       \* bound: such events in a behaviour
  ChildLag,       \* whether the informers of the children lag behind
  FreshReads      \* whether a reconcile finds the Kode's informer caught up

\* keep: keepVolume set; existing: existingVolumeClaim set.
StorageModes == {"none", "managed", "keep", "existing"}
AllKinds == {"secret", "service", "statefulset", "pvc"}
AllCalls == {"status", "finalizer", "template", "read", "ensure", "delete", "crash"}

\* cred: what the Secret holds; pod: what the pod template is built from;
\* valid: whether ValidateKode accepts the spec.
SpecRecord == [cred : Creds, pod : Pods, size : Sizes, storage : StorageModes,
               template : Templates, valid : BOOLEAN]

ASSUME SpecsAssumption  == Specs \subseteq SpecRecord /\ Specs # {}
ASSUME ChildAssumption  == NoChild \notin SpecRecord
ASSUME PortAssumption   == TPort \in [Templates -> Nat \ {0}]
ASSUME KindAssumption   == Kinds \subseteq AllKinds /\ "statefulset" \in Kinds
ASSUME BoundsAssumption == MaxGen \in Nat \ {0} /\ MaxFaults \in Nat /\ MaxFlaps \in Nat
ASSUME FaultAssumption  == /\ FaultyCalls \subseteq AllCalls
                           /\ Drifts \subseteq {"pods", "child", "entrypoint"}
                           /\ ChildLag \in BOOLEAN /\ FreshReads \in BOOLEAN

VARIABLES
  kode,           \* the Kode's metadata and spec at the API server
  status,         \* its status subresource
  cacheKode, cacheStatus, \* both, as the informer last saw them
  kids,           \* child -> the spec it was built from, or NoChild
  seen,           \* kids, as the informers last saw them
  terminating,    \* children whose deletion has been accepted
  running,        \* what the ready pod was built from, or NoChild
  queue,          \* the controllers that have the Kode in their work queue
  faults, flaps   \* how many faults and drifts have happened

objVars     == <<kode, status>>
cacheVars   == <<cacheKode, cacheStatus>>
childVars   == <<kids, seen, terminating, running>>
clusterVars == <<kode, status, cacheKode, cacheStatus, kids, seen, terminating,
                 running, queue, faults, flaps>>

Controllers == {"kode", "entrypoint"}
Meta == [exists : BOOLEAN, deleting : BOOLEAN, fin : BOOLEAN,
         gen : Nat, spec : SpecRecord]
Child == SpecRecord \cup {NoChild}

\* What the API server, the informers and the queues hold.
ClusterTypeOK ==
  /\ kode \in Meta /\ cacheKode \in Meta
  /\ status \in Status /\ cacheStatus \in Status
  /\ kids \in [Kinds -> Child] /\ seen \in [Kinds -> Child]
  /\ terminating \subseteq Kinds
  /\ running \in Child
  /\ queue \subseteq Controllers
  /\ faults \in Nat /\ flaps \in Nat

\* A Kode has just been created; no informer has seen it yet.
ClusterInit ==
  /\ \E s \in Specs :
       /\ kode = [exists |-> TRUE, deleting |-> FALSE, fin |-> FALSE, gen |-> 1, spec |-> s]
       /\ cacheKode = [exists |-> FALSE, deleting |-> FALSE, fin |-> FALSE, gen |-> 1, spec |-> s]
  /\ status = EmptyStatus /\ cacheStatus = EmptyStatus
  /\ kids = [kind \in Kinds |-> NoChild] /\ seen = kids
  /\ terminating = {} /\ running = NoChild
  /\ queue = {} /\ faults = 0 /\ flaps = 0

-----------------------------------------------------------------------------
(* What a spec asks for *)

OwnsClaim(spec) == spec.storage \in {"managed", "keep"}

Wanted(spec) == {kind \in Kinds : kind = "pvc" => OwnsClaim(spec)}

\* The part of a spec that change detection compares for a kind of child.
Aspect(kind, spec) ==
  CASE kind = "secret"      -> spec.cred
    [] kind = "service"     -> spec.template
    [] kind = "statefulset" -> <<spec.template, spec.pod, spec.storage # "none">>
    [] kind = "pvc"         -> spec.size

Matches(view, kind, spec) ==
  /\ view[kind] # NoChild
  /\ Aspect(kind, view[kind]) = Aspect(kind, spec)

Applied(view, spec) == \A kind \in Wanted(spec) : Matches(view, kind, spec)

-----------------------------------------------------------------------------
(* The user *)

EditSpec(s) ==
  /\ kode.exists /\ kode.gen < MaxGen /\ s # kode.spec
  /\ kode' = [kode EXCEPT !.spec = s, !.gen = @ + 1]
  /\ UNCHANGED <<status, cacheVars, childVars, queue, faults, flaps>>

\* Without a finalizer the object goes at once; with one it stays, marked,
\* and the mark counts as a new generation.
DeleteKode ==
  /\ kode.exists /\ ~kode.deleting
  /\ kode' = IF kode.fin THEN [kode EXCEPT !.deleting = TRUE, !.gen = @ + 1]
                         ELSE [kode EXCEPT !.exists = FALSE]
  /\ UNCHANGED <<status, cacheVars, childVars, queue, faults, flaps>>

-----------------------------------------------------------------------------
(* The informers *)

Synced == cacheKode = kode /\ cacheStatus = status

\* The informer catches up with the server; every watch of Kodes enqueues it.
SyncKode ==
  /\ ~Synced
  /\ cacheKode' = kode /\ cacheStatus' = status
  /\ queue' = Controllers
  /\ UNCHANGED <<objVars, childVars, faults, flaps>>

\* Nothing watches the children: their informers only refresh the cache.
SyncChild(kind) ==
  /\ seen[kind] # kids[kind]
  /\ seen' = [seen EXCEPT ![kind] = kids[kind]]
  /\ UNCHANGED <<objVars, cacheVars, kids, terminating, running, queue, faults, flaps>>

-----------------------------------------------------------------------------
(* The built-in controllers *)

\* The children as they become, with the informers in step unless they lag.
WriteKids(new) == kids' = new /\ seen' = IF ChildLag THEN seen ELSE new

PodStart ==
  /\ running = NoChild
  /\ kids["statefulset"] # NoChild /\ "statefulset" \notin terminating
  /\ OwnsClaim(kids["statefulset"]) /\ "pvc" \in Kinds => kids["pvc"] # NoChild
  /\ running' = kids["statefulset"]
  /\ UNCHANGED <<objVars, cacheVars, kids, seen, terminating, queue, faults, flaps>>

\* The pod of a changed or deleted StatefulSet goes before a new one comes.
PodStop ==
  /\ running # NoChild
  /\ Matches(kids, "statefulset", running) => "statefulset" \in terminating
  /\ running' = NoChild
  /\ UNCHANGED <<objVars, cacheVars, kids, seen, terminating, queue, faults, flaps>>

PodFails ==
  /\ "pods" \in Drifts /\ flaps < MaxFlaps /\ running # NoChild
  /\ running' = NoChild /\ flaps' = flaps + 1
  /\ UNCHANGED <<objVars, cacheVars, kids, seen, terminating, queue, faults>>

\* Somebody else deletes a child, and it is gone at once.
LoseChild(kind) ==
  /\ "child" \in Drifts /\ flaps < MaxFlaps /\ kids[kind] # NoChild
  /\ kind = "pvc" => running = NoChild
  /\ WriteKids([kids EXCEPT ![kind] = NoChild])
  /\ terminating' = terminating \ {kind}
  /\ flaps' = flaps + 1
  /\ UNCHANGED <<objVars, cacheVars, running, queue, faults>>

\* A claim a pod uses outlives its deletion until the pod is gone.
FinishDelete(kind) ==
  /\ kind \in terminating
  /\ kind = "pvc" => running = NoChild
  /\ WriteKids([kids EXCEPT ![kind] = NoChild])
  /\ terminating' = terminating \ {kind}
  /\ UNCHANGED <<objVars, cacheVars, running, queue, faults, flaps>>

\* Every child carries a controller reference to its Kode.
GarbageCollect(kind) ==
  /\ ~kode.exists /\ kids[kind] # NoChild /\ kind \notin terminating
  /\ terminating' = terminating \cup {kind}
  /\ UNCHANGED <<objVars, cacheVars, kids, seen, running, queue, faults, flaps>>

-----------------------------------------------------------------------------
(* The EntryPoint controller, as the Kode controller meets it where it is not *)
(* modelled itself: it fails an Active Kode it finds no EntryPoint for.  What *)
(* its older copies do is in module Operator.                                 *)

EntryPointFails ==
  /\ "entrypoint" \in Drifts /\ flaps < MaxFlaps
  /\ kode.exists /\ Synced /\ status.phase = "Active"
  /\ status' = [status EXCEPT !.phase = "Failed", !.err = TRUE, !.conds.error = "True"]
  /\ flaps' = flaps + 1
  /\ UNCHANGED <<kode, cacheVars, childVars, queue, faults>>

Environment ==
  \/ \E s \in Specs : EditSpec(s)
  \/ DeleteKode
  \/ SyncKode
  \/ PodStart \/ PodStop \/ PodFails \/ EntryPointFails
  \/ \E kind \in Kinds :
       SyncChild(kind) \/ LoseChild(kind) \/ FinishDelete(kind) \/ GarbageCollect(kind)

-----------------------------------------------------------------------------
(* Calls the controllers make *)

\* One more call of this class fails.
Fault(call) == call \in FaultyCalls /\ faults < MaxFaults /\ faults' = faults + 1

\* UpdateStatus: a cached Get (a Kode the cache lacks ends the call without an
\* error), then the patch, which fails when the server no longer has the Kode.
Save(wanted, ok, failed) ==
  \/ /\ cacheKode.exists /\ kode.exists
     /\ status' \in MergePatch(cacheStatus, wanted, status)
     /\ UNCHANGED faults /\ ok
  \/ /\ ~cacheKode.exists
     /\ UNCHANGED <<status, faults>> /\ ok
  \/ /\ cacheKode.exists
     /\ IF kode.exists THEN Fault("status") ELSE UNCHANGED faults
     /\ UNCHANGED status /\ failed
=============================================================================
