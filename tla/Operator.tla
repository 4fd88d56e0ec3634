-------------------------------- MODULE Operator --------------------------------
(***************************************************************************)
(* The manager process of cmd/main.go: both controllers, each with one     *)
(* worker on the Kode, sharing the informer caches and going down          *)
(* together.                                                               *)
(***************************************************************************)
EXTENDS KodeController, EntryPointController

opVars == <<vars, epVars>>

\* Neither controller ever leaves the other a status without its type: every
\* merge of two whole copies is a status with a phase that has a handler.
OpTypeOK == TypeOK /\ EPTypeOK

OpInit == Init /\ EPInit

OpCrash ==
  /\ pc # "idle" \/ epc # "idle"
  /\ Fault("crash") /\ Restart
  /\ Forget /\ EPForget /\ UNCHANGED route

OpNext ==
  \/ Reconcile /\ UNCHANGED epVars
  \/ EPReconcile /\ UNCHANGED localVars
  \/ OpCrash
  \/ Environment /\ UNCHANGED <<localVars, epVars>>

OpSpec == OpInit /\ [][OpNext]_opVars

OpFairness ==
  /\ WF_opVars(Reconcile /\ UNCHANGED epVars)
  /\ WF_opVars(EPReconcile /\ UNCHANGED localVars)
  /\ WF_opVars(SyncKode /\ UNCHANGED <<localVars, epVars>>)
  /\ WF_opVars(PodStart /\ UNCHANGED <<localVars, epVars>>)
  /\ WF_opVars(PodStop /\ UNCHANGED <<localVars, epVars>>)
  /\ \A kind \in Kinds :
       /\ WF_opVars(SyncChild(kind) /\ UNCHANGED <<localVars, epVars>>)
       /\ WF_opVars(FinishDelete(kind) /\ UNCHANGED <<localVars, epVars>>)

OpFairSpec == OpSpec /\ OpFairness

\* As in TimelySpec: now and then the informer is faster than RemoveFinalizer.
OpTimelySpec ==
  OpFairSpec
    /\ SF_opVars(SyncKode /\ pc = "removeFinalizer" /\ UNCHANGED <<localVars, epVars>>)

-----------------------------------------------------------------------------
(* Safety *)

\* A published URL is served: whatever copy of the status a controller writes
\* back, the URL is never there without the HTTPRoute it stands for.
UrlHasRoute == status.url => route

\* handleFailedState stops counting at maxRetries, and no stale copy of the
\* status takes the counter past it.
RetriesBounded == status.retry <= MaxRetries

-----------------------------------------------------------------------------
(* Liveness *)

\* Failed is not the end: once the errors stop, handleFailedState brings the
\* Kode back to Active, whatever the retry counter has been through.
Recovers ==
  status.phase = "Failed" ~> (status.phase = "Active" \/ kode.deleting \/ ~kode.exists)

\* However often the Kode controller's older copies wipe it out, the URL of a
\* Kode whose template names an EntryPoint is published again.
PublishesAgain == []<>(status.url \/ kode.deleting \/ ~kode.exists)

=============================================================================
