------------------------- MODULE EntryPointController -------------------------
(***************************************************************************)
(* The EntryPoint controller as far as it concerns a Kode: reconcileKode   *)
(* (internal/controllers/entrypoint/reconciler.go).  It watches the same   *)
(* Kodes, and once one is Active it creates an HTTPRoute and publishes the *)
(* URL in the Kode's status, the very status the Kode controller writes.   *)
(***************************************************************************)
EXTENDS KodeCluster

CONSTANT EPOutcomes  \* what looking for the EntryPoint of the template yields

\* error: the template names no EntryPoint, cannot be fetched, or its routing
\* type is unknown.
ASSUME OutcomeAssumption == EPOutcomes \subseteq {"found", "notfound", "error"}

VARIABLES
  epc,            \* the next step of the reconcile, "idle" between two
  est,            \* the copy of the Kode's status it works on
  route           \* whether the HTTPRoute of the Kode exists

epVars == <<epc, est, route>>

\* The copy of the EntryPoint controller is a status, too.
EPTypeOK ==
  /\ epc \in {"idle", "find", "route", "ensured", "publish", "fail"}
  /\ est \in Status
  /\ route \in BOOLEAN

EPInit == epc = "idle" /\ est = EmptyStatus /\ route = FALSE

EPGoto(step, s) == epc' = step /\ est' = s /\ UNCHANGED queue

EPForget == epc' = "idle" /\ est' = EmptyStatus

EPFinish(requeue) ==
  /\ EPForget
  /\ queue' = IF requeue THEN queue \cup {"entrypoint"} ELSE queue

EPOnlyStatus == UNCHANGED <<kode, cacheVars, childVars, flaps, route>>

-----------------------------------------------------------------------------
\* Only Active Kodes are reconciled; any other waits for its next event.
EPSkip ==
  /\ epc = "idle" /\ "entrypoint" \in queue
  /\ ~cacheKode.exists \/ cacheStatus.phase # "Active"
  /\ queue' = queue \ {"entrypoint"}
  /\ UNCHANGED <<objVars, cacheVars, childVars, faults, flaps, epVars>>

EPStart ==
  /\ epc = "idle" /\ "entrypoint" \in queue
  /\ cacheKode.exists /\ cacheStatus.phase = "Active"
  /\ FreshReads => Synced
  /\ queue' = queue \ {"entrypoint"}
  /\ epc' = "find" /\ est' = cacheStatus
  /\ UNCHANGED <<objVars, cacheVars, childVars, faults, flaps, route>>

\* A missing EntryPoint is waited for; any other failure fails the Kode.  A
\* Kode whose URL is already published is left alone.
FindEntryPoint ==
  /\ epc = "find" /\ EPOnlyStatus /\ UNCHANGED <<status, faults>>
  /\ \/ "notfound" \in EPOutcomes /\ EPFinish(TRUE)
     \/ "error" \in EPOutcomes /\ EPGoto("fail", est)
     \/ "found" \in EPOutcomes /\ est.url /\ EPFinish(FALSE)
     \/ "found" \in EPOutcomes /\ ~est.url /\ est.port = 0 /\ EPFinish(TRUE)
     \/ "found" \in EPOutcomes /\ ~est.url /\ est.port # 0 /\ EPGoto("route", est)

\* Variant: the error is logged and forgotten.
EnsureRouteAnyway ==
  /\ epc = "route" /\ UNCHANGED <<objVars, cacheVars, childVars, flaps>>
  /\ EPGoto("ensured", est)
  /\ \/ route' = TRUE /\ UNCHANGED faults
     \/ Fault("ensure") /\ UNCHANGED route

EnsureRoute ==
  /\ epc = "route" /\ UNCHANGED <<objVars, cacheVars, childVars, flaps>>
  /\ \/ route' = TRUE /\ UNCHANGED faults /\ EPGoto("ensured", est)
     \/ Fault("ensure") /\ UNCHANGED route /\ EPGoto("fail", est)

\* Variant: the reconcile ends with the conditions.
DeclareReadyOnly ==
  /\ epc = "ensured" /\ EPOnlyStatus
  /\ LET s == Serving(est) IN Save(s, EPFinish(FALSE), EPGoto("fail", s))

\* ensureHTTPRoutes declares the Kode ready before it returns.
DeclareReady ==
  /\ epc = "ensured" /\ EPOnlyStatus
  /\ LET s == Serving(est) IN Save(s, EPGoto("publish", s), EPGoto("fail", s))

PublishUrl ==
  /\ epc = "publish" /\ EPOnlyStatus
  /\ Save([est EXCEPT !.url = TRUE, !.conds.avail = "True"],
          EPFinish(FALSE), EPFinish(TRUE))

\* Variant: a phase nothing handles.
FailKodeUnknown ==
  /\ epc = "fail" /\ EPOnlyStatus
  /\ Save([est EXCEPT !.phase = "Unknown", !.err = TRUE], EPFinish(TRUE), EPFinish(TRUE))

\* The Kode is put into Failed from outside its own state machine.
FailKode ==
  /\ epc = "fail" /\ EPOnlyStatus
  /\ Save([est EXCEPT !.phase = "Failed", !.err = TRUE, !.conds.error = "True"],
          EPFinish(TRUE), EPFinish(TRUE))

EPReconcile ==
  \/ EPSkip \/ EPStart \/ FindEntryPoint \/ EnsureRoute
  \/ DeclareReady \/ PublishUrl \/ FailKode
=============================================================================
