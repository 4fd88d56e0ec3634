------------------------------ MODULE KodeStatus ------------------------------
(***************************************************************************)
(* The status subresource of a Kode, as api/v1alpha2/kode_types.go and     *)
(* common_types.go declare it, and the two operations every part of the    *)
(* operator performs on it: setting conditions on a local copy, and saving *)
(* the local copy as a JSON merge patch computed against the cached Kode.  *)
(*                                                                         *)
(* Kept of the status: the phase, the observed generation, the retry and   *)
(* deletion counters, whether LastError is set, the status of the four     *)
(* condition types, the port and whether the URL is published.  Reasons,   *)
(* messages, timestamps, the icon and the runtime are left out.            *)
(***************************************************************************)
EXTENDS Integers

NoPhase == ""

\* The phases that have a handler and that some step of the operator writes.
Phases == {"Pending", "Configuring", "Provisioning", "Active",
           "Updating", "Deleting", "Failed"}

\* "none" is a condition type that is absent from the list.
ConditionStatus == {"none", "True", "False"}

Conditions == [ready : ConditionStatus, avail : ConditionStatus,
               prog  : ConditionStatus, error : ConditionStatus]

Status == [phase : Phases \cup {NoPhase},
           obs   : Nat,                     \* ObservedGeneration
           retry : Nat,                     \* RetryCount
           cycle : Nat,                     \* DeletionCycle
           err   : BOOLEAN,                 \* LastError # nil
           conds : Conditions,
           port  : Nat,                     \* KodePort, 0 when not set
           url   : BOOLEAN]                 \* KodeUrl # ""

EmptyStatus ==
  [phase |-> NoPhase, obs |-> 0, retry |-> 0, cycle |-> 0, err |-> FALSE,
   conds |-> [ready |-> "none", avail |-> "none", prog |-> "none", error |-> "none"],
   port  |-> 0, url |-> FALSE]

-----------------------------------------------------------------------------
(* Changes to a local copy *)

WithConditions(s, ready, avail, prog) ==
  [s EXCEPT !.conds = [ready |-> ready, avail |-> avail, prog |-> prog,
                       error |-> s.conds.error]]

\* Not ready, work going on: Pending, Configuring, Provisioning, Deleting, ...
Progressing(s) == WithConditions(s, "False", "False", "True")

\* Everything is up and nothing is going on.
Serving(s) == WithConditions(s, "True", "True", "False")

\* Variant: the phase the handler returns beside the error, mistyped, is kept.
ErroredUnknown(s) ==
  [WithConditions(s, "False", "False", "False") EXCEPT !.err = TRUE, !.phase = "Unknown"]

\* What handleReconcileError records before it hands the error back.
Errored(s) == [WithConditions(s, "False", "False", "False") EXCEPT !.err = TRUE]

\* Variant: a deletion is treated like any other change.
MismatchedAlways(s, gen) ==
  [Progressing(s) EXCEPT !.phase = "Updating", !.obs = gen]

\* Variant: the conditions are left to the handler of Updating.
MismatchedBare(s, gen) ==
  [s EXCEPT !.obs = gen, !.phase = IF @ = "Deleting" THEN @ ELSE "Updating"]

\* handleGenerationMismatch: the new generation counts as observed at once.
Mismatched(s, gen) ==
  LET observed == [s EXCEPT !.obs = gen]
  IN  IF s.phase = "Deleting" THEN observed
      ELSE [Progressing(observed) EXCEPT !.phase = "Updating"]

-----------------------------------------------------------------------------
(* UpdateStatus sends the difference between the cached status and the     *)
(* wanted one, and the server applies it to whatever it holds: a field the *)
(* cache already shows as wanted is not sent, so what the server holds     *)
(* there survives.  The condition list is one field of the patch.  The     *)
(* list and the last error carry time stamps, which the model leaves out:  *)
(* two that look alike may still differ, so whether they are sent is open. *)

Pick(cached, wanted, current) == IF wanted # cached THEN wanted ELSE current

MergePatch(cached, wanted, current) ==
  {[phase |-> Pick(cached.phase, wanted.phase, current.phase),
    obs   |-> Pick(cached.obs,   wanted.obs,   current.obs),
    retry |-> Pick(cached.retry, wanted.retry, current.retry),
    cycle |-> Pick(cached.cycle, wanted.cycle, current.cycle),
    err   |-> e,
    conds |-> c,
    port  |-> Pick(cached.port,  wanted.port,  current.port),
    url   |-> Pick(cached.url,   wanted.url,   current.url)] :
   e \in {Pick(cached.err, wanted.err, current.err), wanted.err \/ current.err},
   c \in {Pick(cached.conds, wanted.conds, current.conds), wanted.conds}}
=============================================================================
