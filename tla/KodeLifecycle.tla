----------------------------- MODULE KodeLifecycle -----------------------------
(***************************************************************************)
(* The life of a Kode as its user sees it in metadata and status: what the *)
(* Kode controller promises, whatever it does in between.  The phases are  *)
(* those of api/v1alpha2/common_types.go; which follows which is spread    *)
(* over the handlers of internal/controllers/kode.                         *)
(*                                                                         *)
(* KodeController implements it (FollowsLifecycle there).                  *)
(***************************************************************************)
EXTENDS Integers

CONSTANT
  Fresh           \* whether no reconcile starts from an old copy of the Kode

VARIABLES
  alive,          \* the object exists
  owned,          \* it has the operator's finalizer
  requested,      \* its deletion has been asked for
  gen,            \* the generation of its spec
  obs,            \* the generation its status is about
  phase           \* the phase in its status, "" before the first

life == <<alive, owned, requested, gen, obs, phase>>

Working == {"Pending", "Configuring", "Provisioning", "Active", "Updating"}

\* What the handlers move to.  Only the EntryPoint controller fails a Kode, and a
\* reconcile that was under way then may still finish its update to Active.
Follows(p) ==
  CASE p = "Pending"      -> {"Configuring"}
    [] p = "Configuring"  -> {"Provisioning"}
    [] p = "Provisioning" -> {"Active"}
    [] p = "Active"       -> {"Updating", "Failed"}
    [] p = "Updating"     -> {"Active"}
    [] p = "Failed"       -> {"Pending", "Configuring", "Provisioning", "Active", "Updating"}
    [] OTHER              -> {}

Init ==
  /\ alive = TRUE /\ owned = FALSE /\ requested = FALSE
  /\ gen = 1 /\ obs = 0 /\ phase = ""

\* The user edits the spec.
Edit ==
  /\ alive /\ gen' = gen + 1
  /\ UNCHANGED <<alive, owned, requested, obs, phase>>

\* The user deletes a Kode the operator has not taken on yet: it goes at once,
\* without ever having had a phase.
Vanish ==
  /\ alive /\ ~owned /\ phase = ""
  /\ alive' = FALSE
  /\ UNCHANGED <<owned, requested, gen, obs, phase>>

\* The user deletes one the operator has taken on.
Request ==
  /\ alive /\ owned /\ ~requested
  /\ requested' = TRUE /\ gen' = gen + 1
  /\ UNCHANGED <<alive, owned, obs, phase>>

\* The operator takes the Kode on before it writes any status.
Adopt ==
  /\ alive /\ ~owned /\ ~requested /\ phase = ""
  /\ owned' = TRUE
  /\ UNCHANGED <<alive, requested, gen, obs, phase>>

OnlyPhase == alive /\ owned /\ UNCHANGED <<alive, owned, requested, gen>>

\* A new generation is observed: it starts the Kode, or makes it Updating.
Observe ==
  /\ OnlyPhase
  /\ obs' \in obs + 1 .. gen
  /\ phase' \in CASE phase = ""         -> {"Pending", "Updating"}
                  [] phase = "Deleting" -> {"Deleting"}
                  [] OTHER              -> {"Updating"}

Move ==
  /\ OnlyPhase
  /\ phase' \in Follows(phase)
  /\ UNCHANGED obs

\* The operator begins to take the Kode down, once it has been asked to.
Mark ==
  /\ OnlyPhase /\ requested
  /\ phase # "Deleting" /\ phase' = "Deleting"
  /\ UNCHANGED obs

\* A copy that was old writes back what the Kode was: any phase may follow any other,
\* and even the observed generation may fall back.  But it never gives a Kode back the
\* empty phase, takes none out of Deleting, and puts none there unasked.
Rewrite ==
  /\ ~Fresh /\ OnlyPhase
  /\ obs' \in 0 .. gen
  /\ \/ phase' \in Working \cup {"Failed"} /\ phase # "Deleting"
     \/ UNCHANGED phase
     \/ requested /\ phase' = "Deleting"

\* The finalizer is removed only from a Kode that shows that it is being deleted.
Release ==
  /\ alive /\ owned /\ requested /\ phase = "Deleting"
  /\ alive' = FALSE /\ owned' = FALSE
  /\ UNCHANGED <<requested, gen, obs, phase>>

Next ==
  \/ Edit \/ Vanish \/ Request
  \/ Adopt \/ Observe \/ Move \/ Mark \/ Rewrite \/ Release

Spec == Init /\ [][Next]_life
=============================================================================
