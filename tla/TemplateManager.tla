---------------------------- MODULE TemplateManager ----------------------------
(***************************************************************************)
(* The template manager (internal/template/template.go).  Each controller  *)
(* has one, and with it a map of the templates it has fetched.  The workers*)
(* of a controller share the map without a lock, and nothing but the end of*)
(* the process removes an entry.                                           *)
(***************************************************************************)
EXTENDS Naturals

CONSTANTS
  Managers,       \* one per controller
  Workers,        \* the workers of all controllers
  ManagerOf,      \* the manager a worker asks
  Refs,           \* references to templates: [kind, namespace, name]
  TemplateSpecs,  \* what a template may say: [port, entryPoint]
  PointKeys,      \* [namespace, name] of EntryPoints
  PointSpecs,     \* what an EntryPoint may say
  Missing,        \* no such object, no reference, nothing cached
  Attempts        \* Steps of the backoff, 5 in the code

References == [kind : STRING, namespace : STRING, name : STRING]

ASSUME ManagersAssumption == ManagerOf \in [Workers -> Managers]
ASSUME RefsAssumption ==
  /\ Refs \subseteq References
  /\ PointKeys \subseteq [namespace : STRING \ {""}, name : STRING]
\* A template need not name an EntryPoint, and the name need not have a namespace.
PointRefs == [namespace : STRING, name : STRING] \cup {Missing}
ASSUME TemplatesAssumption ==
  TemplateSpecs \subseteq [port : Nat \ {0}, entryPoint : PointRefs]
ASSUME MissingAssumption ==
  Missing \notin Refs \cup PointKeys \cup PointSpecs \cup TemplateSpecs
ASSUME AttemptsAssumption == Attempts \in Nat \ {0}

VARIABLES
  stored,         \* the templates at the server
  points,         \* the EntryPoints at the server
  cache,          \* what each manager has fetched
  call            \* the call of Fetch each worker is in

templateVars == <<stored, points, cache, call>>

-----------------------------------------------------------------------------
(* Looking a template up at the server *)

\* A ClusterContainerTemplate is found by its name alone, whatever namespace the
\* reference gives; a ContainerTemplate always has a namespace.
ServerKey(ref) ==
  IF ref.kind = "ClusterContainerTemplate" THEN [ref EXCEPT !.namespace = ""] ELSE ref

Known(ref) ==
  \/ ref.kind = "ClusterContainerTemplate"
  \/ ref.kind = "ContainerTemplate" /\ ref.namespace # ""

TemplateAt(ref) == IF Known(ref) THEN stored[ServerKey(ref)] ELSE Missing

PointAt(key) == IF key \in PointKeys THEN points[key] ELSE Missing

\* Variant: the EntryPoint is looked for in the namespace of the reference.
EntryPointSpecInNamespace(template) ==
  IF template.entryPoint = Missing THEN Missing ELSE PointAt(template.entryPoint)

\* fecthEntryPoint asks for the name without the namespace.
EntryPointSpec(template) ==
  IF template.entryPoint = Missing THEN Missing
  ELSE PointAt([template.entryPoint EXCEPT !.namespace = ""])

\* The template as Fetch returns it.
Fetched(template) ==
  [port |-> template.port, entryPoint |-> template.entryPoint,
   entryPointSpec |-> EntryPointSpec(template)]

FetchedTemplates ==
  [port : Nat \ {0}, entryPoint : PointRefs,
   entryPointSpec : PointSpecs \cup {Missing}]

-----------------------------------------------------------------------------
(* A call of Fetch.  It ends in Return(w, template), the step the caller    *)
(* takes with it: at once for a template in the map, or after its attempts. *)

Idle == [pc |-> "idle", ref |-> Missing, tries |-> 0, got |-> Missing]

\* validateRef turns an incomplete reference down before anything else.
Complete(ref) == ref.kind # "" /\ ref.name # ""

\* Variant: the map is not looked at.
AtOnceNever(w, ref) == ~Complete(ref)

AtOnce(w, ref) == Complete(ref) => cache[ManagerOf[w]][ref] # Missing

Hit(w, ref) == IF Complete(ref) THEN cache[ManagerOf[w]][ref] ELSE Missing

BeginFetch(w, ref) ==
  /\ call[w] = Idle /\ ~AtOnce(w, ref)
  /\ call' = [call EXCEPT ![w] = [Idle EXCEPT !.ref = ref, !.pc = "attempt"]]
  /\ UNCHANGED <<stored, points, cache>>

\* An attempt that finds the template.
Attempt(w) ==
  /\ call[w].pc = "attempt" /\ TemplateAt(call[w].ref) # Missing
  /\ call' = [call EXCEPT ![w].pc = "storing", ![w].got = Fetched(TemplateAt(call[w].ref))]
  /\ UNCHANGED <<stored, points, cache>>

\* Variant: an error ends the call.
LastAttemptAny(w) == call[w].tries < Attempts

\* An error of any kind is tried again, a missing template's too:
\* TemplateNotFoundError is none that errors.IsNotFound knows.
LastAttempt(w) == call[w].tries + 1 = Attempts

AttemptAgain(w) ==
  /\ call[w].pc = "attempt" /\ ~LastAttempt(w)
  /\ call' = [call EXCEPT ![w].tries = @ + 1]
  /\ UNCHANGED <<stored, points, cache>>

\* The call is given up.
GiveUp(w) ==
  /\ call[w].pc = "attempt" /\ LastAttempt(w)
  /\ call' = [call EXCEPT ![w] = Idle]
  /\ UNCHANGED <<stored, points, cache>>

\* The write into the map, which another worker may be reading or writing: the
\* process may die of it ("concurrent map read and map write"), which is a Forgotten
\* like any other, or one of the two comes first.
Store(w) ==
  /\ call[w].pc = "storing"
  /\ cache' = [cache EXCEPT ![ManagerOf[w]][call[w].ref] = call[w].got]
  /\ call' = [call EXCEPT ![w] = Idle]
  /\ UNCHANGED <<stored, points>>

\* The process starts anew with empty maps.
Forgotten ==
  /\ cache' = [m \in Managers |-> [ref \in Refs |-> Missing]]
  /\ call' = [w \in Workers |-> Idle]
  /\ UNCHANGED <<stored, points>>

TemplateInit ==
  /\ stored \in [{ServerKey(ref) : ref \in Refs} -> TemplateSpecs]
  /\ points \in [PointKeys -> PointSpecs]
  /\ cache = [m \in Managers |-> [ref \in Refs |-> Missing]]
  /\ call = [w \in Workers |-> Idle]

\* What is cached and about to be cached are templates as Fetch makes them.
TemplateTypeOK ==
  /\ stored \in [{ServerKey(ref) : ref \in Refs} -> TemplateSpecs \cup {Missing}]
  /\ points \in [PointKeys -> PointSpecs \cup {Missing}]
  /\ cache \in [Managers -> [Refs -> FetchedTemplates \cup {Missing}]]
  /\ call \in [Workers ->
       [pc : {"idle", "attempt", "storing"},
        ref : Refs \cup {Missing}, tries : 0 .. Attempts - 1,
        got : FetchedTemplates \cup {Missing}]]
=============================================================================
