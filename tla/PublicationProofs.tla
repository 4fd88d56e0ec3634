--------------------------- MODULE PublicationProofs ---------------------------
(***************************************************************************)
(* Publication, for every number of workers, controllers, references and   *)
(* attempts, every set of Kodes, templates and EntryPoints, and every      *)
(* history of edits, failures and restarts.                                *)
(*                                                                         *)
(* First, what the template manager hands out: it never knows an           *)
(* EntryPoint, and what has settled in its map stays there.  Every step of *)
(* Publication is one of the template manager, a change of the server's    *)
(* objects, or leaves the two alone (TemplateStep); so these proofs speak  *)
(* of seven steps and not of twenty.                                       *)
(*                                                                         *)
(* Then, what is published: routes lead where the URLs say, EntryPoints    *)
(* with a policy publish nothing, hosts stay apart.  PubInv relates a URL  *)
(* to the way it was published: the job that published it had seen the     *)
(* EntryPoint, made its route and wanted no policy, and its port was the   *)
(* only one there was.                                                     *)
(*                                                                         *)
(* Last, how a fetch fails: not by one call to the server that fails.      *)
(***************************************************************************)
EXTENDS Publication, TLAPS

Keys == {ServerKey(ref) : ref \in Refs}
Calls == [pc : {"idle", "attempt", "storing"}, ref : Refs \cup {Missing},
          tries : 0 .. Attempts - 1, got : FetchedTemplates \cup {Missing}]

\* No template that is cached or on its way there knows its EntryPoint.
Unfound(template) == template.entryPointSpec = Missing
\* A worker that is in a call has been given a reference.
CallFits(c) ==
  (c.pc # "idle" => c.ref \in Refs) /\ (c.pc = "storing" => Unfound(c.got))
FoundNone ==
  /\ \A m \in Managers, ref \in Refs : cache[m][ref] # Missing => Unfound(cache[m][ref])
  /\ \A w \in Workers : CallFits(call[w])

TemplateInv == TemplateTypeOK /\ FoundNone

\* The server's objects change, a template or an EntryPoint at a time.
ServerChanges ==
  /\ UNCHANGED <<cache, call>>
  /\ \/ \E key \in Keys, spec \in TemplateSpecs \cup {Missing} :
          stored' = [stored EXCEPT ![key] = spec] /\ UNCHANGED points
     \/ \E key \in PointKeys, spec \in PointSpecs \cup {Missing} :
          points' = [points EXCEPT ![key] = spec] /\ UNCHANGED stored

TemplateStep ==
  \/ UNCHANGED templateVars
  \/ \E w \in Workers : Attempt(w) \/ AttemptAgain(w) \/ GiveUp(w) \/ Store(w)
  \/ \E w \in Workers, ref \in Refs : BeginFetch(w, ref)
  \/ Forgotten /\ "restart" \in happened' \ happened
  \/ ServerChanges

-----------------------------------------------------------------------------
(* The steps of Publication as steps of the template manager *)

\* The workers of both controllers are workers, and a Kode has a reference.
LEMMA WorkersAndRefs ==
  KodeWorkers \subseteq Workers /\ EPWorker \in Workers /\ \A kode \in Kodes : kode.ref \in Refs
BY WorkersAssumption, KodesAssumption

\* The fetches of the two controllers are the template manager's.
LEMMA FetchSteps ==
  ASSUME \/ \E w \in Workers : FetchAttempt(w) \/ FetchAgain(w)
         \/ \E w \in KodeWorkers : KodeStore(w) \/ KodeGivesUp(w)
         \/ EPStore \/ EPGivesUp
  PROVE  \E w \in Workers : Attempt(w) \/ AttemptAgain(w) \/ GiveUp(w) \/ Store(w)
BY WorkersAndRefs DEF FetchAttempt, FetchAgain, KodeStore, KodeGivesUp, EPStore, EPGivesUp

\* The reconciles that find their template in the map, and the routes, leave it alone.
LEMMA OtherSteps ==
  ASSUME \/ \E w \in KodeWorkers, kode \in Kodes : KodeReconcile(w, kode)
         \/ \E kode \in Kodes : EPSkip(kode) \/ EPReconcile(kode)
         \/ EnsureRoute \/ EnsurePolicy \/ Publish \/ LoseRoute
  PROVE  UNCHANGED templateVars
BY DEF KodeReconcile, EPSkip, EPReconcile, EnsureRoute, EnsurePolicy, Publish, LoseRoute

\* Every step is one of these.
LEMMA NextTemplateStep == ASSUME TemplateTypeOK, [Next]_vars PROVE TemplateStep
<1>1. CASE UNCHANGED vars
  BY <1>1 DEF vars, TemplateStep
<1>2. CASE \/ \E w \in Workers : FetchAttempt(w) \/ FetchAgain(w)
           \/ \E w \in KodeWorkers : KodeStore(w) \/ KodeGivesUp(w)
           \/ EPStore \/ EPGivesUp
  BY <1>2, FetchSteps DEF TemplateStep
<1>3. CASE \/ \E w \in KodeWorkers, kode \in Kodes : KodeReconcile(w, kode)
           \/ \E kode \in Kodes : EPSkip(kode) \/ EPReconcile(kode)
           \/ EnsureRoute \/ EnsurePolicy \/ Publish \/ LoseRoute
  BY <1>3, OtherSteps DEF TemplateStep
<1>4. CASE \/ \E w \in KodeWorkers, kode \in Kodes : KodeFetch(w, kode)
           \/ \E kode \in Kodes : EPFetch(kode)
  <2>1. \E w \in Workers, ref \in Refs : BeginFetch(w, ref)
    BY <1>4, WorkersAndRefs DEF KodeFetch, EPFetch
  <2> QED BY <2>1 DEF TemplateStep
<1>5. CASE Restart
  BY <1>5 DEF Restart, Happens, TemplateStep
<1>6. CASE EditTemplate \/ EditPoint
  BY <1>6 DEF EditTemplate, EditPoint, ServerChanges, TemplateStep, TemplateTypeOK, Keys
<1> QED BY <1>1, <1>2, <1>3, <1>4, <1>5, <1>6 DEF Next

-----------------------------------------------------------------------------
(* What the template manager hands out *)

\* An EntryPoint is looked for under a key no EntryPoint has.
LEMMA FetchedUnfound ==
  ASSUME NEW template \in TemplateSpecs, TemplateTypeOK
  PROVE  Fetched(template) \in FetchedTemplates /\ Unfound(Fetched(template))
<1>1. template \in [port : Nat \ {0}, entryPoint : PointRefs]
  BY TemplatesAssumption
<1>2. template.entryPoint # Missing =>
        [template.entryPoint EXCEPT !.namespace = ""] \notin PointKeys
  <2> SUFFICES ASSUME template.entryPoint # Missing
               PROVE  [template.entryPoint EXCEPT !.namespace = ""] \notin PointKeys
    OBVIOUS
  <2>1. template.entryPoint \in [namespace : STRING, name : STRING]
    BY <1>1 DEF PointRefs
  <2>2. [template.entryPoint EXCEPT !.namespace = ""].namespace = ""
    BY <2>1
  <2>3. \A key \in PointKeys : key.namespace # ""
    BY RefsAssumption
  <2> QED BY <2>2, <2>3
<1>3. EntryPointSpec(template) = Missing
  BY <1>2 DEF EntryPointSpec, PointAt
<1> QED BY <1>1, <1>3 DEF Fetched, FetchedTemplates, Unfound

\* A template that is there is one.
LEMMA TemplateThere ==
  ASSUME NEW ref \in Refs, TemplateTypeOK, TemplateAt(ref) # Missing
  PROVE  TemplateAt(ref) \in TemplateSpecs
BY DEF TemplateAt, TemplateTypeOK

\* A call begins with no failed attempt.
LEMMA NoTries == 0 \in 0 .. Attempts - 1
BY AttemptsAssumption

\* A worker between two calls.
LEMMA IdleFits == Idle \in Calls /\ CallFits(Idle)
BY NoTries DEF Idle, Calls, CallFits

\* The calls keep their types, and what they found knows no EntryPoint.
LEMMA CallStep ==
  ASSUME TemplateInv, NEW w \in Workers,
         \/ Attempt(w) \/ AttemptAgain(w) \/ GiveUp(w)
         \/ \E ref \in Refs : BeginFetch(w, ref)
  PROVE  TemplateInv'
<1>1. UNCHANGED <<stored, points, cache>>
  BY DEF Attempt, AttemptAgain, GiveUp, BeginFetch
<1>2. call \in [Workers -> Calls] /\ call[w] \in Calls
  BY DEF TemplateInv, TemplateTypeOK, Calls
<1>3. \E c \in Calls : call' = [call EXCEPT ![w] = c] /\ CallFits(c)
  <2>1. CASE Attempt(w)
    <3> DEFINE template == TemplateAt(call[w].ref)
               c == [call[w] EXCEPT !.pc = "storing", !.got = Fetched(template)]
    <3>1. call' = [call EXCEPT ![w] = c] /\ template # Missing
      BY <2>1, <1>2 DEF Attempt, Calls
    <3>2. call[w].ref \in Refs
      BY <2>1 DEF Attempt, TemplateInv, FoundNone, CallFits
    <3>3. Fetched(template) \in FetchedTemplates /\ Unfound(Fetched(template))
      BY <3>1, <3>2, TemplateThere, FetchedUnfound DEF TemplateInv
    <3>4. c \in Calls /\ CallFits(c)
      BY <1>2, <3>2, <3>3 DEF Calls, CallFits
    <3> HIDE DEF c, template
    <3> QED BY <3>1, <3>4
  <2>2. CASE AttemptAgain(w)
    <3> DEFINE c == [call[w] EXCEPT !.tries = @ + 1]
    <3>1. call' = [call EXCEPT ![w] = c] /\ c \in Calls
      BY <2>2, <1>2, AttemptsAssumption DEF AttemptAgain, LastAttempt, Calls
    <3>2. CallFits(c)
      BY <2>2, <1>2 DEF AttemptAgain, TemplateInv, FoundNone, CallFits, Calls
    <3> HIDE DEF c
    <3> QED BY <3>1, <3>2
  <2>3. CASE GiveUp(w)
    BY <2>3, IdleFits DEF GiveUp
  <2>4. CASE \E ref \in Refs : BeginFetch(w, ref)
    <3>1. PICK ref \in Refs : BeginFetch(w, ref)
      BY <2>4
    <3> DEFINE c == [Idle EXCEPT !.ref = ref, !.pc = "attempt"]
    <3>2. call' = [call EXCEPT ![w] = c]
      BY <3>1 DEF BeginFetch
    <3>3. c \in Calls /\ CallFits(c)
      BY NoTries DEF Idle, Calls, CallFits
    <3> HIDE DEF c
    <3> QED BY <3>2, <3>3
  <2> QED BY <2>1, <2>2, <2>3, <2>4
<1>4. PICK c \in Calls : call' = [call EXCEPT ![w] = c] /\ CallFits(c)
  BY <1>3
<1>5. call' \in [Workers -> Calls]
  BY <1>2, <1>4
<1>6. TemplateTypeOK'
  BY <1>1, <1>5 DEF TemplateInv, TemplateTypeOK, Calls
<1>7. FoundNone'
  BY <1>1, <1>2, <1>4 DEF TemplateInv, FoundNone
<1> QED BY <1>6, <1>7 DEF TemplateInv

\* What is stored has been found.
LEMMA StoreStep == ASSUME TemplateInv, NEW w \in Workers, Store(w) PROVE TemplateInv'
<1>1. /\ call[w].pc = "storing" /\ UNCHANGED <<stored, points>>
      /\ cache' = [cache EXCEPT ![ManagerOf[w]][call[w].ref] = call[w].got]
      /\ call' = [call EXCEPT ![w] = Idle]
  BY DEF Store
<1>2. /\ call \in [Workers -> Calls] /\ call[w] \in Calls /\ ManagerOf[w] \in Managers
      /\ cache \in [Managers -> [Refs -> FetchedTemplates \cup {Missing}]]
  BY ManagersAssumption DEF TemplateInv, TemplateTypeOK, Calls
<1>3. call[w].got \in FetchedTemplates \cup {Missing} /\ Unfound(call[w].got)
  BY <1>1, <1>2 DEF TemplateInv, FoundNone, CallFits, Calls
<1>4. Idle \in Calls /\ CallFits(Idle)
  BY IdleFits
<1>5. cache' \in [Managers -> [Refs -> FetchedTemplates \cup {Missing}]]
  BY <1>1, <1>2, <1>3
<1>6. call' \in [Workers -> Calls]
  BY <1>1, <1>2, <1>4
<1>7. \A m \in Managers, ref \in Refs : cache'[m][ref] \in {cache[m][ref], call[w].got}
  BY <1>1, <1>2
<1>8. FoundNone'
  BY <1>1, <1>2, <1>3, <1>4, <1>7 DEF TemplateInv, FoundNone
<1> QED BY <1>1, <1>5, <1>6, <1>8 DEF TemplateInv, TemplateTypeOK, Calls

\* A process that starts anew has found nothing.
LEMMA ForgottenStep == ASSUME TemplateInv, Forgotten PROVE TemplateInv'
<1>1. /\ cache' = [m \in Managers |-> [ref \in Refs |-> Missing]]
      /\ call' = [w \in Workers |-> Idle] /\ UNCHANGED <<stored, points>>
  BY DEF Forgotten
<1>2. Idle \in Calls /\ CallFits(Idle)
  BY IdleFits
<1>3. cache' \in [Managers -> [Refs -> FetchedTemplates \cup {Missing}]]
  BY <1>1
<1>4. call' \in [Workers -> Calls]
  BY <1>1, <1>2
<1>5. FoundNone'
  BY <1>1, <1>2 DEF FoundNone
<1> QED BY <1>1, <1>3, <1>4, <1>5 DEF TemplateInv, TemplateTypeOK, Calls

\* No step of the template manager finds an EntryPoint.
LEMMA TemplateStepInv == ASSUME TemplateInv, TemplateStep PROVE TemplateInv'
<1>1. CASE UNCHANGED templateVars
  BY <1>1 DEF templateVars, TemplateInv, TemplateTypeOK, FoundNone
<1>2. CASE ServerChanges
  <2>1. TemplateTypeOK'
    BY <1>2 DEF ServerChanges, TemplateInv, TemplateTypeOK, Keys
  <2>2. FoundNone'
    BY <1>2 DEF ServerChanges, TemplateInv, FoundNone
  <2> QED BY <2>1, <2>2 DEF TemplateInv
<1> QED BY <1>1, <1>2, CallStep, StoreStep, ForgottenStep DEF TemplateStep

\* No template manager has found anything at the start.
LEMMA InitTemplate == Init => TemplateInv
<1> SUFFICES ASSUME Init PROVE TemplateInv
  OBVIOUS
<1>1. /\ stored \in [Keys -> TemplateSpecs] /\ points \in [PointKeys -> PointSpecs]
      /\ cache = [m \in Managers |-> [ref \in Refs |-> Missing]]
      /\ call = [w \in Workers |-> Idle]
  BY DEF Init, TemplateInit, Keys
<1>2. Idle \in Calls /\ CallFits(Idle)
  BY IdleFits
<1>3. FoundNone
  BY <1>1, <1>2 DEF FoundNone
<1>4. call \in [Workers -> Calls]
  BY <1>1, <1>2
<1> QED BY <1>1, <1>3, <1>4 DEF TemplateInv, TemplateTypeOK, Calls, Keys

\* The template manager keeps its types, and finds no EntryPoint.
THEOREM TemplatesCorrect == Spec => []TemplateInv
<1>1. TemplateInv /\ [Next]_vars => TemplateInv'
  BY NextTemplateStep, TemplateStepInv DEF TemplateInv
<1> QED BY <1>1, InitTemplate, PTL DEF Spec

\* Whatever templates and EntryPoints there are, no template that is handed out knows
\* the spec of its EntryPoint: the basic authentication of a pod is never on.
THEOREM EntryPointsUnknown == Spec => []EntryPointNeverFound
<1>1. TemplateInv => EntryPointNeverFound
  BY DEF TemplateInv, FoundNone, Unfound, EntryPointNeverFound
<1> QED BY <1>1, TemplatesCorrect, PTL

-----------------------------------------------------------------------------
(* What has settled in the map *)

\* A worker that begins a fetch has found nothing in the map; one that stores
\* stores what it asked for.
LEMMA SettledStep ==
  ASSUME TemplateInv, TemplateStep, "restart" \notin happened' \ happened,
         NEW m \in Managers, NEW ref \in Refs, Settled(m, ref)
  PROVE  Settled(m, ref)' /\ cache'[m][ref] = cache[m][ref]
<1>1. /\ call \in [Workers -> Calls] /\ ManagerOf \in [Workers -> Managers]
      /\ cache \in [Managers -> [Refs -> FetchedTemplates \cup {Missing}]]
  BY ManagersAssumption DEF TemplateInv, TemplateTypeOK, Calls
<1>2. cache[m][ref] # Missing /\ \A w \in Workers : ManagerOf[w] = m => call[w].ref # ref
  BY DEF Settled
<1>3. Idle.ref # ref
  BY MissingAssumption DEF Idle
<1>4. CASE UNCHANGED <<cache, call>>
  BY <1>2, <1>4 DEF Settled
<1>5. CASE \E w \in Workers : Attempt(w) \/ AttemptAgain(w) \/ GiveUp(w)
  <2>1. PICK w \in Workers : Attempt(w) \/ AttemptAgain(w) \/ GiveUp(w)
    BY <1>5
  <2>2. call[w] \in Calls /\ cache' = cache
    BY <1>1, <2>1 DEF Attempt, AttemptAgain, GiveUp
  <2>3. \A v \in Workers : call'[v].ref \in {call[v].ref, Idle.ref}
    BY <1>1, <2>1, <2>2 DEF Attempt, AttemptAgain, GiveUp, Calls
  <2> QED BY <1>2, <1>3, <2>2, <2>3 DEF Settled
<1>6. CASE \E w \in Workers, r \in Refs : BeginFetch(w, r)
  <2>1. PICK w \in Workers, r \in Refs : BeginFetch(w, r)
    BY <1>6
  <2>2. cache' = cache /\ cache[ManagerOf[w]][r] = Missing
    BY <2>1 DEF BeginFetch, AtOnce
  <2>3. \A v \in Workers : call'[v].ref = IF v = w THEN r ELSE call[v].ref
    BY <1>1, <2>1 DEF BeginFetch, Idle
  <2> QED BY <1>2, <2>2, <2>3 DEF Settled
<1>7. CASE \E w \in Workers : Store(w)
  <2>1. PICK w \in Workers : Store(w)
    BY <1>7
  <2>2. cache' = [cache EXCEPT ![ManagerOf[w]][call[w].ref] = call[w].got]
    BY <2>1 DEF Store
  <2>3. ManagerOf[w] # m \/ call[w].ref # ref
    BY <1>2
  <2>4. cache'[m][ref] = cache[m][ref]
    BY <1>1, <2>2, <2>3
  <2>5. \A v \in Workers : call'[v].ref \in {call[v].ref, Idle.ref}
    BY <1>1, <2>1 DEF Store
  <2> QED BY <1>2, <1>3, <2>4, <2>5 DEF Settled
<1> QED BY <1>4, <1>5, <1>6, <1>7 DEF TemplateStep, templateVars, ServerChanges

\* For every number of workers and controllers: once a template has settled in a map,
\* no edit is seen and no late answer overwrites it before the process restarts.
THEOREM CacheSettles == Spec => CacheHolds
<1>1. TemplateInv /\ [Next]_vars =>
        [\A m \in Managers, ref \in Refs :
           Settled(m, ref) /\ "restart" \notin happened' \ happened =>
             Settled(m, ref)' /\ cache'[m][ref] = cache[m][ref]]_vars
  BY NextTemplateStep, SettledStep DEF TemplateInv
<1> QED BY <1>1, TemplatesCorrect, PTL DEF Spec, CacheHolds

-----------------------------------------------------------------------------
(* Statuses, routes and jobs                                               *)

Phases == {"Configuring", "Provisioning", "Active", "Updating", "Failed"}
Urls == {UrlOf(kode, point) : kode \in Kodes, point \in PointSpecs}
Routes == [owner : PointKeys, host : Seq(STRING), prefix : {<<>>},
           backend : STRING, port : Nat \ {0}]

\* What a worker may be busy with: a fetch for the Kode controller, one for the
\* EntryPoint controller, and the way from a template to the URL.
KodeJobs == [kode : Kodes, step : {"fetch"}]
PointJobs == [kode : Kodes, step : {"fetch"}, port : Nat]
RouteJobs == [kode : Kodes, step : {"route", "policy", "publish"}, port : Nat \ {0},
              key : PointKeys, point : PointSpecs]
Jobs == {NoJob} \cup KodeJobs \cup PointJobs \cup RouteJobs

StatusTypes ==
  phase \in [Kodes -> Phases] /\ port \in [Kodes -> Nat] /\ service \in [Kodes -> Nat]
RouteTypes == routes \in [RouteKeys -> Routes \cup {Missing}]
PubTypes ==
  /\ StatusTypes /\ RouteTypes
  /\ url \in [Kodes -> Urls \cup {Missing}]
  /\ job \in [Workers -> Jobs]
  /\ queue \subseteq Kodes /\ happened \in Histories

\* A worker fetches for the Kode it is busy with, and for no other reason.
Waits(j, c) == c.pc # "idle" /\ c.ref = j.kode.ref
WorkerFits(w, j, c) ==
  \/ j = NoJob /\ c = Idle
  \/ w \in KodeWorkers /\ j \in KodeJobs /\ Waits(j, c)
  \/ w = EPWorker /\ j \in PointJobs /\ Waits(j, c)
  \/ w = EPWorker /\ j \in RouteJobs /\ c = Idle
WorkersInv == \A w \in Workers : WorkerFits(w, job[w], call[w])

NotEdited == "editTemplate" \notin happened
Asked(ref) == TemplateAt(ref).port

\* n is the port the template asks for, and the Service has it.
Right(kode, n) == n = Asked(kode.ref) /\ service[kode] = n

\* While no template is edited there is one port for a Kode, wherever it is written.
CopiesInv ==
  /\ \A m \in Managers, ref \in Refs :
       cache[m][ref] # Missing => cache[m][ref].port = Asked(ref)
  /\ \A w \in Workers : call[w].pc = "storing" => call[w].got.port = Asked(call[w].ref)
StatusInv ==
  \A kode \in Kodes :
    /\ port[kode] # 0 => Right(kode, port[kode])
    /\ service[kode] \in {0, Asked(kode.ref)}
JobPortInv ==
  job[EPWorker] # NoJob /\ theJob.port # 0 => Right(theJob.kode, theJob.port)
PortsInv == NotEdited => CopiesInv /\ StatusInv /\ JobPortInv

\* A route was made for a Kode of its name, by an EntryPoint of its namespace.
MadeFor(r, kode, key, point) ==
  /\ r = RouteKey(kode, key) /\ routes[r] = HTTPRoute(kode, key, point, routes[r].port)
  /\ Untouched => points[key] = point
  /\ NotEdited => Right(kode, routes[r].port)
RoutesInv ==
  \A r \in RouteKeys : routes[r] # Missing =>
    \E kode \in Kodes, key \in PointKeys, point \in PointSpecs : MadeFor(r, kode, key, point)

Has(kode, key) == routes[RouteKey(kode, key)] # Missing /\ routes[RouteKey(kode, key)].owner = key

\* What has been done of the way to the URL.
JobsInv ==
  theJob \in RouteJobs /\ Untouched =>
    /\ points[theJob.key] = theJob.point
    /\ theJob.step # "route" => Has(theJob.kode, theJob.key)
    /\ theJob.step = "publish" => ~Secured(theJob.point)

PublishedBy(kode, key, point) ==
  /\ url[kode] = UrlOf(kode, point)
  /\ Untouched => points[key] = point /\ Has(kode, key) /\ ~Secured(point)
UrlsInv ==
  \A kode \in Kodes : url[kode] # Missing =>
    \E key \in PointKeys, point \in PointSpecs : PublishedBy(kode, key, point)

PubInv == PubTypes /\ WorkersInv /\ PortsInv /\ RoutesInv /\ JobsInv /\ UrlsInv

-----------------------------------------------------------------------------
(* What every step does to objects and statuses                            *)

\* What is there stays, but for what users do and the garbage collector.
Grown ==
  /\ happened \subseteq happened' /\ happened' \in Histories
  /\ NotEdited' => UNCHANGED stored
  /\ Untouched' =>
       /\ UNCHANGED points
       /\ \A r \in RouteKeys : routes[r] # Missing => routes'[r] = routes[r]

\* Steps that leave the objects alone.
LEMMA StillGrown ==
  ASSUME PubTypes, UNCHANGED <<stored, points, routes>>,
         UNCHANGED happened \/ (\E event \in AllEvents : Happens(event))
  PROVE  Grown
BY DEF PubTypes, Grown, NotEdited, Untouched, Happens

\* Nothing that is there goes away by itself, whatever fails.
LEMMA NextGrown == ASSUME PubTypes, [Next]_vars PROVE Grown
<1>1. CASE UNCHANGED vars
  BY <1>1, StillGrown DEF vars, templateVars
<1>2. CASE \E w \in Workers : FetchAttempt(w) \/ FetchAgain(w)
  BY <1>2, StillGrown
     DEF FetchAttempt, FetchAgain, Attempt, AttemptAgain, AttemptFails, Fault, AllEvents
<1>3. CASE \E w \in KodeWorkers, kode \in Kodes : KodeReconcile(w, kode) \/ KodeFetch(w, kode)
  BY <1>3, StillGrown DEF KodeReconcile, KodeFetch, BeginFetch, templateVars
<1>4. CASE \E w \in KodeWorkers : KodeStore(w) \/ KodeGivesUp(w)
  BY <1>4, StillGrown DEF KodeStore, KodeGivesUp, Store, GiveUp, AttemptFails, Fault, AllEvents
<1>5. CASE \E kode \in Kodes : EPSkip(kode) \/ EPReconcile(kode) \/ EPFetch(kode)
  BY <1>5, StillGrown DEF EPSkip, EPReconcile, EPFetch, BeginFetch, templateVars
<1>6. CASE EPStore \/ EPGivesUp
  BY <1>6, StillGrown DEF EPStore, EPGivesUp, Store, GiveUp, AttemptFails, Fault, AllEvents
<1>7. CASE Publish
  BY <1>7, StillGrown DEF Publish, Fault, AllEvents, templateVars
<1>8. CASE Restart
  BY <1>8, StillGrown DEF Restart, Forgotten, AllEvents
<1>9. CASE EnsureRoute
  <2>1. UNCHANGED <<stored, points>>
    BY <1>9 DEF EnsureRoute, templateVars
  <2>2. UNCHANGED happened \/ Happens("fault")
    BY <1>9 DEF EnsureRoute, Fault
  <2>3. \A r \in RouteKeys : routes[r] # Missing => routes'[r] = routes[r]
    BY <1>9 DEF EnsureRoute, PubTypes, RouteTypes
  <2> QED BY <2>1, <2>2, <2>3 DEF PubTypes, Grown, NotEdited, Untouched, Happens
<1>10. CASE EnsurePolicy
  BY <1>10, StillGrown DEF EnsurePolicy, templateVars
<1>11. CASE EditTemplate
  BY <1>11 DEF EditTemplate, Happens, Grown, NotEdited
<1>12. CASE EditPoint
  BY <1>12 DEF EditPoint, Happens, Grown, NotEdited, Untouched
<1>13. CASE LoseRoute
  BY <1>13 DEF LoseRoute, Happens, Grown, NotEdited, Untouched, templateVars
<1> QED BY <1>1, <1>2, <1>3, <1>4, <1>5, <1>6, <1>7, <1>8, <1>9, <1>10, <1>11, <1>12, <1>13
        DEF Next

\* A reconcile of the Kode controller writes one Kode's status, and of the ports
\* only the one of the template.
LEMMA ReturnStatus ==
  ASSUME PubTypes, NEW kode \in Kodes, NEW template \in FetchedTemplates \cup {Missing},
         Return(kode, template)
  PROVE  /\ UNCHANGED url /\ queue' \subseteq Kodes
         /\ \E p \in Phases, n \in Nat, s \in Nat :
              /\ phase' = [phase EXCEPT ![kode] = p] /\ port' = [port EXCEPT ![kode] = n]
              /\ service' = [service EXCEPT ![kode] = s]
              /\ \/ n = port[kode] /\ s = service[kode]
                 \/ /\ template # Missing /\ s = template.port
                    /\ n \in {port[kode], template.port}
<1>1. phase[kode] \in Phases /\ port[kode] \in Nat /\ service[kode] \in Nat
  BY DEF PubTypes, StatusTypes
<1>2. template # Missing => template.port \in Nat
  BY DEF FetchedTemplates
<1>3. ASSUME NEW p \in Phases, NEW n \in Nat, NEW s \in Nat, Update(kode, p, n, s)
      PROVE  /\ UNCHANGED url /\ queue' \subseteq Kodes
             /\ phase' = [phase EXCEPT ![kode] = p] /\ port' = [port EXCEPT ![kode] = n]
             /\ service' = [service EXCEPT ![kode] = s]
  BY <1>3 DEF Update, PubTypes
<1>4. CASE template = Missing
  <2>1. \E p \in Phases : Update(kode, p, port[kode], service[kode])
    BY <1>1, <1>4 DEF Return, ReconcileWithout, Phases
  <2> QED BY <1>1, <1>3, <2>1
<1>5. CASE template # Missing
  <2>1. \E p \in Phases, n \in {port[kode], template.port}, s \in {service[kode], template.port} :
          /\ Update(kode, p, n, s)
          /\ (n = port[kode] /\ s = service[kode]) \/ s = template.port
    BY <1>1, <1>5 DEF Return, Reconcile, Phases
  <2> QED BY <1>1, <1>2, <1>3, <1>5, <2>1
<1> QED BY <1>4, <1>5

\* The statuses keep their types, and no port but the one that was asked for gets
\* into them.
StatusMoves ==
  /\ StatusTypes'
  /\ NotEdited /\ PortsInv => \A kode \in Kodes :
       /\ port'[kode] # 0 => port'[kode] = Asked(kode.ref) /\ service'[kode] = port'[kode]
       /\ service'[kode] \in {service[kode], Asked(kode.ref)}

\* Steps that leave the ports alone.
LEMMA PortsAlone ==
  ASSUME PubTypes, UNCHANGED <<port, service>>,
         UNCHANGED phase \/ (\E kode \in Kodes : phase' = [phase EXCEPT ![kode] = "Failed"])
  PROVE  StatusMoves
<1>1. StatusTypes'
  BY DEF PubTypes, StatusTypes, Phases
<1>2. NotEdited /\ PortsInv => \A kode \in Kodes :
        port[kode] # 0 => port[kode] = Asked(kode.ref) /\ service[kode] = port[kode]
  BY DEF PortsInv, StatusInv, Right
<1> QED BY <1>1, <1>2 DEF StatusMoves

\* A reconcile that has found its template, or none.
LEMMA ReturnMoves ==
  ASSUME PubTypes, NEW kode \in Kodes, NEW template \in FetchedTemplates \cup {Missing},
         Return(kode, template),
         NotEdited /\ PortsInv /\ template # Missing => template.port = Asked(kode.ref)
  PROVE  StatusMoves
<1>1. PICK p \in Phases, n \in Nat, s \in Nat :
        /\ phase' = [phase EXCEPT ![kode] = p] /\ port' = [port EXCEPT ![kode] = n]
        /\ service' = [service EXCEPT ![kode] = s]
        /\ \/ n = port[kode] /\ s = service[kode]
           \/ template # Missing /\ s = template.port /\ n \in {port[kode], template.port}
  BY ReturnStatus
<1>2. StatusTypes'
  BY <1>1 DEF PubTypes, StatusTypes
<1>3. \A other \in Kodes :
        /\ port'[other] = IF other = kode THEN n ELSE port[other]
        /\ service'[other] = IF other = kode THEN s ELSE service[other]
  BY <1>1 DEF PubTypes, StatusTypes
<1>4. ASSUME NotEdited, PortsInv, NEW other \in Kodes
      PROVE  /\ port'[other] # 0 =>
                  port'[other] = Asked(other.ref) /\ service'[other] = port'[other]
             /\ service'[other] \in {service[other], Asked(other.ref)}
  <2>1. port[other] # 0 => port[other] = Asked(other.ref) /\ service[other] = port[other]
    BY <1>4 DEF PortsInv, StatusInv, Right
  <2>2. CASE other # kode
    BY <1>3, <2>1, <2>2
  <2>3. CASE other = kode
    BY <1>1, <1>3, <1>4, <2>1, <2>3
  <2> QED BY <2>2, <2>3
<1> QED BY <1>2, <1>4 DEF StatusMoves

\* What a worker is busy with.
LEMMA Busy ==
  ASSUME PubTypes, WorkersInv
  PROVE  /\ \A w \in KodeWorkers : call[w].pc # "idle" => job[w] \in KodeJobs /\ Waits(job[w], call[w])
         /\ call[EPWorker].pc # "idle" => theJob \in PointJobs /\ Waits(theJob, call[EPWorker])
         /\ theJob.step \in {"route", "policy", "publish"} =>
              theJob \in RouteJobs /\ call[EPWorker] = Idle
         /\ \A w \in Workers : call[w].pc # "idle" => job[w].kode \in Kodes /\ Waits(job[w], call[w])
         /\ \A w \in Workers : job[w] = NoJob => call[w] = Idle
<1>1. Idle.pc = "idle" /\ NoJob.step = "none"
  BY DEF Idle, NoJob
<1>2. \A j \in KodeJobs \cup PointJobs : j.kode \in Kodes /\ j.step = "fetch"
  BY DEF KodeJobs, PointJobs
<1>3. \A j \in RouteJobs : j.kode \in Kodes /\ j.step \in {"route", "policy", "publish"}
  BY DEF RouteJobs
<1> QED BY <1>1, <1>2, <1>3, WorkersAssumption DEF WorkersInv, WorkerFits, theJob

\* The template a reconcile goes on with is one of the map, or one that was fetched.
LEMMA HitFits ==
  ASSUME TemplateInv, PubTypes, NEW w \in Workers, NEW kode \in Kodes, AtOnce(w, kode.ref)
  PROVE  /\ Hit(w, kode.ref) \in FetchedTemplates \cup {Missing}
         /\ NotEdited /\ PortsInv /\ Hit(w, kode.ref) # Missing =>
              Hit(w, kode.ref).port = Asked(kode.ref)
<1>1. kode.ref \in Refs /\ ManagerOf[w] \in Managers
  BY WorkersAndRefs, ManagersAssumption
<1>2. cache[ManagerOf[w]][kode.ref] \in FetchedTemplates \cup {Missing}
  BY <1>1 DEF TemplateInv, TemplateTypeOK
<1> QED BY <1>1, <1>2 DEF Hit, PortsInv, CopiesInv

\* What a fetch comes back with.
LEMMA GotFits ==
  ASSUME TemplateInv, PubTypes, WorkersInv, NEW w \in Workers, Store(w)
  PROVE  /\ job[w].kode \in Kodes /\ call[w].ref = job[w].kode.ref
         /\ call[w].got \in FetchedTemplates \cup {Missing}
         /\ NotEdited /\ PortsInv => call[w].got.port = Asked(job[w].kode.ref)
<1>1. call[w].pc = "storing"
  BY DEF Store
<1>2. job[w].kode \in Kodes /\ call[w].ref = job[w].kode.ref
  BY <1>1, Busy DEF Waits
<1>3. call[w].got \in FetchedTemplates \cup {Missing}
  BY DEF TemplateInv, TemplateTypeOK
<1> QED BY <1>1, <1>2, <1>3 DEF PortsInv, CopiesInv

\* What the EntryPoint controller does to a status touches no port.
LEMMA FindStatus ==
  ASSUME NEW kode, NEW template, NEW n, FindEntryPoint(kode, template, n)
  PROVE  /\ UNCHANGED <<port, service>>
         /\ UNCHANGED phase \/ phase' = [phase EXCEPT ![kode] = "Failed"]
BY DEF FindEntryPoint, EPFail, EPDone, kodeVars

\* No step writes another port than the one the template asked for.
LEMMA NextStatus ==
  ASSUME TemplateInv, PubTypes, WorkersInv, [Next]_vars
  PROVE  StatusMoves
<1>1. CASE UNCHANGED vars
  BY <1>1, PortsAlone DEF vars, kodeVars
<1>2. CASE \E w \in Workers : FetchAttempt(w) \/ FetchAgain(w)
  BY <1>2, PortsAlone DEF FetchAttempt, FetchAgain, kodeVars
<1>3. CASE \E w \in KodeWorkers, kode \in Kodes : KodeReconcile(w, kode)
  BY <1>3, HitFits, ReturnMoves, WorkersAndRefs DEF KodeReconcile
<1>4. CASE \E w \in KodeWorkers, kode \in Kodes : KodeFetch(w, kode)
  BY <1>4, PortsAlone DEF KodeFetch, kodeVars
<1>5. CASE \E w \in KodeWorkers : KodeStore(w)
  BY <1>5, GotFits, ReturnMoves, WorkersAndRefs DEF KodeStore
<1>6. CASE \E w \in KodeWorkers : KodeGivesUp(w)
  <2>1. PICK w \in KodeWorkers : KodeGivesUp(w)
    BY <1>6
  <2>2. call[w].pc = "attempt" /\ Return(job[w].kode, Missing)
    BY <2>1 DEF KodeGivesUp, AttemptFails, Return
  <2>3. job[w].kode \in Kodes
    BY <2>1, <2>2, Busy, WorkersAndRefs
  <2> QED BY <2>2, <2>3, ReturnMoves
<1>7. CASE \E kode \in Kodes : EPSkip(kode) \/ EPFetch(kode)
  BY <1>7, PortsAlone DEF EPSkip, EPFetch, kodeVars
<1>8. CASE \E kode \in Kodes : EPReconcile(kode)
  BY <1>8, FindStatus, PortsAlone DEF EPReconcile
<1>9. CASE EPStore
  BY <1>9, GotFits, FindStatus, PortsAlone, WorkersAndRefs DEF EPStore, theJob
<1>10. CASE EPGivesUp
  <2>1. theJob.kode \in Kodes
    BY <1>10, Busy, WorkersAndRefs DEF EPGivesUp, AttemptFails, theJob
  <2> QED BY <1>10, <2>1, PortsAlone DEF EPGivesUp, EPFail
<1>11. CASE EnsureRoute \/ EnsurePolicy \/ Publish
  <2>1. theJob.step \in {"route", "policy", "publish"}
    BY <1>11 DEF EnsureRoute, EnsurePolicy, Publish
  <2>2. theJob.kode \in Kodes
    BY <2>1, Busy DEF RouteJobs
  <2>3. UNCHANGED <<port, service>> /\ (UNCHANGED phase \/ phase' = [phase EXCEPT ![theJob.kode] = "Failed"])
    BY <1>11 DEF EnsureRoute, EnsurePolicy, Publish, EPGoto, EPFail, EPDone, kodeVars
  <2> QED BY <2>2, <2>3, PortsAlone
<1>12. CASE EditTemplate \/ EditPoint \/ LoseRoute \/ Restart
  BY <1>12, PortsAlone DEF EditTemplate, EditPoint, LoseRoute, Restart, kodeVars
<1> QED BY <1>1, <1>2, <1>3, <1>4, <1>5, <1>6, <1>7, <1>8, <1>9, <1>10, <1>11, <1>12 DEF Next

-----------------------------------------------------------------------------
(* What the workers are busy with                                          *)

\* A step of one worker.
LEMMA OneWorker ==
  ASSUME TemplateInv, PubTypes, WorkersInv, NEW w \in Workers, NEW j, NEW c,
         job' = [job EXCEPT ![w] = j] \/ (UNCHANGED job /\ j = job[w]),
         call' = [call EXCEPT ![w] = c] \/ (UNCHANGED call /\ c = call[w]),
         WorkerFits(w, j, c)
  PROVE  WorkersInv' /\ job' \in [Workers -> Jobs]
<1>1. /\ job \in [Workers -> Jobs] /\ DOMAIN call = Workers
      /\ call = [v \in Workers |-> call[v]]
  BY DEF PubTypes, TemplateInv, TemplateTypeOK
<1>2. j \in Jobs
  BY DEF WorkerFits, Jobs
<1>3. \A v \in Workers : job'[v] = IF v = w THEN j ELSE job[v]
  BY <1>1, <1>2
<1>4. \A v \in Workers : call'[v] = IF v = w THEN c ELSE call[v]
  BY <1>1
<1>5. WorkersInv'
  BY <1>3, <1>4 DEF WorkersInv, WorkerFits
<1> QED BY <1>1, <1>2, <1>5

\* The search for the EntryPoint ends, or goes on with the EntryPoint of the template
\* as it is now.
LEMMA FindJob ==
  ASSUME TemplateInv, PubTypes, NEW kode \in Kodes,
         NEW template \in FetchedTemplates \cup {Missing},
         NEW n \in Nat, FindEntryPoint(kode, template, n)
  PROVE  /\ UNCHANGED url /\ queue' \subseteq Kodes
         /\ \E j \in {NoJob} \cup RouteJobs :
              /\ job' = [job EXCEPT ![EPWorker] = j]
              /\ j # NoJob => /\ j.kode = kode /\ j.port = n /\ j.step = "route"
                              /\ points[j.key] = j.point
<1>1. CASE job' = [job EXCEPT ![EPWorker] = NoJob]
  BY <1>1 DEF FindEntryPoint, EPFail, EPDone, kodeVars, PubTypes
<1>2. CASE job' # [job EXCEPT ![EPWorker] = NoJob]
  <2> DEFINE key == template.entryPoint
             j == [kode |-> kode, step |-> "route", port |-> n, key |-> key, point |-> PointAt(key)]
  <2>1. /\ template # Missing /\ key # Missing /\ PointAt(key) # Missing /\ n # 0
        /\ job' = [job EXCEPT ![EPWorker] = j] /\ queue' = queue \ {kode} /\ UNCHANGED kodeVars
    BY <1>2 DEF FindEntryPoint, EPFail, EPDone
  <2>2. key \in PointKeys
    BY <2>1 DEF PointAt
  <2>3. PointAt(key) \in PointSpecs /\ PointAt(key) = points[key]
    BY <2>1, <2>2 DEF PointAt, TemplateInv, TemplateTypeOK
  <2>4. j \in RouteJobs
    BY <2>1, <2>2, <2>3 DEF RouteJobs
  <2> HIDE DEF j, key
  <2>5. j.kode = kode /\ j.port = n /\ j.step = "route" /\ points[j.key] = j.point
    BY <2>3 DEF j
  <2> QED BY <2>1, <2>4, <2>5 DEF kodeVars, PubTypes
<1> QED BY <1>1, <1>2

\* What the EntryPoint controller is busy with next: with what it was, with nothing,
\* with a fetch, with a route for the EntryPoint as it is, or with the next step of a
\* route, when the one before it is done.
NextJob ==
  \/ theJob' = theJob \/ theJob' = NoJob
  \/ theJob' \in PointJobs /\ theJob'.port = port[theJob'.kode]
  \/ /\ theJob' \in RouteJobs /\ theJob'.step = "route"
     /\ points[theJob'.key] = theJob'.point
     /\ \/ theJob'.port = port[theJob'.kode]
        \/ /\ theJob \in PointJobs
           /\ theJob'.kode = theJob.kode /\ theJob'.port = theJob.port
  \/ /\ theJob \in RouteJobs /\ theJob.step = "route"
     /\ theJob' = [theJob EXCEPT !.step = "policy"]
     /\ routes'[RouteKey(theJob.kode, theJob.key)] # Missing
     /\ routes'[RouteKey(theJob.kode, theJob.key)].owner = theJob.key
  \/ /\ theJob \in RouteJobs /\ theJob.step = "policy"
     /\ theJob' = [theJob EXCEPT !.step = "publish"]
     /\ ~Secured(theJob.point)

\* The steps of one worker that keep the workers and the jobs in order.
JobMoves ==
  /\ WorkersInv' /\ job' \in [Workers -> Jobs] /\ queue' \subseteq Kodes
  /\ NextJob

\* A worker goes on with its fetch.
LEMMA AttemptJobs ==
  ASSUME TemplateInv, PubTypes, WorkersInv, NEW w \in Workers, UNCHANGED <<job, queue>>,
         Attempt(w) \/ AttemptAgain(w)
  PROVE  JobMoves
<1>1. \E c : /\ call' = [call EXCEPT ![w] = c]
             /\ c.pc # "idle" /\ c.ref = call[w].ref /\ call[w].pc # "idle"
  <2>1. call[w] \in Calls
    BY DEF TemplateInv, TemplateTypeOK, Calls
  <2>2. CASE Attempt(w)
    <3> DEFINE c == [call[w] EXCEPT !.pc = "storing", !.got = Fetched(TemplateAt(call[w].ref))]
    <3>1. call' = [call EXCEPT ![w] = c] /\ call[w].pc = "attempt"
      BY <2>2 DEF Attempt
    <3>2. c.pc = "storing" /\ c.ref = call[w].ref
      BY <2>1 DEF Calls
    <3> QED BY <3>1, <3>2
  <2>3. CASE AttemptAgain(w)
    <3> DEFINE c == [call[w] EXCEPT !.tries = @ + 1]
    <3>1. call' = [call EXCEPT ![w] = c] /\ call[w].pc = "attempt"
      BY <2>3 DEF AttemptAgain
    <3>2. c.pc = call[w].pc /\ c.ref = call[w].ref
      BY <2>1 DEF Calls
    <3> QED BY <3>1, <3>2
  <2> QED BY <2>2, <2>3
<1>2. PICK c : /\ call' = [call EXCEPT ![w] = c]
               /\ c.pc # "idle" /\ c.ref = call[w].ref /\ call[w].pc # "idle"
  BY <1>1
<1>3. WorkerFits(w, job[w], c)
  BY <1>2 DEF WorkersInv, WorkerFits, Waits, Idle
<1>4. WorkersInv' /\ job' \in [Workers -> Jobs]
  BY <1>2, <1>3, OneWorker
<1> QED BY <1>4 DEF JobMoves, NextJob, theJob, PubTypes

\* A worker of the Kode controller begins a fetch, or is done.
LEMMA KodeJobMoves ==
  ASSUME TemplateInv, PubTypes, WorkersInv, NEW w \in KodeWorkers, queue' \subseteq Kodes,
         \/ UNCHANGED <<job, call>>
         \/ (\E kode \in Kodes : /\ BeginFetch(w, kode.ref)
                                 /\ job' = [job EXCEPT ![w] = [kode |-> kode, step |-> "fetch"]])
         \/ (Store(w) \/ GiveUp(w)) /\ job' = [job EXCEPT ![w] = NoJob]
  PROVE  JobMoves
<1>1. w \in Workers /\ w # EPWorker
  BY WorkersAssumption
<1>2. CASE UNCHANGED <<job, call>>
  BY <1>2 DEF JobMoves, NextJob, theJob, PubTypes, WorkersInv, WorkerFits, Waits
<1>3. CASE \E kode \in Kodes : /\ BeginFetch(w, kode.ref)
                               /\ job' = [job EXCEPT ![w] = [kode |-> kode, step |-> "fetch"]]
  <2>1. PICK kode \in Kodes : /\ BeginFetch(w, kode.ref)
                              /\ job' = [job EXCEPT ![w] = [kode |-> kode, step |-> "fetch"]]
    BY <1>3
  <2> DEFINE j == [kode |-> kode, step |-> "fetch"]
             c == [Idle EXCEPT !.ref = kode.ref, !.pc = "attempt"]
  <2>2. call' = [call EXCEPT ![w] = c] /\ c.pc # "idle" /\ c.ref = kode.ref
    BY <2>1 DEF BeginFetch, Idle
  <2>3. j \in KodeJobs /\ j.kode = kode
    BY DEF KodeJobs
  <2>4. WorkerFits(w, j, c)
    BY <2>2, <2>3 DEF WorkerFits, Waits
  <2>5. theJob' = theJob
    BY <1>1, <2>1 DEF theJob, PubTypes
  <2> HIDE DEF j, c
  <2>6. WorkersInv' /\ job' \in [Workers -> Jobs]
    BY <1>1, <2>1, <2>2, <2>4, OneWorker DEF j
  <2> QED BY <2>5, <2>6 DEF JobMoves, NextJob
<1>4. CASE (Store(w) \/ GiveUp(w)) /\ job' = [job EXCEPT ![w] = NoJob]
  <2>1. call' = [call EXCEPT ![w] = Idle] /\ WorkerFits(w, NoJob, Idle)
    BY <1>4 DEF Store, GiveUp, WorkerFits
  <2>2. WorkersInv' /\ job' \in [Workers -> Jobs]
    BY <1>1, <1>4, <2>1, OneWorker
  <2>3. theJob' = theJob
    BY <1>1, <1>4 DEF theJob, PubTypes
  <2> QED BY <2>2, <2>3 DEF JobMoves, NextJob
<1> QED BY <1>2, <1>3, <1>4

\* The EntryPoint controller is done, or goes on with the route.
LEMMA PointJobMoves ==
  ASSUME TemplateInv, PubTypes, WorkersInv, queue' \subseteq Kodes, NEW j,
         job' = [job EXCEPT ![EPWorker] = j],
         call' = [call EXCEPT ![EPWorker] = Idle] \/ (UNCHANGED call /\ call[EPWorker] = Idle),
         j = NoJob \/ j \in RouteJobs
  PROVE  WorkersInv' /\ job' \in [Workers -> Jobs] /\ theJob' = j
<1>1. EPWorker \in Workers /\ WorkerFits(EPWorker, j, Idle)
  BY WorkersAssumption DEF WorkerFits
<1>2. WorkersInv' /\ job' \in [Workers -> Jobs]
  BY <1>1, OneWorker
<1>3. theJob' = j
  BY <1>1 DEF theJob, PubTypes
<1> QED BY <1>2, <1>3

-----------------------------------------------------------------------------
(* Routes as they are made                                                 *)

\* Short sequences.
LEMMA ShortSequences ==
  ASSUME NEW S, NEW a \in S, NEW b \in S
  PROVE  <<a, b>> \in Seq(S) /\ <<b>> \in Seq(S)
OBVIOUS

\* A route is one.
LEMMA RouteMade ==
  ASSUME NEW kode \in Kodes, NEW key \in PointKeys, NEW point \in PointSpecs,
         NEW n \in Nat \ {0}
  PROVE  HTTPRoute(kode, key, point, n) \in Routes
<1>1. kode.name \in STRING
  BY KodesAssumption
<1>2. point.domain \in STRING
  BY PointsAssumption DEF EntryPointSpecs
<1>3. HostOf(kode, point) \in Seq(STRING)
  BY <1>1, <1>2, ShortSequences DEF HostOf
<1> QED BY <1>1, <1>3 DEF HTTPRoute, Routes

\* Nothing that is a route is Missing.
LEMMA RoutesThere == \A route \in Routes : route # Missing
BY RoutesAssumption DEF Routes

\* A worker that is done is not going on.
LEMMA StepsApart ==
  ASSUME PubTypes, theJob \in RouteJobs, NEW step \in {"policy", "publish"}
  PROVE  [job EXCEPT ![EPWorker].step = step] # [job EXCEPT ![EPWorker] = NoJob]
<1>1. [job EXCEPT ![EPWorker].step = step][EPWorker].step = step
  BY WorkersAndRefs DEF PubTypes, theJob, RouteJobs
<1>2. [job EXCEPT ![EPWorker] = NoJob][EPWorker].step = "none"
  BY WorkersAndRefs DEF PubTypes, NoJob
<1> QED BY <1>1, <1>2

\* The end of a search for the EntryPoint.
LEMMA FindMoves ==
  ASSUME TemplateInv, PubTypes, WorkersInv, NEW kode \in Kodes,
         NEW template \in FetchedTemplates \cup {Missing}, NEW n \in Nat,
         FindEntryPoint(kode, template, n),
         call' = [call EXCEPT ![EPWorker] = Idle] \/ (UNCHANGED call /\ call[EPWorker] = Idle),
         n = port[kode] \/ (theJob \in PointJobs /\ kode = theJob.kode /\ n = theJob.port)
  PROVE  JobMoves
<1>1. queue' \subseteq Kodes
  BY FindJob
<1>2. PICK j \in {NoJob} \cup RouteJobs :
        /\ job' = [job EXCEPT ![EPWorker] = j]
        /\ j # NoJob => /\ j.kode = kode /\ j.port = n /\ j.step = "route"
                        /\ points[j.key] = j.point
  BY FindJob
<1>3. WorkersInv' /\ job' \in [Workers -> Jobs] /\ theJob' = j
  BY <1>1, <1>2, PointJobMoves
<1>4. NextJob
  BY <1>2, <1>3 DEF NextJob
<1> QED BY <1>1, <1>3, <1>4 DEF JobMoves

\* A Kode that is failed is left.
LEMMA FailMoves ==
  ASSUME TemplateInv, PubTypes, WorkersInv, NEW kode \in Kodes,
         EPFail(kode) \/ EPDone(kode, TRUE) \/
           (job' = [job EXCEPT ![EPWorker] = NoJob] /\ queue' = queue \cup {kode}),
         call' = [call EXCEPT ![EPWorker] = Idle] \/ (UNCHANGED call /\ call[EPWorker] = Idle)
  PROVE  JobMoves
<1>1. job' = [job EXCEPT ![EPWorker] = NoJob] /\ queue' \subseteq Kodes
  BY DEF EPFail, EPDone, PubTypes
<1>2. WorkersInv' /\ job' \in [Workers -> Jobs] /\ theJob' = NoJob
  BY <1>1, PointJobMoves
<1> QED BY <1>1, <1>2 DEF JobMoves, NextJob

\* One step of a route is done.
LEMMA GotoMoves ==
  ASSUME TemplateInv, PubTypes, WorkersInv, theJob \in RouteJobs, UNCHANGED call,
         NEW step \in {"policy", "publish"}, EPGoto(step),
         \/ /\ step = "policy" /\ theJob.step = "route"
            /\ routes'[RouteKey(theJob.kode, theJob.key)] # Missing
            /\ routes'[RouteKey(theJob.kode, theJob.key)].owner = theJob.key
         \/ step = "publish" /\ theJob.step = "policy" /\ ~Secured(theJob.point)
  PROVE  JobMoves
<1> DEFINE j == [theJob EXCEPT !.step = step]
<1>1. job' = [job EXCEPT ![EPWorker].step = step] /\ queue' \subseteq Kodes
  BY DEF EPGoto, PubTypes
<1>2. job' = [job EXCEPT ![EPWorker] = j]
  BY <1>1 DEF theJob
<1>3. j \in RouteJobs
  BY DEF RouteJobs
<1>4. call[EPWorker] = Idle
  BY Busy DEF RouteJobs
<1> HIDE DEF j
<1>5. WorkersInv' /\ job' \in [Workers -> Jobs] /\ theJob' = j
  BY <1>1, <1>2, <1>3, <1>4, PointJobMoves
<1>6. NextJob
  BY <1>5 DEF NextJob, j
<1> QED BY <1>1, <1>5, <1>6 DEF JobMoves

\* The route, the policy and the URL.
LEMMA RouteMoves ==
  ASSUME TemplateInv, PubTypes, WorkersInv, EnsureRoute \/ EnsurePolicy \/ Publish
  PROVE  JobMoves
<1>1. theJob.step \in {"route", "policy", "publish"} /\ UNCHANGED call
  BY DEF EnsureRoute, EnsurePolicy, Publish, templateVars
<1>2. theJob \in RouteJobs /\ call[EPWorker] = Idle
  BY <1>1, Busy
<1>3. /\ theJob.kode \in Kodes /\ theJob.key \in PointKeys /\ theRoute \in RouteKeys
      /\ theJob.point \in PointSpecs /\ theJob.port \in Nat \ {0}
  BY <1>2 DEF RouteJobs, theRoute, RouteKey, RouteKeys
<1>4. CASE EPFail(theJob.kode) \/ Publish
  <2>1. EPFail(theJob.kode) \/ EPDone(theJob.kode, TRUE) \/
          (job' = [job EXCEPT ![EPWorker] = NoJob] /\ queue' = queue \cup {theJob.kode})
    BY <1>4 DEF Publish
  <2> QED BY <1>1, <1>2, <1>3, <2>1, FailMoves
<1>5. CASE EnsureRoute /\ EPGoto("policy")
  <2>1. theJob.step = "route" /\ routes'[theRoute] # Missing /\ routes'[theRoute].owner = theJob.key
    <3>1. CASE routes[theRoute] = Missing /\ routes' = [routes EXCEPT ![theRoute] =
                 HTTPRoute(theJob.kode, theJob.key, theJob.point, theJob.port)]
      <4>1. routes'[theRoute] = HTTPRoute(theJob.kode, theJob.key, theJob.point, theJob.port)
        BY <1>3, <3>1 DEF PubTypes, RouteTypes
      <4>2. HTTPRoute(theJob.kode, theJob.key, theJob.point, theJob.port) \in Routes
        BY <1>3, RouteMade
      <4>3. HTTPRoute(theJob.kode, theJob.key, theJob.point, theJob.port).owner = theJob.key
        BY DEF HTTPRoute
      <4> QED BY <1>5, <4>1, <4>2, <4>3, RoutesThere DEF EnsureRoute
    <3>2. CASE routes[theRoute] # Missing /\ routes[theRoute].owner = theJob.key /\ UNCHANGED routes
      BY <1>5, <3>2 DEF EnsureRoute
    <3>3. CASE EPFail(theJob.kode)
      BY <1>5, <1>2, <3>3, StepsApart DEF EPFail, EPGoto
    <3> QED BY <1>5, <3>1, <3>2, <3>3 DEF EnsureRoute
  <2> QED BY <1>1, <1>2, <1>5, <2>1, GotoMoves DEF theRoute
<1>6. CASE EnsurePolicy /\ EPGoto("publish")
  <2>1. theJob.step = "policy" /\ ~Secured(theJob.point)
    BY <1>6, <1>2, StepsApart DEF EnsurePolicy, EPFail, EPGoto
  <2> QED BY <1>1, <1>2, <1>6, <2>1, GotoMoves
<1> QED BY <1>4, <1>5, <1>6 DEF EnsureRoute, EnsurePolicy

\* No step confuses the workers.
LEMMA NextJobMoves ==
  ASSUME TemplateInv, PubTypes, WorkersInv, [Next]_vars
  PROVE  JobMoves
<1>1. CASE UNCHANGED vars
  BY <1>1 DEF vars, templateVars, JobMoves, NextJob, theJob, PubTypes, WorkersInv, WorkerFits, Waits
<1>2. CASE \E w \in Workers : FetchAttempt(w) \/ FetchAgain(w)
  BY <1>2, AttemptJobs DEF FetchAttempt, FetchAgain
<1>3. CASE \E w \in KodeWorkers, kode \in Kodes : KodeReconcile(w, kode)
  <2>1. PICK w \in KodeWorkers, kode \in Kodes : KodeReconcile(w, kode)
    BY <1>3
  <2>2. queue' \subseteq Kodes
    BY <2>1, HitFits, ReturnStatus, WorkersAndRefs DEF KodeReconcile
  <2>3. UNCHANGED <<job, call>>
    BY <2>1 DEF KodeReconcile, templateVars
  <2> QED BY <2>2, <2>3, KodeJobMoves
<1>4. CASE \E w \in KodeWorkers, kode \in Kodes : KodeFetch(w, kode)
  <2>1. PICK w \in KodeWorkers, kode \in Kodes : KodeFetch(w, kode)
    BY <1>4
  <2>2. queue' \subseteq Kodes
    BY <2>1 DEF KodeFetch, PubTypes
  <2> QED BY <2>1, <2>2, KodeJobMoves DEF KodeFetch
<1>5. CASE \E w \in KodeWorkers : KodeStore(w)
  <2>1. PICK w \in KodeWorkers : KodeStore(w)
    BY <1>5
  <2>2. queue' \subseteq Kodes
    BY <2>1, GotFits, ReturnStatus, WorkersAndRefs DEF KodeStore
  <2> QED BY <2>1, <2>2, KodeJobMoves DEF KodeStore
<1>6. CASE \E w \in KodeWorkers : KodeGivesUp(w)
  <2>1. PICK w \in KodeWorkers : KodeGivesUp(w)
    BY <1>6
  <2>2. Return(job[w].kode, Missing) /\ job[w].kode \in Kodes
    BY <2>1, Busy, WorkersAndRefs DEF KodeGivesUp, AttemptFails, Return
  <2>3. queue' \subseteq Kodes
    BY <2>2, ReturnStatus
  <2> QED BY <2>1, <2>3, KodeJobMoves DEF KodeGivesUp
<1>7. CASE \E kode \in Kodes : EPSkip(kode)
  BY <1>7 DEF EPSkip, templateVars, JobMoves, NextJob, theJob, PubTypes, WorkersInv,
              WorkerFits, Waits
<1>8. CASE \E kode \in Kodes : EPReconcile(kode)
  <2>1. PICK kode \in Kodes : EPReconcile(kode)
    BY <1>8
  <2>2. UNCHANGED call /\ call[EPWorker] = Idle
    BY <2>1, Busy, WorkersAndRefs DEF EPReconcile, Due, templateVars
  <2>3. Hit(EPWorker, kode.ref) \in FetchedTemplates \cup {Missing} /\ port[kode] \in Nat
    BY <2>1, HitFits, WorkersAndRefs DEF EPReconcile, PubTypes, StatusTypes
  <2> QED BY <2>1, <2>2, <2>3, FindMoves DEF EPReconcile
<1>9. CASE \E kode \in Kodes : EPFetch(kode)
  <2>1. PICK kode \in Kodes : EPFetch(kode)
    BY <1>9
  <2> DEFINE j == [kode |-> kode, step |-> "fetch", port |-> port[kode]]
             c == [Idle EXCEPT !.ref = kode.ref, !.pc = "attempt"]
  <2>2. /\ job' = [job EXCEPT ![EPWorker] = j] /\ call' = [call EXCEPT ![EPWorker] = c]
        /\ queue' \subseteq Kodes
    BY <2>1 DEF EPFetch, BeginFetch, PubTypes
  <2>3. j \in PointJobs /\ j.port = port[kode] /\ j.kode = kode
    BY DEF PointJobs, PubTypes, StatusTypes
  <2>4. c.pc # "idle" /\ c.ref = kode.ref
    BY DEF Idle
  <2> HIDE DEF j, c
  <2>5. WorkerFits(EPWorker, j, c)
    BY <2>3, <2>4 DEF WorkerFits, Waits
  <2>6. WorkersInv' /\ job' \in [Workers -> Jobs]
    BY <2>2, <2>5, OneWorker, WorkersAndRefs
  <2>7. theJob' = j
    BY <2>2, WorkersAndRefs DEF theJob, PubTypes
  <2> QED BY <2>2, <2>3, <2>6, <2>7 DEF JobMoves, NextJob
<1>10. CASE EPStore
  <2>1. /\ call[EPWorker].pc = "storing" /\ call' = [call EXCEPT ![EPWorker] = Idle]
        /\ FindEntryPoint(theJob.kode, call[EPWorker].got, theJob.port)
    BY <1>10 DEF EPStore, Store
  <2>2. theJob \in PointJobs /\ theJob.kode \in Kodes /\ theJob.port \in Nat
    BY <2>1, Busy DEF PointJobs
  <2>3. call[EPWorker].got \in FetchedTemplates \cup {Missing}
    BY <1>10, GotFits, WorkersAndRefs DEF EPStore
  <2> QED BY <2>1, <2>2, <2>3, FindMoves
<1>11. CASE EPGivesUp
  <2>1. theJob.kode \in Kodes
    BY <1>11, Busy, WorkersAndRefs DEF EPGivesUp, AttemptFails, theJob
  <2> QED BY <1>11, <2>1, FailMoves DEF EPGivesUp, GiveUp
<1>12. CASE EnsureRoute \/ EnsurePolicy \/ Publish
  BY <1>12, RouteMoves
<1>13. CASE EditTemplate \/ EditPoint \/ LoseRoute
  BY <1>13 DEF EditTemplate, EditPoint, LoseRoute, templateVars, JobMoves, NextJob, theJob,
               PubTypes, WorkersInv, WorkerFits, Waits
<1>14. CASE Restart
  <2>1. /\ call' = [w \in Workers |-> Idle] /\ job' = [w \in Workers |-> NoJob]
        /\ queue' = Kodes
    BY <1>14 DEF Restart, Forgotten
  <2>2. theJob' = NoJob /\ job' \in [Workers -> Jobs]
    BY <2>1, WorkersAndRefs DEF theJob, Jobs
  <2> QED BY <2>1, <2>2 DEF JobMoves, NextJob, WorkersInv, WorkerFits
<1> QED BY <1>1, <1>2, <1>3, <1>4, <1>5, <1>6, <1>7, <1>8, <1>9, <1>10, <1>11, <1>12, <1>13,
           <1>14 DEF Next

-----------------------------------------------------------------------------
(* Ports, routes and URLs *)

\* The right port stays the right one.
LEMMA RightStays ==
  ASSUME PubTypes, StatusMoves, Grown, PortsInv, NotEdited', NEW kode \in Kodes, NEW n,
         Right(kode, n)
  PROVE  NotEdited /\ Right(kode, n)'
<1>1. NotEdited /\ UNCHANGED stored
  BY DEF Grown, NotEdited
<1>2. Asked(kode.ref)' = Asked(kode.ref)
  BY <1>1 DEF Asked, TemplateAt
<1>3. service'[kode] \in {service[kode], Asked(kode.ref)}
  BY <1>1 DEF StatusMoves
<1> QED BY <1>1, <1>2, <1>3 DEF Right

\* What is fetched and stored is what the server has.
LEMMA CopiesStay ==
  ASSUME TemplateInv, TemplateStep, CopiesInv, UNCHANGED stored
  PROVE  CopiesInv'
<1>1. /\ call \in [Workers -> Calls] /\ ManagerOf \in [Workers -> Managers]
      /\ cache \in [Managers -> [Refs -> FetchedTemplates \cup {Missing}]]
  BY ManagersAssumption DEF TemplateInv, TemplateTypeOK, Calls
<1>2. \A ref : Asked(ref)' = Asked(ref)
  BY DEF Asked, TemplateAt
<1>3. CASE UNCHANGED <<cache, call>>
  BY <1>2, <1>3 DEF CopiesInv
<1>4. CASE \E w \in Workers : Attempt(w)
  <2>1. PICK w \in Workers : Attempt(w)
    BY <1>4
  <2> DEFINE c == [call[w] EXCEPT !.pc = "storing", !.got = Fetched(TemplateAt(call[w].ref))]
  <2>2. UNCHANGED cache /\ call' = [call EXCEPT ![w] = c] /\ call[w] \in Calls
    BY <1>1, <2>1 DEF Attempt
  <2>3. c.ref = call[w].ref /\ c.got.port = Asked(call[w].ref)
    BY <2>2 DEF Calls, Fetched, Asked
  <2> HIDE DEF c
  <2>4. \A v \in Workers : call'[v] = IF v = w THEN c ELSE call[v]
    BY <1>1, <2>2
  <2> QED BY <1>2, <2>2, <2>3, <2>4 DEF CopiesInv
<1>5. CASE \E w \in Workers : AttemptAgain(w) \/ GiveUp(w) \/ \E ref \in Refs : BeginFetch(w, ref)
  <2>1. PICK w \in Workers : AttemptAgain(w) \/ GiveUp(w) \/ \E ref \in Refs : BeginFetch(w, ref)
    BY <1>5
  <2>2. UNCHANGED cache /\ call[w] \in Calls
    BY <1>1, <2>1 DEF AttemptAgain, GiveUp, BeginFetch
  <2>3. \A v \in Workers : call'[v] = call[v] \/ call'[v].pc # "storing"
    <3>1. CASE AttemptAgain(w)
      BY <1>1, <2>2, <3>1 DEF AttemptAgain, Calls
    <3>2. CASE GiveUp(w)
      BY <1>1, <3>2 DEF GiveUp, Idle
    <3>3. CASE \E ref \in Refs : BeginFetch(w, ref)
      <4>1. PICK ref \in Refs : BeginFetch(w, ref)
        BY <3>3
      <4>2. call' = [call EXCEPT ![w] = [Idle EXCEPT !.ref = ref, !.pc = "attempt"]]
        BY <4>1 DEF BeginFetch
      <4>3. [Idle EXCEPT !.ref = ref, !.pc = "attempt"].pc = "attempt"
        BY DEF Idle
      <4> QED BY <1>1, <4>2, <4>3
    <3> QED BY <2>1, <3>1, <3>2, <3>3
  <2> QED BY <1>2, <2>2, <2>3 DEF CopiesInv
<1>6. CASE \E w \in Workers : Store(w)
  <2>1. PICK w \in Workers : Store(w)
    BY <1>6
  <2>2. /\ call[w].pc = "storing" /\ call' = [call EXCEPT ![w] = Idle]
        /\ cache' = [cache EXCEPT ![ManagerOf[w]][call[w].ref] = call[w].got]
    BY <2>1 DEF Store
  <2>3. call[w].got.port = Asked(call[w].ref)
    BY <2>2 DEF CopiesInv
  <2>4. \A m \in Managers, ref \in Refs :
          cache'[m][ref] = cache[m][ref] \/ (ref = call[w].ref /\ cache'[m][ref] = call[w].got)
    BY <1>1, <2>2
  <2>5. \A v \in Workers : call'[v] = call[v] \/ call'[v].pc # "storing"
    BY <1>1, <2>2 DEF Idle
  <2> QED BY <1>2, <2>3, <2>4, <2>5 DEF CopiesInv
<1>7. CASE Forgotten
  BY <1>7 DEF Forgotten, CopiesInv, Idle
<1> QED BY <1>3, <1>4, <1>5, <1>6, <1>7 DEF TemplateStep, templateVars, ServerChanges

\* While no template is edited, one port is all there is.
LEMMA NextPorts ==
  ASSUME TemplateInv, PubInv, TemplateStep, Grown, StatusMoves, JobMoves
  PROVE  PortsInv'
<1> SUFFICES ASSUME NotEdited' PROVE (CopiesInv /\ StatusInv /\ JobPortInv)'
  BY DEF PortsInv
<1>1. NotEdited /\ UNCHANGED stored /\ CopiesInv /\ StatusInv /\ JobPortInv /\ PubTypes
  BY DEF Grown, NotEdited, PortsInv, PubInv
<1>2. CopiesInv'
  BY <1>1, CopiesStay
<1>3. \A kode \in Kodes : Asked(kode.ref)' = Asked(kode.ref)
  BY <1>1 DEF Asked, TemplateAt
<1>4. StatusInv'
  <2>1. \A kode \in Kodes :
          /\ port'[kode] # 0 => port'[kode] = Asked(kode.ref) /\ service'[kode] = port'[kode]
          /\ service'[kode] \in {0, Asked(kode.ref)}
    BY <1>1 DEF StatusMoves, StatusInv, PubInv
  <2> QED BY <1>3, <2>1 DEF StatusInv, Right
<1>5. JobPortInv'
  <2>0. WorkerFits(EPWorker, theJob', call'[EPWorker])
    BY WorkersAndRefs DEF JobMoves, WorkersInv, theJob, WorkerFits, Waits
  <2>1. theJob' # NoJob => theJob' \in PointJobs \cup RouteJobs
    BY <2>0, WorkersAssumption DEF WorkerFits
  <2>2. theJob' # NoJob => theJob'.kode \in Kodes
    BY <2>1 DEF PointJobs, RouteJobs
  <2>3. theJob' # NoJob /\ theJob'.port # 0 => Right(theJob'.kode, theJob'.port)
    <3> SUFFICES ASSUME theJob' # NoJob, theJob'.port # 0
                 PROVE  Right(theJob'.kode, theJob'.port)
      OBVIOUS
    <3>1. CASE theJob'.port = port[theJob'.kode]
      BY <1>1, <2>2, <3>1 DEF StatusInv
    <3>2. CASE theJob # NoJob /\ theJob'.kode = theJob.kode /\ theJob'.port = theJob.port
      BY <1>1, <3>2 DEF JobPortInv, theJob
    <3>3. theJob \in PointJobs \cup RouteJobs => theJob # NoJob
      BY DEF PointJobs, RouteJobs, NoJob
    <3>4. CASE theJob \in RouteJobs /\ \E step : theJob' = [theJob EXCEPT !.step = step]
      BY <3>2, <3>3, <3>4 DEF RouteJobs
    <3> QED BY <3>1, <3>2, <3>3, <3>4 DEF JobMoves, NextJob
  <2>4. \A kode \in Kodes : service'[kode] \in {service[kode], Asked(kode.ref)}
    BY <1>1 DEF StatusMoves, PubInv
  <2>5. theJob' # NoJob /\ theJob'.port # 0 =>
          theJob'.port = Asked(theJob'.kode.ref) /\ service'[theJob'.kode] = theJob'.port
    BY <2>2, <2>3, <2>4 DEF Right
  <2>6. theJob' # NoJob /\ theJob'.port # 0 =>
          /\ theJob'.port = IF Known(theJob'.kode.ref)
                              THEN stored'[ServerKey(theJob'.kode.ref)].port ELSE Missing.port
          /\ service'[theJob'.kode] = theJob'.port
    BY <1>1, <2>5 DEF Asked, TemplateAt
  <2> QED BY <2>6 DEF JobPortInv, Right, Asked, TemplateAt, theJob
<1> QED BY <1>2, <1>4, <1>5

\* Routes go, stay, or are made by the EntryPoint controller.
RoutesMove ==
  /\ RouteTypes'
  /\ \A r \in RouteKeys :
       \/ routes'[r] \in {routes[r], Missing}
       \/ /\ theJob \in RouteJobs /\ r = theRoute
          /\ routes'[r] = HTTPRoute(theJob.kode, theJob.key, theJob.point, theJob.port)

\* Steps that touch none.
LEMMA RoutesAlone == ASSUME PubTypes, UNCHANGED routes PROVE RoutesMove
BY DEF PubTypes, RouteTypes, RoutesMove

\* Only the EntryPoint controller makes a route.
LEMMA NextRoutesMove ==
  ASSUME TemplateInv, PubTypes, WorkersInv, [Next]_vars
  PROVE  RoutesMove
<1>1. CASE UNCHANGED vars
  BY <1>1, RoutesAlone DEF vars
<1>2. CASE \E w \in Workers : FetchAttempt(w) \/ FetchAgain(w)
  BY <1>2, RoutesAlone DEF FetchAttempt, FetchAgain
<1>3. CASE \E w \in KodeWorkers, kode \in Kodes : KodeReconcile(w, kode) \/ KodeFetch(w, kode)
  BY <1>3, RoutesAlone DEF KodeReconcile, KodeFetch
<1>4. CASE \E w \in KodeWorkers : KodeStore(w) \/ KodeGivesUp(w)
  BY <1>4, RoutesAlone DEF KodeStore, KodeGivesUp
<1>5. CASE \E kode \in Kodes : EPSkip(kode) \/ EPReconcile(kode) \/ EPFetch(kode)
  BY <1>5, RoutesAlone DEF EPSkip, EPReconcile, EPFetch
<1>6. CASE EPStore \/ EPGivesUp \/ Publish \/ EditTemplate \/ Restart
  BY <1>6, RoutesAlone DEF EPStore, EPGivesUp, Publish, EditTemplate, Restart
<1>7. CASE EnsureRoute
  <2>1. theJob \in RouteJobs
    BY <1>7, Busy DEF EnsureRoute
  <2>2. HTTPRoute(theJob.kode, theJob.key, theJob.point, theJob.port) \in Routes
    BY <2>1, RouteMade DEF RouteJobs
  <2> QED BY <1>7, <2>1, <2>2 DEF EnsureRoute, RoutesMove, PubTypes, RouteTypes
<1>8. CASE EnsurePolicy
  BY <1>8, RoutesAlone DEF EnsurePolicy
<1>9. CASE EditPoint
  <2>1. PICK key \in PointKeys, spec \in PointSpecs \cup {Missing} :
          routes' = [r \in RouteKeys |->
            IF routes[r] # Missing /\ (spec = Missing /\ routes[r].owner = key)
              THEN Missing ELSE routes[r]]
    BY <1>9 DEF EditPoint
  <2> QED BY <2>1 DEF RoutesMove, PubTypes, RouteTypes
<1>10. CASE LoseRoute
  BY <1>10 DEF LoseRoute, RoutesMove, PubTypes, RouteTypes
<1> QED BY <1>1, <1>2, <1>3, <1>4, <1>5, <1>6, <1>7, <1>8, <1>9, <1>10 DEF Next

\* Every route was made for a Kode of its name.
LEMMA NextRoutes ==
  ASSUME PubInv, Grown, StatusMoves, RoutesMove
  PROVE  RoutesInv'
<1> SUFFICES ASSUME NEW r \in RouteKeys, routes'[r] # Missing
             PROVE  \E kode \in Kodes, key \in PointKeys, point \in PointSpecs :
                      MadeFor(r, kode, key, point)'
  BY DEF RoutesInv
<1>1. PubTypes /\ PortsInv
  BY DEF PubInv
<1>2. Untouched' => Untouched /\ UNCHANGED points
  BY DEF Grown, Untouched
<1>3. NotEdited' => NotEdited
  BY DEF Grown, NotEdited
<1>4. CASE routes'[r] = routes[r]
  <2>1. PICK kode \in Kodes, key \in PointKeys, point \in PointSpecs : MadeFor(r, kode, key, point)
    BY <1>4 DEF PubInv, RoutesInv
  <2>2. PICK n : n = routes'[r].port
    OBVIOUS
  <2>3. NotEdited' => Right(kode, n)'
    BY <1>1, <1>3, <1>4, <2>1, <2>2, RightStays DEF MadeFor
  <2>4. MadeFor(r, kode, key, point)'
    BY <1>2, <1>4, <2>1, <2>2, <2>3 DEF MadeFor, Right
  <2> QED BY <2>4
<1>5. CASE /\ theJob \in RouteJobs /\ r = theRoute
           /\ routes'[r] = HTTPRoute(theJob.kode, theJob.key, theJob.point, theJob.port)
  <2>1. theJob.kode \in Kodes /\ theJob.key \in PointKeys /\ theJob.point \in PointSpecs
    BY <1>5 DEF RouteJobs
  <2>2. PICK kode \in Kodes, key \in PointKeys, point \in PointSpecs, n \in Nat \ {0} :
          kode = theJob.kode /\ key = theJob.key /\ point = theJob.point /\ n = theJob.port
    BY <1>5, <2>1 DEF RouteJobs
  <2>3. r = RouteKey(kode, key) /\ routes'[r] = HTTPRoute(kode, key, point, n)
    BY <1>5, <2>2 DEF theRoute
  <2>4. routes'[r].port = n
    BY <2>3 DEF HTTPRoute
  <2>5. theJob # NoJob
    BY <1>5 DEF RouteJobs, NoJob
  <2>6. NotEdited' => Right(kode, n)
    BY <1>1, <1>3, <2>2, <2>5 DEF PortsInv, JobPortInv, theJob
  <2>7. NotEdited' => Right(kode, n)'
    BY <1>1, <2>6, RightStays
  <2>8. Untouched' => points'[key] = point
    BY <1>2, <1>5, <2>2 DEF PubInv, JobsInv
  <2>9. MadeFor(r, kode, key, point)'
    BY <2>3, <2>4, <2>7, <2>8 DEF MadeFor, Right
  <2> QED BY <2>9
<1> QED BY <1>4, <1>5 DEF RoutesMove

\* A route that is there stays.
LEMMA RouteStays ==
  ASSUME PubTypes, Grown, Untouched', NEW kode \in Kodes, NEW key \in PointKeys
  PROVE  Untouched /\ UNCHANGED points /\ (Has(kode, key) => Has(kode, key)')
<1>1. RouteKey(kode, key) \in RouteKeys
  BY DEF RouteKey, RouteKeys
<1> QED BY <1>1 DEF Grown, Untouched, Has

\* A worker never gets to the policy without the route, nor to the URL when a policy
\* is wanted.
LEMMA NextJobs == ASSUME PubInv, Grown, JobMoves PROVE JobsInv'
<1>1. PICK j : j = theJob'
  OBVIOUS
<1>2. PubTypes
  BY DEF PubInv
<1>3. ASSUME j \in RouteJobs, Untouched'
      PROVE  /\ points'[j.key] = j.point
             /\ j.step # "route" => Has(j.kode, j.key)'
             /\ j.step = "publish" => ~Secured(j.point)
  <2>1. /\ j.kode \in Kodes /\ j.key \in PointKeys /\ j # NoJob /\ j \notin PointJobs
        /\ j.step \in {"route", "policy", "publish"}
    BY <1>3 DEF RouteJobs, NoJob, PointJobs
  <2>2. Untouched /\ UNCHANGED points /\ (Has(j.kode, j.key) => Has(j.kode, j.key)')
    BY <1>2, <1>3, <2>1, RouteStays
  <2>3. CASE theJob' = theJob
    BY <1>1, <1>3, <2>2, <2>3 DEF PubInv, JobsInv
  <2>4. CASE theJob'.step = "route" /\ points[theJob'.key] = theJob'.point
    BY <1>1, <2>1, <2>2, <2>4
  <2>5. CASE /\ theJob \in RouteJobs /\ theJob.step = "route"
             /\ theJob' = [theJob EXCEPT !.step = "policy"]
             /\ routes'[RouteKey(theJob.kode, theJob.key)] # Missing
             /\ routes'[RouteKey(theJob.kode, theJob.key)].owner = theJob.key
    <3>1. j.key = theJob.key /\ j.kode = theJob.kode /\ j.point = theJob.point /\ j.step = "policy"
      BY <1>1, <2>5 DEF RouteJobs
    <3>2. points[j.key] = j.point
      BY <2>2, <2>5, <3>1 DEF PubInv, JobsInv
    <3> QED BY <2>2, <2>5, <3>1, <3>2 DEF Has
  <2>6. CASE /\ theJob \in RouteJobs /\ theJob.step = "policy"
             /\ theJob' = [theJob EXCEPT !.step = "publish"]
             /\ ~Secured(theJob.point)
    <3>1. j.key = theJob.key /\ j.kode = theJob.kode /\ j.point = theJob.point
      BY <1>1, <2>6 DEF RouteJobs
    <3>2. points[j.key] = j.point /\ Has(j.kode, j.key)
      BY <2>2, <2>6, <3>1 DEF PubInv, JobsInv
    <3> QED BY <2>2, <2>6, <3>1, <3>2
  <2> QED BY <1>1, <1>3, <2>1, <2>3, <2>4, <2>5, <2>6 DEF JobMoves, NextJob
<1> QED BY <1>1, <1>3 DEF JobsInv, Has, theJob

\* Only the last step of a route publishes, and the URL of that Kode.
UrlsMove ==
  /\ url' \in [Kodes -> Urls \cup {Missing}]
  /\ \A kode \in Kodes :
       \/ url'[kode] = url[kode]
       \/ /\ theJob \in RouteJobs /\ theJob.step = "publish" /\ kode = theJob.kode
          /\ url'[kode] = UrlOf(kode, theJob.point)

\* Steps that publish nothing.
LEMMA UrlsAlone == ASSUME PubTypes, UNCHANGED url PROVE UrlsMove
BY DEF PubTypes, UrlsMove

\* Nothing but Publish does.
LEMMA NextUrlsMove ==
  ASSUME TemplateInv, PubTypes, WorkersInv, [Next]_vars
  PROVE  UrlsMove
<1>1. CASE UNCHANGED vars
  BY <1>1, UrlsAlone DEF vars, kodeVars
<1>2. CASE \E w \in Workers : FetchAttempt(w) \/ FetchAgain(w)
  BY <1>2, UrlsAlone DEF FetchAttempt, FetchAgain, kodeVars
<1>3. CASE \E w \in KodeWorkers, kode \in Kodes : KodeReconcile(w, kode)
  BY <1>3, HitFits, ReturnStatus, UrlsAlone, WorkersAndRefs DEF KodeReconcile
<1>4. CASE \E w \in KodeWorkers, kode \in Kodes : KodeFetch(w, kode)
  BY <1>4, UrlsAlone DEF KodeFetch, kodeVars
<1>5. CASE \E w \in KodeWorkers : KodeStore(w)
  BY <1>5, GotFits, ReturnStatus, UrlsAlone, WorkersAndRefs DEF KodeStore
<1>6. CASE \E w \in KodeWorkers : KodeGivesUp(w)
  <2>1. PICK w \in KodeWorkers : KodeGivesUp(w)
    BY <1>6
  <2>2. Return(job[w].kode, Missing) /\ job[w].kode \in Kodes
    BY <2>1, Busy, WorkersAndRefs DEF KodeGivesUp, AttemptFails, Return
  <2> QED BY <2>2, ReturnStatus, UrlsAlone
<1>7. CASE \E kode \in Kodes : EPSkip(kode) \/ EPReconcile(kode) \/ EPFetch(kode)
  BY <1>7, UrlsAlone
     DEF EPSkip, EPReconcile, EPFetch, FindEntryPoint, EPFail, EPDone, kodeVars
<1>8. CASE EPStore \/ EPGivesUp
  BY <1>8, UrlsAlone DEF EPStore, EPGivesUp, FindEntryPoint, EPFail, EPDone, kodeVars
<1>9. CASE EnsureRoute \/ EnsurePolicy
  BY <1>9, UrlsAlone DEF EnsureRoute, EnsurePolicy, EPFail, EPGoto, kodeVars
<1>10. CASE Publish
  <2>1. theJob \in RouteJobs /\ theJob.step = "publish"
    BY <1>10, Busy DEF Publish
  <2>2. theJob.kode \in Kodes /\ theJob.point \in PointSpecs
    BY <2>1 DEF RouteJobs
  <2>3. UrlOf(theJob.kode, theJob.point) \in Urls
    BY <2>2 DEF Urls
  <2>4. CASE url' = [url EXCEPT ![theJob.kode] = UrlOf(theJob.kode, theJob.point)]
    BY <2>1, <2>2, <2>3, <2>4 DEF PubTypes, UrlsMove
  <2>5. CASE UNCHANGED url
    BY <2>5, UrlsAlone
  <2> QED BY <1>10, <2>4, <2>5 DEF Publish, EPFail, EPDone, kodeVars
<1>11. CASE EditTemplate \/ EditPoint \/ LoseRoute \/ Restart
  BY <1>11, UrlsAlone DEF EditTemplate, EditPoint, LoseRoute, Restart, kodeVars
<1> QED BY <1>1, <1>2, <1>3, <1>4, <1>5, <1>6, <1>7, <1>8, <1>9, <1>10, <1>11 DEF Next

\* What is published has its route, and no policy was wanted.
LEMMA NextUrls == ASSUME PubInv, Grown, UrlsMove PROVE UrlsInv'
<1> SUFFICES ASSUME NEW kode \in Kodes, url'[kode] # Missing
             PROVE  \E key \in PointKeys, point \in PointSpecs : PublishedBy(kode, key, point)'
  BY DEF UrlsInv
<1>1. PubTypes
  BY DEF PubInv
<1>2. Untouched' => Untouched
  BY DEF Grown, Untouched
<1>3. CASE url'[kode] = url[kode]
  <2>1. PICK key \in PointKeys, point \in PointSpecs : PublishedBy(kode, key, point)
    BY <1>3 DEF PubInv, UrlsInv
  <2>2. PublishedBy(kode, key, point)'
    BY <1>1, <1>2, <1>3, <2>1, RouteStays DEF PublishedBy
  <2> QED BY <2>2
<1>4. CASE /\ theJob \in RouteJobs /\ theJob.step = "publish" /\ kode = theJob.kode
           /\ url'[kode] = UrlOf(kode, theJob.point)
  <2>1. PICK key \in PointKeys, point \in PointSpecs : key = theJob.key /\ point = theJob.point
    BY <1>4 DEF RouteJobs
  <2>2. Untouched => points[key] = point /\ Has(kode, key) /\ ~Secured(point)
    BY <1>4, <2>1 DEF PubInv, JobsInv
  <2>3. PublishedBy(kode, key, point)'
    BY <1>1, <1>2, <1>4, <2>1, <2>2, RouteStays DEF PublishedBy
  <2> QED BY <2>3
<1> QED BY <1>3, <1>4 DEF UrlsMove

\* Nothing is there at the start.
LEMMA InitPub == Init => PubInv
<1> SUFFICES ASSUME Init PROVE PubInv
  OBVIOUS
<1>1. /\ phase = [kode \in Kodes |-> "Configuring"]
      /\ port = [kode \in Kodes |-> 0] /\ service = [kode \in Kodes |-> 0]
      /\ url = [kode \in Kodes |-> Missing] /\ routes = [key \in RouteKeys |-> Missing]
      /\ job = [w \in Workers |-> NoJob]
      /\ queue = Kodes /\ happened = {}
      /\ cache = [m \in Managers |-> [ref \in Refs |-> Missing]]
      /\ call = [w \in Workers |-> Idle]
  BY DEF Init, TemplateInit
<1>2. theJob = NoJob /\ NoJob.step = "none" /\ Idle.pc = "idle"
  BY <1>1, WorkersAndRefs DEF theJob, NoJob, Idle
<1>3. PubTypes
  BY <1>1, HistoriesAssumption DEF PubTypes, StatusTypes, RouteTypes, Phases, Jobs
<1>4. WorkersInv
  BY <1>1 DEF WorkersInv, WorkerFits
<1>5. PortsInv
  BY <1>1, <1>2 DEF PortsInv, CopiesInv, StatusInv, JobPortInv, theJob
<1>6. RoutesInv /\ UrlsInv
  BY <1>1 DEF RoutesInv, UrlsInv
<1>7. JobsInv
  BY <1>2 DEF JobsInv, RouteJobs
<1> QED BY <1>3, <1>4, <1>5, <1>6, <1>7 DEF PubInv

\* Every step keeps what is published in order.
LEMMA NextPub == ASSUME TemplateInv, PubInv, [Next]_vars PROVE PubInv'
<1>1. PubTypes /\ WorkersInv /\ TemplateTypeOK
  BY DEF PubInv, TemplateInv
<1>2. TemplateStep /\ Grown /\ StatusMoves /\ JobMoves /\ RoutesMove /\ UrlsMove
  BY <1>1, NextTemplateStep, NextGrown, NextStatus, NextJobMoves, NextRoutesMove, NextUrlsMove
<1>3. PubTypes'
  BY <1>2 DEF StatusMoves, RoutesMove, UrlsMove, JobMoves, Grown, PubTypes
<1>4. WorkersInv' /\ PortsInv' /\ RoutesInv' /\ JobsInv' /\ UrlsInv'
  BY <1>2, NextPorts, NextRoutes, NextJobs, NextUrls DEF JobMoves
<1> QED BY <1>3, <1>4 DEF PubInv

\* Statuses, routes and jobs agree with each other, in every state of every
\* instance.
THEOREM PublicationCorrect == Spec => []PubInv
<1>1. TemplateInv /\ PubInv /\ [Next]_vars => PubInv'
  BY NextPub
<1> QED BY <1>1, InitPub, TemplatesCorrect, PTL DEF Spec

\* Everything the two controllers write has the shape of what it is, and no worker is
\* at a step it has nothing to do at.
THEOREM PublicationTyped == Spec => []PublicationTypeOK
<1>1. TemplateInv /\ PubInv => PublicationTypeOK
  <2> SUFFICES ASSUME TemplateInv, PubInv PROVE PublicationTypeOK
    OBVIOUS
  <2>1. \A kode \in Kodes :
          url[kode] # Missing => \E point \in PointSpecs : url[kode] = UrlOf(kode, point)
    BY DEF PubInv, UrlsInv, PublishedBy
  <2>2. \A r \in RouteKeys :
          routes[r] # Missing => routes[r].owner \in PointKeys /\ routes[r].port \in Nat \ {0}
    BY DEF PubInv, PubTypes, RouteTypes, Routes
  <2>3. \A w \in Workers : job[w] # NoJob =>
          job[w].kode \in Kodes /\ (job[w].step = "fetch" <=> call[w] # Idle)
    <3>1. Idle.pc = "idle"
      BY DEF Idle
    <3> QED BY <3>1 DEF PubInv, WorkersInv, WorkerFits, Waits, KodeJobs, PointJobs, RouteJobs
  <2> QED BY <2>1, <2>2, <2>3
          DEF PublicationTypeOK, PubInv, PubTypes, StatusTypes, Phases, TemplateInv
<1> QED BY <1>1, TemplatesCorrect, PublicationCorrect, PTL

\* Whatever fails and is tried again, no URL of an EntryPoint with a SecurityPolicy is
\* published: what cannot be protected is held back.
THEOREM SecuredHeldBack == Spec => []SecuredUnpublished
<1>1. PubInv => SecuredUnpublished
  <2> SUFFICES ASSUME PubInv, NEW kode \in Kodes, NEW key \in PointKeys,
                      Published(kode), Untouched, Local(kode),
                      routes[RouteKey(kode, key)].owner = key
               PROVE  ~Secured(points[key])
    BY DEF SecuredUnpublished
  <2>1. PICK k2 \in PointKeys, point \in PointSpecs : PublishedBy(kode, k2, point)
    BY DEF Published, PubInv, UrlsInv
  <2>2. RouteKey(kode, k2) = RouteKey(kode, key)
    BY DEF Local, RouteKey
  <2>3. k2 = key
    BY <2>1, <2>2 DEF PublishedBy, Has
  <2> QED BY <2>1, <2>3 DEF PublishedBy
<1> QED BY <1>1, PublicationCorrect, PTL

\* For every set of Kodes, templates and EntryPoints: a URL that is published leads to
\* a route for its host, and that to the Kode's Service by the port the Service has.
THEOREM UrlsAreServed == Spec => []UrlServed
<1>1. PubInv => UrlServed
  <2> SUFFICES ASSUME PubInv, NEW kode \in Kodes, Published(kode), Untouched, Local(kode)
               PROVE  \E r \in RouteKeys :
                        /\ routes[r] # Missing /\ routes[r].host = url[kode].host
                        /\ routes[r].backend = kode.name /\ r.namespace = kode.namespace
                        /\ "editTemplate" \notin happened /\ Alone(kode) =>
                             routes[r].port = service[kode]
    BY DEF UrlServed
  <2>1. PICK key \in PointKeys, point \in PointSpecs : PublishedBy(kode, key, point)
    BY DEF Published, PubInv, UrlsInv
  <2> DEFINE r == RouteKey(kode, key)
  <2>2. /\ r \in RouteKeys /\ routes[r] # Missing /\ routes[r].owner = key
        /\ points[key] = point /\ url[kode] = UrlOf(kode, point)
    BY <2>1 DEF PublishedBy, Has, RouteKey, RouteKeys
  <2>3. r.namespace = key.namespace /\ r.name = kode.name /\ key.namespace = kode.namespace
    BY DEF RouteKey, Local
  <2> HIDE DEF r
  <2>4. PICK kode2 \in Kodes, key2 \in PointKeys, point2 \in PointSpecs :
          MadeFor(r, kode2, key2, point2)
    BY <2>2 DEF PubInv, RoutesInv
  <2>5. /\ routes[r].owner = key2 /\ routes[r].host = HostOf(kode2, point2)
        /\ routes[r].backend = kode2.name
    BY <2>4 DEF MadeFor, HTTPRoute
  <2>6. kode2.name = kode.name
    BY <2>3, <2>4 DEF MadeFor, RouteKey
  <2>7. point2 = point
    BY <2>2, <2>4, <2>5 DEF MadeFor
  <2>8. routes[r].host = url[kode].host
    BY <2>2, <2>5, <2>6, <2>7 DEF UrlOf, HostOf
  <2>9. "editTemplate" \notin happened /\ Alone(kode) => routes[r].port = service[kode]
    BY <2>4, <2>6 DEF MadeFor, NotEdited, Right, Alone
  <2> QED BY <2>2, <2>3, <2>5, <2>6, <2>8, <2>9
<1> QED BY <1>1, PublicationCorrect, PTL

\* However many Kodes are published by however many EntryPoints, two routes of a
\* namespace have different hosts, but for those of path routing.
THEOREM HostsStayApart == Spec => []HostsApart
<1>1. PubInv => HostsApart
  <2> SUFFICES ASSUME PubInv, Untouched, NEW q \in RouteKeys, NEW r \in RouteKeys,
                      q.namespace = r.namespace,
                      routes[q] # Missing, routes[r] # Missing, routes[q].host = routes[r].host,
                      points[routes[q].owner].routing # "path",
                      points[routes[r].owner].routing # "path"
               PROVE  q = r
    BY DEF HostsApart
  <2>1. ASSUME NEW t \in RouteKeys, routes[t] # Missing, points[routes[t].owner].routing # "path"
        PROVE  \E domain : routes[t].host = <<t.name, domain>>
    <3>1. PICK kode \in Kodes, key \in PointKeys, point \in PointSpecs : MadeFor(t, kode, key, point)
      BY <2>1 DEF PubInv, RoutesInv
    <3>2. routes[t].owner = key /\ routes[t].host = HostOf(kode, point)
      BY <3>1 DEF MadeFor, HTTPRoute
    <3>3. points[key] = point /\ t.name = kode.name
      BY <3>1 DEF MadeFor, RouteKey
    <3>4. point.routing = "subdomain"
      BY <2>1, <3>2, <3>3, PointsAssumption DEF EntryPointSpecs
    <3> QED BY <3>2, <3>3, <3>4 DEF HostOf
  <2>2. q.name = r.name
    <3>1. PICK c : routes[q].host = <<q.name, c>>
      BY <2>1
    <3>2. PICK d : routes[r].host = <<r.name, d>>
      BY <2>1
    <3>3. <<q.name, c>>[1] = <<r.name, d>>[1]
      BY <3>1, <3>2
    <3> QED BY <3>3
  <2> QED BY <2>2 DEF RouteKeys
<1> QED BY <1>1, PublicationCorrect, PTL

-----------------------------------------------------------------------------
(* How a call of Fetch fails.  Of the two things that make an attempt fail, *)
(* a call that fails happens once, and a template that is missing stays so: *)
(* as long as none was edited all are there, and an edit happens once too.  *)

ThereInv == NotEdited => \A ref \in Refs : stored[ServerKey(ref)] # Missing

\* An attempt that no failing call has ended has found no template.
TriesInv ==
  \A w \in Workers :
    call[w].pc = "attempt" /\ call[w].tries > 0 /\ "fault" \notin happened =>
      TemplateAt(call[w].ref) = Missing

\* What a step may do to the call a worker is in.
CallMoves(w) ==
  \/ call'[w] = call[w]
  \/ AttemptFails(w) /\ (AttemptAgain(w) \/ GiveUp(w))
  \/ call[w].pc = "attempt" /\ call'[w].pc = "storing"
  \/ call[w].pc # "attempt" /\ (call'[w].pc # "attempt" \/ call'[w].tries = 0)
  \/ call'[w] = Idle /\ "restart" \in happened' \ happened

\* Only the template manager's own steps and a restart touch a call.
LEMMA NextCallMoves ==
  ASSUME TemplateTypeOK, [Next]_vars, NEW w \in Workers
  PROVE  CallMoves(w)
<1>1. call \in [Workers -> Calls]
  BY DEF TemplateTypeOK, Calls
<1>2. CASE UNCHANGED vars
  BY <1>2 DEF vars, templateVars, CallMoves
<1>3. CASE \E v \in Workers : FetchAttempt(v)
  BY <1>1, <1>3 DEF FetchAttempt, Attempt, CallMoves, Calls
<1>4. CASE \/ \E v \in Workers : FetchAgain(v)
           \/ \E v \in KodeWorkers : KodeGivesUp(v)
           \/ EPGivesUp
  <2>1. PICK v \in Workers : AttemptFails(v) /\ (AttemptAgain(v) \/ GiveUp(v))
    BY <1>4, WorkersAndRefs DEF FetchAgain, KodeGivesUp, EPGivesUp
  <2>2. v # w => call'[w] = call[w]
    BY <1>1, <2>1 DEF AttemptAgain, GiveUp
  <2> QED BY <2>1, <2>2 DEF CallMoves
<1>5. CASE (\E v \in KodeWorkers : KodeStore(v)) \/ EPStore
  <2>1. PICK v \in Workers : Store(v)
    BY <1>5, WorkersAndRefs DEF KodeStore, EPStore
  <2>2. IF v = w THEN call[w].pc = "storing" /\ call'[w] = Idle ELSE call'[w] = call[w]
    BY <1>1, <2>1 DEF Store
  <2> QED BY <2>2 DEF CallMoves, Idle
<1>6. CASE \/ \E v \in KodeWorkers, kode \in Kodes : KodeFetch(v, kode)
           \/ \E kode \in Kodes : EPFetch(kode)
  <2>1. PICK v \in Workers, ref \in Refs : BeginFetch(v, ref)
    BY <1>6, WorkersAndRefs DEF KodeFetch, EPFetch
  <2>2. CASE v = w
    <3>1. call[w] = Idle /\ call'[w] = [Idle EXCEPT !.ref = ref, !.pc = "attempt"]
      BY <1>1, <2>1, <2>2 DEF BeginFetch
    <3>2. call[w].pc # "attempt" /\ call'[w].tries = 0
      BY <3>1 DEF Idle
    <3> QED BY <3>2 DEF CallMoves
  <2>3. CASE v # w
    BY <1>1, <2>1, <2>3 DEF BeginFetch, CallMoves
  <2> QED BY <2>2, <2>3
<1>7. CASE \/ \E v \in KodeWorkers, kode \in Kodes : KodeReconcile(v, kode)
           \/ \E kode \in Kodes : EPSkip(kode) \/ EPReconcile(kode)
           \/ EnsureRoute \/ EnsurePolicy \/ Publish \/ LoseRoute
  BY <1>7, OtherSteps DEF templateVars, CallMoves
<1>8. CASE EditTemplate \/ EditPoint
  BY <1>8 DEF EditTemplate, EditPoint, CallMoves
<1>9. CASE Restart
  BY <1>9 DEF Restart, Forgotten, Happens, CallMoves
<1> QED BY <1>2, <1>3, <1>4, <1>5, <1>6, <1>7, <1>8, <1>9 DEF Next

\* The templates at the server change once, by an edit.
LEMMA NextStored ==
  ASSUME TemplateTypeOK, [Next]_vars
  PROVE  UNCHANGED stored \/ (NotEdited /\ ~NotEdited')
<1>1. CASE EditTemplate
  BY <1>1 DEF EditTemplate, Happens, NotEdited
<1>2. CASE EditPoint \/ UNCHANGED vars
  BY <1>2 DEF EditPoint, vars, templateVars
<1>3. CASE \/ \E w \in Workers : FetchAttempt(w) \/ FetchAgain(w)
           \/ \E w \in KodeWorkers : KodeStore(w) \/ KodeGivesUp(w)
           \/ EPStore \/ EPGivesUp
  BY <1>3, FetchSteps DEF Attempt, AttemptAgain, GiveUp, Store
<1>4. CASE \/ \E w \in KodeWorkers, kode \in Kodes : KodeReconcile(w, kode)
           \/ \E kode \in Kodes : EPSkip(kode) \/ EPReconcile(kode)
           \/ EnsureRoute \/ EnsurePolicy \/ Publish \/ LoseRoute
  BY <1>4, OtherSteps DEF templateVars
<1>5. CASE \/ \E w \in KodeWorkers, kode \in Kodes : KodeFetch(w, kode)
           \/ \E kode \in Kodes : EPFetch(kode)
  BY <1>5 DEF KodeFetch, EPFetch, BeginFetch
<1>6. CASE Restart
  BY <1>6 DEF Restart, Forgotten
<1> QED BY <1>1, <1>2, <1>3, <1>4, <1>5, <1>6 DEF Next

\* A template found missing is missing in the next state too.
LEMMA StaysMissing ==
  ASSUME TemplateTypeOK, ThereInv, [Next]_vars, NEW ref \in Refs, TemplateAt(ref) = Missing
  PROVE  TemplateAt(ref)' = Missing
<1>1. CASE UNCHANGED stored
  BY <1>1 DEF TemplateAt
<1>2. CASE NotEdited /\ ~NotEdited'
  BY <1>2 DEF ThereInv, TemplateAt
<1> QED BY <1>1, <1>2, NextStored

\* An attempt that follows another one has found the template missing.
LEMMA NextTries ==
  ASSUME TemplateInv, PubInv, ThereInv, TriesInv, [Next]_vars
  PROVE  ThereInv' /\ TriesInv'
<1>1. Grown /\ TemplateTypeOK /\ call \in [Workers -> Calls]
  BY NextGrown DEF PubInv, TemplateInv, TemplateTypeOK, Calls
<1>2. ThereInv'
  BY <1>1 DEF Grown, ThereInv, NotEdited
<1>3. TriesInv'
  <2> SUFFICES ASSUME NEW w \in Workers, call'[w].pc = "attempt", call'[w].tries > 0,
                      "fault" \notin happened'
               PROVE  TemplateAt(call[w].ref)' = Missing /\ call'[w].ref = call[w].ref
    BY DEF TriesInv, TemplateAt
  <2>1. "fault" \notin happened
    BY <1>1 DEF Grown
  <2>2. call[w].pc = "attempt" /\ call'[w].ref = call[w].ref /\ TemplateAt(call[w].ref) = Missing
    <3>1. CASE call'[w] = call[w]
      BY <2>1, <3>1 DEF TriesInv
    <3>2. CASE AttemptFails(w) /\ AttemptAgain(w)
      BY <1>1, <3>2 DEF AttemptFails, AttemptAgain, Fault, Happens, Calls
    <3>3. ~GiveUp(w) /\ call'[w] # Idle
      BY <1>1 DEF GiveUp, Idle
    <3> QED BY <1>1, <3>1, <3>2, <3>3, NextCallMoves DEF CallMoves
  <2>3. call[w].ref \in Refs
    BY <2>2 DEF TemplateInv, FoundNone, CallFits
  <2> QED BY <1>1, <2>2, <2>3, StaysMissing
<1> QED BY <1>2, <1>3

\* With two attempts or more (the code has five), one failing call to the server never
\* fails a fetch: a call of Fetch that fails has been through all of its attempts, and
\* the template was missing in the last.
THEOREM FetchFailsLate == ASSUME Attempts > 1 PROVE Spec => FailsLate
<1>1. Init => ThereInv /\ TriesInv
  <2> SUFFICES ASSUME Init PROVE ThereInv /\ TriesInv
    OBVIOUS
  <2>1. stored \in [Keys -> TemplateSpecs] /\ call = [w \in Workers |-> Idle]
    BY DEF Init, TemplateInit, Keys
  <2> QED BY <2>1, MissingAssumption DEF ThereInv, TriesInv, Keys, Idle
<1>2. TemplateInv /\ PubInv /\ ThereInv /\ TriesInv /\ [Next]_vars => ThereInv' /\ TriesInv'
  BY NextTries
<1>3. TemplateInv /\ TriesInv /\ [Next]_vars =>
        [\A w \in Workers :
           call[w].pc = "attempt" /\ call'[w] = Idle /\ "restart" \notin happened' \ happened =>
             call[w].tries + 1 = Attempts /\ TemplateAt(call[w].ref) = Missing]_vars
  <2> SUFFICES ASSUME TemplateInv, TriesInv, [Next]_vars, NEW w \in Workers,
                      call[w].pc = "attempt", call'[w] = Idle,
                      "restart" \notin happened' \ happened
               PROVE  call[w].tries + 1 = Attempts /\ TemplateAt(call[w].ref) = Missing
    OBVIOUS
  <2>1. TemplateTypeOK /\ call \in [Workers -> Calls] /\ Idle.pc = "idle"
    BY DEF TemplateInv, TemplateTypeOK, Calls, Idle
  <2>2. AttemptFails(w) /\ GiveUp(w)
    <3>1. ~AttemptAgain(w)
      BY <2>1 DEF AttemptAgain, Calls
    <3> QED BY <2>1, <3>1, NextCallMoves DEF CallMoves
  <2>3. call[w].tries + 1 = Attempts /\ call[w].tries > 0
    BY <2>1, <2>2, AttemptsAssumption DEF GiveUp, LastAttempt, Calls
  <2> QED BY <2>2, <2>3 DEF AttemptFails, Fault, Happens, TriesInv
<1> QED BY <1>1, <1>2, <1>3, TemplatesCorrect, PublicationCorrect, PTL DEF Spec, FailsLate
=============================================================================
