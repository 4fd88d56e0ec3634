------------------------------ MODULE Publication ------------------------------
(***************************************************************************)
(* From a template and an EntryPoint to the URL of a Kode: two controllers,*)
(* each with its own template manager.  The Kode controller turns the port *)
(* of the template it knows into a Service and a port in the status; the   *)
(* EntryPoint controller turns the EntryPoint named by the template it     *)
(* knows into an HTTPRoute and a URL in the status                         *)
(* (internal/controllers/entrypoint, GenerateKodeUrlForEntryPoint).  The   *)
(* SecurityPolicy that belongs between the two is never made.              *)
(*                                                                         *)
(* Of a reconcile of the Kode controller only what depends on the template *)
(* is kept: pods come up at once, and a status is read and written up to   *)
(* date (Operator takes care of its copies).                               *)
(***************************************************************************)
EXTENDS TemplateManager, Sequences

CONSTANTS
  Kodes,          \* [namespace, name, ref]
  KodeWorkers, EPWorker,  \* the two workers of one controller, the one of the other
  Histories       \* bound: the sets of AllEvents that may happen in a run, once each

AllEvents == {"editTemplate", "editPoint", "loseRoute", "restart", "fault"}

ASSUME KodesAssumption ==
  Kodes \subseteq [namespace : STRING \ {""}, name : STRING, ref : Refs]
ASSUME WorkersAssumption == Workers = KodeWorkers \cup {EPWorker} /\ EPWorker \notin KodeWorkers
\* gateway: gatewaySpec is set, and an existing gateway it refers to is given with its
\* namespace; https: its protocol; policy: authSpec has a securityPolicySpec.
EntryPointSpecs ==
  [routing : {"subdomain", "path"}, domain : STRING, gateway : BOOLEAN,
   https : BOOLEAN, policy : BOOLEAN]
ASSUME PointsAssumption == PointSpecs \subseteq EntryPointSpecs
\* A route that is there is not Missing.
ASSUME RoutesAssumption ==
  Missing \notin [owner : PointKeys, host : Seq(STRING), prefix : {<<>>},
                  backend : STRING, port : Nat]
ASSUME HistoriesAssumption == {} \in Histories /\ Histories \subseteq SUBSET AllEvents

VARIABLES
  phase,          \* the phase of each Kode
  port,           \* the port in its status, 0 when not set
  url,            \* the URL in its status, or Missing
  service,        \* the port of its Service, 0 when there is none
  routes,         \* HTTPRoutes by [namespace, name]
  job,            \* what each worker is busy with
  queue,          \* the Kodes the EntryPoint controller is to look at
  happened        \* the events there have been

kodeVars == <<phase, port, url, service>>
vars == <<templateVars, kodeVars, routes, job, queue, happened>>

RouteKeys == {[namespace |-> key.namespace, name |-> kode.name] :
                key \in PointKeys, kode \in Kodes}

-----------------------------------------------------------------------------
(* What an EntryPoint makes of a Kode *)

\* GenerateKodeUrlForEntryPoint: the scheme, the host and the path of the URL.
HostOf(kode, point) ==
  IF point.routing = "subdomain" THEN <<kode.name, point.domain>> ELSE <<point.domain>>

PathOf(kode, point) == IF point.routing = "subdomain" THEN <<>> ELSE <<kode.name>>

UrlOf(kode, point) ==
  [https |-> point.https, host |-> HostOf(kode, point), path |-> PathOf(kode, point)]

RouteKey(kode, key) == [namespace |-> key.namespace, name |-> kode.name]

\* Variant: the host is the base domain whatever the routing.
HTTPRouteBase(kode, key, point, toPort) ==
  [owner |-> key, host |-> <<point.domain>>, prefix |-> <<>>,
   backend |-> kode.name, port |-> toPort]

\* constructHTTPRoute: every path of the host goes to the Service of that name.
HTTPRoute(kode, key, point, toPort) ==
  [owner |-> key, host |-> HostOf(kode, point), prefix |-> <<>>,
   backend |-> kode.name, port |-> toPort]

-----------------------------------------------------------------------------
(* The Kode controller *)

NoJob == [kode |-> Missing, step |-> "none"]

Init ==
  /\ TemplateInit
  /\ phase = [kode \in Kodes |-> "Configuring"]
  /\ port = [kode \in Kodes |-> 0] /\ service = [kode \in Kodes |-> 0]
  /\ url = [kode \in Kodes |-> Missing]
  /\ routes = [key \in RouteKeys |-> Missing]
  /\ job = [w \in Workers |-> NoJob]
  /\ queue = Kodes /\ happened = {}

\* Variant: only a new generation is an event (the predicate SetupWithManager has
\* commented out).
UpdateUnseen(kode, p, n, s) ==
  /\ phase' = [phase EXCEPT ![kode] = p]
  /\ port' = [port EXCEPT ![kode] = n]
  /\ service' = [service EXCEPT ![kode] = s]
  /\ UNCHANGED <<url, queue>>

\* The status of a Kode changes: the EntryPoint controller will see it.
Update(kode, p, n, s) ==
  /\ phase' = [phase EXCEPT ![kode] = p]
  /\ port' = [port EXCEPT ![kode] = n]
  /\ service' = [service EXCEPT ![kode] = s]
  /\ queue' = IF phase[kode] # p \/ port[kode] # n THEN queue \cup {kode} ELSE queue
  /\ UNCHANGED url

\* What the handler of the phase does with the template.  Provisioning only looks;
\* an update without changes leaves the port to the next look at an Active Kode;
\* recovery goes by way of Pending, which only validates the spec.
Reconcile(kode, template) ==
  LET fits == service[kode] = template.port
  IN  CASE phase[kode] = "Configuring" ->
             Update(kode, "Provisioning", port[kode], template.port)
        [] phase[kode] \in {"Provisioning", "Active"} /\ fits ->
             Update(kode, "Active", template.port, service[kode])
        [] phase[kode] = "Provisioning" /\ ~fits ->
             Update(kode, "Provisioning", port[kode], service[kode])
        [] phase[kode] = "Active" /\ ~fits ->
             Update(kode, "Updating", port[kode], service[kode])
        [] phase[kode] = "Updating" ->
             Update(kode, "Active", IF fits THEN port[kode] ELSE template.port, template.port)
        [] phase[kode] = "Failed" ->
             Update(kode, IF fits THEN "Configuring" ELSE "Provisioning",
                    port[kode], service[kode])

\* Without a template a recovery starts over; every other handler tries again.
ReconcileWithout(kode) ==
  Update(kode, IF phase[kode] = "Failed" THEN "Configuring" ELSE phase[kode],
         port[kode], service[kode])

\* A reconcile goes on with the template at once; what may come between is for
\* KodeController and Operator to say.
Return(kode, template) ==
  IF template = Missing THEN ReconcileWithout(kode) ELSE Reconcile(kode, template)

\* A Kode is with one worker at a time; one that is not Active or whose next look
\* is due is always in the queue.  Which of the idle workers takes it makes no
\* difference.
Free(w, kode) ==
  /\ \A v \in KodeWorkers : job[v].kode # kode
  /\ job[w] = NoJob /\ w = CHOOSE v \in KodeWorkers : job[v] = NoJob

\* A reconcile that has its template from the map.
KodeReconcile(w, kode) ==
  /\ Free(w, kode) /\ AtOnce(w, kode.ref)
  /\ Return(kode, Hit(w, kode.ref))
  /\ UNCHANGED <<templateVars, routes, job, happened>>

\* One that has to fetch it.
KodeFetch(w, kode) ==
  /\ Free(w, kode) /\ BeginFetch(w, kode.ref)
  /\ job' = [job EXCEPT ![w] = [kode |-> kode, step |-> "fetch"]]
  /\ UNCHANGED <<kodeVars, routes, queue, happened>>

KodeStore(w) ==
  /\ Store(w) /\ Return(job[w].kode, call[w].got)
  /\ job' = [job EXCEPT ![w] = NoJob]
  /\ UNCHANGED <<routes, happened>>

-----------------------------------------------------------------------------
(* The EntryPoint controller *)

EPSkip(kode) ==
  /\ job[EPWorker] = NoJob /\ kode \in queue /\ phase[kode] # "Active"
  /\ queue' = queue \ {kode}
  /\ UNCHANGED <<templateVars, kodeVars, routes, job, happened>>

theJob == job[EPWorker]

EPDone(kode, requeue) ==
  /\ job' = [job EXCEPT ![EPWorker] = NoJob]
  /\ queue' = IF requeue THEN queue \cup {kode} ELSE queue \ {kode}
  /\ UNCHANGED kodeVars

\* The Kode is failed, and looked at again.
EPFail(kode) ==
  /\ phase' = [phase EXCEPT ![kode] = "Failed"]
  /\ job' = [job EXCEPT ![EPWorker] = NoJob]
  /\ queue' = queue \cup {kode}
  /\ UNCHANGED <<port, url, service>>

\* InitEntryPointResourcesConfig dereferences the gateway and its namespace.
ConfigPanics(point) == ~point.gateway

\* findEntryPointForKode and what follows up to the routes, with a template and the
\* port of the copy.  The EntryPoint is read anew.  A panic is tried again; so a
\* reference without a namespace, which panics, ends like one to no EntryPoint.
FindEntryPoint(kode, template, thePort) ==
  LET key   == template.entryPoint
      point == PointAt(key)
  IN  \/ template = Missing /\ EPFail(kode)
      \/ template # Missing /\ key = Missing /\ EPFail(kode)
      \/ template # Missing /\ key # Missing /\ point = Missing /\ EPDone(kode, TRUE)
      \/ /\ template # Missing /\ key # Missing /\ point # Missing
         /\ \/ ConfigPanics(point) /\ EPDone(kode, TRUE)
            \/ ~ConfigPanics(point) /\ url[kode] = UrlOf(kode, point) /\ EPDone(kode, FALSE)
            \/ /\ ~ConfigPanics(point) /\ url[kode] # UrlOf(kode, point)
               /\ thePort = 0 /\ EPDone(kode, TRUE)
            \/ /\ ~ConfigPanics(point) /\ url[kode] # UrlOf(kode, point) /\ thePort # 0
               /\ job' = [job EXCEPT ![EPWorker] =
                    [kode |-> kode, step |-> "route", port |-> thePort,
                     key |-> key, point |-> point]]
               /\ queue' = queue \ {kode} /\ UNCHANGED kodeVars

Due(kode) == job[EPWorker] = NoJob /\ kode \in queue /\ phase[kode] = "Active"

EPReconcile(kode) ==
  /\ Due(kode) /\ AtOnce(EPWorker, kode.ref)
  /\ FindEntryPoint(kode, Hit(EPWorker, kode.ref), port[kode])
  /\ UNCHANGED <<templateVars, routes, happened>>

\* The copy of the status is taken here.
EPFetch(kode) ==
  /\ Due(kode) /\ BeginFetch(EPWorker, kode.ref)
  /\ queue' = queue \ {kode}
  /\ job' = [job EXCEPT ![EPWorker] = [kode |-> kode, step |-> "fetch", port |-> port[kode]]]
  /\ UNCHANGED <<kodeVars, routes, happened>>

EPStore ==
  /\ Store(EPWorker) /\ FindEntryPoint(theJob.kode, call[EPWorker].got, theJob.port)
  /\ UNCHANGED <<routes, happened>>

theRoute == RouteKey(theJob.kode, theJob.key)

EPGoto(step) == job' = [job EXCEPT ![EPWorker].step = step] /\ UNCHANGED <<kodeVars, queue>>

Happens(event) ==
  /\ event \notin happened
  /\ happened' = happened \cup {event} /\ happened' \in Histories

\* A call fails.
Fault == Happens("fault")

\* Variant: the URL is published first.
EnsureRouteLast ==
  /\ theJob.step = "route" /\ EPGoto("policy")
  /\ UNCHANGED <<templateVars, routes, happened>>

\* createOrUpdateRoute: a route that exists keeps its content and must have the same
\* owner.
EnsureRoute ==
  /\ theJob.step = "route"
  /\ \/ /\ routes[theRoute] = Missing
        /\ routes' = [routes EXCEPT ![theRoute] =
             HTTPRoute(theJob.kode, theJob.key, theJob.point, theJob.port)]
        /\ EPGoto("policy") /\ UNCHANGED happened
     \/ /\ routes[theRoute] # Missing /\ routes[theRoute].owner = theJob.key
        /\ EPGoto("policy") /\ UNCHANGED <<routes, happened>>
     \/ /\ routes[theRoute] # Missing /\ routes[theRoute].owner # theJob.key
        /\ EPFail(theJob.kode) /\ UNCHANGED <<routes, happened>>
     \/ Fault /\ EPFail(theJob.kode) /\ UNCHANGED routes
  /\ UNCHANGED templateVars

Secured(point) == point.https /\ point.policy

\* Variant: a policy that cannot be made is done without.
EnsurePolicyIfPossible ==
  /\ theJob.step = "policy" /\ EPGoto("publish")
  /\ UNCHANGED <<templateVars, routes, happened>>

\* createOrUpdateSecurityPolicy, for an EntryPoint with a policy and https.  The scheme
\* of the manager does not know the type, so every attempt to make one fails.
EnsurePolicy ==
  /\ theJob.step = "policy"
  /\ \/ ~Secured(theJob.point) /\ EPGoto("publish")
     \/ Secured(theJob.point) /\ EPFail(theJob.kode)
  /\ UNCHANGED <<templateVars, routes, happened>>

\* Two writes: the conditions, whose failure fails the Kode, and the URL.
Publish ==
  /\ theJob.step = "publish"
  /\ \/ /\ url' = [url EXCEPT ![theJob.kode] = UrlOf(theJob.kode, theJob.point)]
        /\ job' = [job EXCEPT ![EPWorker] = NoJob]
        /\ queue' = queue \cup {theJob.kode}
        /\ UNCHANGED <<phase, port, service, happened>>
     \/ Fault /\ (EPFail(theJob.kode) \/ EPDone(theJob.kode, TRUE))
  /\ UNCHANGED <<templateVars, routes>>

-----------------------------------------------------------------------------
(* Calls that fail, users, the process                                     *)

FetchAttempt(w) ==
  /\ Attempt(w)
  /\ UNCHANGED <<kodeVars, routes, job, queue, happened>>

\* An attempt fails on a template that is not there or on a call that fails.
AttemptFails(w) ==
  \/ call[w].pc = "attempt" /\ TemplateAt(call[w].ref) = Missing /\ UNCHANGED happened
  \/ call[w].pc = "attempt" /\ TemplateAt(call[w].ref) # Missing /\ Fault

FetchAgain(w) ==
  /\ AttemptFails(w) /\ AttemptAgain(w)
  /\ UNCHANGED <<kodeVars, routes, job, queue>>

\* Variant: the worker keeps the Kode.
KodeGivesUpKeeping(w) ==
  /\ AttemptFails(w) /\ GiveUp(w)
  /\ ReconcileWithout(job[w].kode)
  /\ UNCHANGED <<routes, job>>

KodeGivesUp(w) ==
  /\ AttemptFails(w) /\ GiveUp(w)
  /\ ReconcileWithout(job[w].kode) /\ job' = [job EXCEPT ![w] = NoJob]
  /\ UNCHANGED routes

EPGivesUp ==
  /\ AttemptFails(EPWorker) /\ GiveUp(EPWorker)
  /\ EPFail(theJob.kode)
  /\ UNCHANGED routes

\* A template is created, changed or deleted.
EditTemplate ==
  /\ Happens("editTemplate")
  /\ \E key \in DOMAIN stored, spec \in TemplateSpecs \cup {Missing} :
       stored' = [stored EXCEPT ![key] = spec]
  /\ UNCHANGED <<points, cache, call, kodeVars, routes, job, queue>>

\* An EntryPoint is created, changed or deleted; the garbage collector takes what
\* one that is gone owned.
EditPoint ==
  /\ Happens("editPoint")
  /\ \E key \in PointKeys, spec \in PointSpecs \cup {Missing} :
       LET orphan(owner) == spec = Missing /\ owner = key
       IN  /\ points' = [points EXCEPT ![key] = spec]
           /\ routes' = [r \in RouteKeys |->
                IF routes[r] # Missing /\ orphan(routes[r].owner) THEN Missing ELSE routes[r]]
  /\ UNCHANGED <<stored, cache, call, kodeVars, job, queue>>

\* The event goes to the owner of the route, the EntryPoint, by a key under which
\* Reconcile looks for a Kode.
LoseRoute ==
  /\ Happens("loseRoute")
  /\ \E r \in RouteKeys : routes[r] # Missing /\ routes' = [routes EXCEPT ![r] = Missing]
  /\ UNCHANGED <<templateVars, kodeVars, job, queue>>

\* The process stops and starts: what it remembers is gone.
Restart ==
  /\ Happens("restart")
  /\ Forgotten /\ job' = [w \in Workers |-> NoJob] /\ queue' = Kodes
  /\ UNCHANGED <<kodeVars, routes>>

Next ==
  \/ \E w \in Workers : FetchAttempt(w) \/ FetchAgain(w)
  \/ \E w \in KodeWorkers, kode \in Kodes : KodeReconcile(w, kode) \/ KodeFetch(w, kode)
  \/ \E w \in KodeWorkers : KodeStore(w) \/ KodeGivesUp(w)
  \/ \E kode \in Kodes : EPSkip(kode) \/ EPReconcile(kode) \/ EPFetch(kode)
  \/ EPStore \/ EPGivesUp \/ EnsureRoute \/ EnsurePolicy \/ Publish
  \/ EditTemplate \/ EditPoint \/ LoseRoute \/ Restart

Spec == Init /\ [][Next]_vars

\* A worker goes on with what it is at; a queue hands out its Kodes in turn, so that
\* one that is there again and again is taken.
Fairness ==
  /\ \A w \in KodeWorkers :
       WF_vars(FetchAttempt(w) \/ FetchAgain(w) \/ KodeStore(w) \/ KodeGivesUp(w))
  /\ WF_vars(\/ FetchAttempt(EPWorker) \/ FetchAgain(EPWorker) \/ EPStore \/ EPGivesUp
             \/ EnsureRoute \/ EnsurePolicy \/ Publish)
  /\ \A kode \in Kodes :
       /\ WF_vars(\E w \in KodeWorkers : KodeReconcile(w, kode) \/ KodeFetch(w, kode))
       /\ SF_vars(EPSkip(kode) \/ EPReconcile(kode) \/ EPFetch(kode))

FairSpec == Spec /\ Fairness

-----------------------------------------------------------------------------
(* Safety *)

\* Statuses and routes have the shape of what they are, and no worker is
\* at a step it has nothing to do at.
PublicationTypeOK ==
  /\ TemplateTypeOK
  /\ phase \in [Kodes -> {"Configuring", "Provisioning", "Active", "Updating", "Failed"}]
  /\ port \in [Kodes -> Nat] /\ service \in [Kodes -> Nat]
  /\ \A kode \in Kodes :
       url[kode] # Missing => \E point \in PointSpecs : url[kode] = UrlOf(kode, point)
  /\ \A r \in RouteKeys :
       routes[r] # Missing => routes[r].owner \in PointKeys /\ routes[r].port \in Nat \ {0}
  /\ \A w \in Workers : job[w] # NoJob =>
       /\ job[w].kode \in Kodes
       /\ job[w].step = "fetch" <=> call[w] # Idle
  /\ queue \subseteq Kodes /\ happened \in Histories

Published(kode) == url[kode] # Missing

Untouched == happened \cap {"editPoint", "loseRoute"} = {}

\* The Kode lives where the EntryPoint does: a backend without a namespace is one in
\* the namespace of the route.
Local(kode) == \A key \in PointKeys : key.namespace = kode.namespace

\* No Kode of another namespace has its name.  Where one has and is published through
\* the same EntryPoint, the two share the route and the port of the first.
Alone(kode) == \A other \in Kodes : other.name = kode.name => other = kode

\* A published URL is served: as long as nobody touches the EntryPoint or the route
\* there is a route for its host that leads to the Kode's Service, by the port of
\* that Service unless the template got another since.
UrlServed ==
  \A kode \in Kodes : Published(kode) /\ Untouched /\ Local(kode) =>
    \E r \in RouteKeys :
      /\ routes[r] # Missing /\ routes[r].host = url[kode].host
      /\ routes[r].backend = kode.name /\ r.namespace = kode.namespace
      /\ "editTemplate" \notin happened /\ Alone(kode) => routes[r].port = service[kode]

\* No URL of an EntryPoint with a SecurityPolicy is published, on whatever path of
\* retries and faults: its policy cannot be made, and without it the URL is held back.
\* The route, made before, is there all the same.
SecuredUnpublished ==
  \A kode \in Kodes, key \in PointKeys : Published(kode) /\ Untouched /\ Local(kode) =>
    LET route == RouteKey(kode, key)
    IN  routes[route] # Missing /\ routes[route].owner = key => ~Secured(points[key])

\* Two routes of a namespace never share a host, unless one was made for path routing:
\* its path is in the URL but not in the route.  Between namespaces they do as soon as
\* two EntryPoints are given the same base domain, which nothing forbids.
HostsApart ==
  Untouched => \A q, r \in {key \in RouteKeys : routes[key] # Missing} :
    q # r /\ q.namespace = r.namespace /\ routes[q].host = routes[r].host =>
      \E t \in {q, r} : points[routes[t].owner].routing = "path"

\* What the template manager hands out never holds the spec of an EntryPoint, the
\* one of the template's reference included: fecthEntryPoint asks for it without a
\* namespace.  So the basic authentication of the envoy sidecar is never on.
EntryPointNeverFound ==
  \A m \in Managers, ref \in Refs :
    cache[m][ref] # Missing => cache[m][ref].entryPointSpec = Missing

\* A call of Fetch that fails has been through all its attempts and found no template
\* in the last: one call to the server that fails never fails it, and a missing
\* template is waited for like a failing server.
FailsLate ==
  [][\A w \in Workers :
       call[w].pc = "attempt" /\ call'[w] = Idle /\ "restart" \notin happened' \ happened =>
         call[w].tries + 1 = Attempts /\ TemplateAt(call[w].ref) = Missing]_vars

\* The entry is there and no worker is about to write it again.
Settled(m, ref) ==
  /\ cache[m][ref] # Missing
  /\ \A w \in Workers : ManagerOf[w] = m => call[w].ref # ref

\* Once it has settled, what a controller takes for the template never changes until
\* the process restarts: no edit is seen, and no late answer overwrites it.
CacheHolds ==
  [][\A m \in Managers, ref \in Refs :
       Settled(m, ref) /\ "restart" \notin happened' \ happened =>
         Settled(m, ref)' /\ cache'[m][ref] = cache[m][ref]]_vars

-----------------------------------------------------------------------------
(* Liveness *)

\* What a controller sees of the template, once it has tried.
Seen(m, kode) ==
  IF cache[m][kode.ref] # Missing THEN cache[m][kode.ref] ELSE TemplateAt(kode.ref)

\* One of the controllers finds no template.
TemplateLacking(kode) == \E m \in Managers : Seen(m, kode) = Missing

\* The template names no EntryPoint, or one that is missing or has no gateway.
PointLacking(kode) ==
  LET template == Seen(ManagerOf[EPWorker], kode)
  IN  \/ template.entryPoint = Missing
      \/ PointAt(template.entryPoint) = Missing
      \/ ConfigPanics(PointAt(template.entryPoint))

\* Another EntryPoint owns the route of that name.
RouteTaken(kode) ==
  LET template == Seen(ManagerOf[EPWorker], kode)
      route    == routes[RouteKey(kode, template.entryPoint)]
  IN  route # Missing /\ route.owner # template.entryPoint

\* The template has got another port in the middle of Provisioning, where nothing
\* but waiting is done.
ProvisioningStuck(kode) ==
  /\ phase[kode] = "Provisioning"
  /\ service[kode] # Seen(ManagerOf[CHOOSE w \in KodeWorkers : TRUE], kode).port

\* The EntryPoint wants a SecurityPolicy.
PolicyImpossible(kode) ==
  Secured(PointAt(Seen(ManagerOf[EPWorker], kode).entryPoint))

\* In the end every Kode is Active with a URL, the port in its status is that of its
\* Service, and it stays so, unless one of the five reasons holds.
Publishes ==
  <>[](\A kode \in Kodes :
         \/ phase[kode] = "Active" /\ Published(kode) /\ port[kode] = service[kode]
         \/ TemplateLacking(kode) \/ PointLacking(kode) \/ RouteTaken(kode)
         \/ ProvisioningStuck(kode) \/ PolicyImpossible(kode))
=============================================================================
