----------------------------- MODULE KodeResources -----------------------------
(***************************************************************************)
(* The children of a Kode, field by field: what the operator builds from a *)
(* spec and a template, what change detection sees of it, what is written, *)
(* what validation and the readiness checks ask for.                       *)
(*                                                                         *)
(* KodeController treats a child as "built from a spec" and leaves open    *)
(* what that means; this module says it.  In exchange a pass over the      *)
(* children is all it keeps of a reconcile: the caches are up to date, the *)
(* calls succeed unless the server must refuse them, and the phases are    *)
(* those a pass can move between.  Templates do not change: the template   *)
(* manager keeps what it has fetched.                                      *)
(***************************************************************************)
EXTENDS Integers, Sequences

CONSTANTS
  Specs,          \* the specs a user may submit
  Templates,      \* the templates by name
  UserSecrets,    \* what the secret that existingSecret names may hold, or Absent
  UserClaims,     \* the claims that existingVolumeClaim may name, or Absent
  Absent,         \* no such object
  MaxEdits,       \* bound: how often the spec is edited
  MaxScales       \* bound: how often somebody scales the StatefulSet to zero

\* existing: existingSecret set; auth: enableBuiltinAuth.  "" is a field not given.
Credentials == [user : STRING, password : STRING, auth : BOOLEAN, existing : BOOLEAN]
\* given: storage # nil; existing: existingVolumeClaim set; keep: keepVolume; a
\* size of 0 is a storage without resources.
Storage == [given : BOOLEAN, existing : BOOLEAN, keep : BOOLEAN,
            modes : Seq(STRING), class : STRING, size : Nat]
Plugin == [name : STRING, image : STRING, args : STRING]
KodeSpec == [cred : Credentials, home : STRING, workspace : STRING,
          plugins : Seq(Plugin), storage : Storage, template : STRING]
\* Of an EntryPoint only the basic authentication it asks for is meant to reach a
\* pod; the template manager never finds the EntryPoint (TemplateManager), so no
\* instance sets it.
Template == [type : {"code-server", "webtop"}, image : STRING, env : STRING,
             home : STRING, workspace : STRING, port : Nat, runtime : STRING,
             plugins : Seq(Plugin), basicAuth : BOOLEAN]
\* keys: those its data have; one that is not there reads as "".
Secret == [user : STRING, password : STRING,
           keys : SUBSET {"username", "password", "other"}, label : STRING]
Claim == [modes : Seq(STRING), class : STRING, size : Nat]

ASSUME ResSpecsAssumption ==
  /\ Specs # {} /\ Specs \subseteq KodeSpec
  /\ \A s \in Specs : s.template \in DOMAIN Templates
ASSUME ResTemplatesAssumption == \A t \in DOMAIN Templates : Templates[t] \in Template
ASSUME ResForeignAssumption ==
  UserSecrets \subseteq Secret \cup {Absent} /\ UserClaims \subseteq Claim \cup {Absent}
\* A missing secret is told from one that is there.
ASSUME ResAbsentAssumption == Absent \notin Secret
\* The class of a claim that asks for none.
ASSUME ResClassAssumption == "default" \in STRING
ASSUME ResBoundsAssumption == MaxEdits \in Nat /\ MaxScales \in Nat

VARIABLES
  spec, observed, \* the Kode's spec; whether its generation is observed
  phase,          \* the Kode's phase
  secrets,        \* the "own" secret of the Kode and the "existing" one
  claims,         \* its "own" claim and the "existing" one
  service, sts,   \* its Service and StatefulSet
  pod,            \* the pod template its running pod was started from, or Absent
  pc, k, todo,    \* the pass going on: its step, its copy of the spec, what to apply
  edits, scales   \* how many edits and scalings have happened

objects == <<secrets, claims, service, sts, pod>>
pass    == <<pc, k, todo>>
vars    == <<spec, observed, phase, objects, pass, edits, scales>>

-----------------------------------------------------------------------------
(* Names and labels *)

\* GetSecretName, GetPVCName
SecretName(s) == IF s.cred.existing THEN "existing" ELSE "own"
ClaimName(s)  == IF s.storage.existing THEN "existing" ELSE "own"

\* createLabels: of the labels only the template's name ever changes.
Label(s) == s.template

IsEmpty(storage) ==
  \/ ~storage.given
  \/ /\ storage.modes = <<>> /\ storage.class = "" /\ ~storage.existing
     /\ storage.size = 0

OwnsClaim(s) == s.storage.given /\ ~s.storage.existing

-----------------------------------------------------------------------------
(* What a spec and its template are made into *)

Container(name, image, env, refs, args, mounts) ==
  [name |-> name, image |-> image, env |-> env, refs |-> refs,
   args |-> args, mounts |-> mounts]

\* The user's home counts only together with a workspace.
HomeOf(s) ==
  IF s.workspace # "" /\ s.home # "" THEN s.home ELSE Templates[s.template].home

Workspace(s) ==
  <<HomeOf(s), IF s.workspace # "" THEN s.workspace ELSE Templates[s.template].workspace>>

\* The port every program listens on, whatever the template says.
AppPort == 3000

\* A webtop is not told its workspace.  The password is a reference: an entry
\* of the environment without a value.
MainEnv(s) ==
  LET t == Templates[s.template]
  IN  <<[name |-> "TZ", value |-> <<t.env>>], [name |-> "PORT", value |-> <<AppPort>>],
        [name |-> "USER", value |-> <<s.cred.user>>]>>
      \o (IF t.type = "webtop" THEN <<>>
          ELSE <<[name |-> "DEFAULT_WORKSPACE", value |-> Workspace(s)]>>)
      \o (IF s.cred.auth /\ s.cred.password # ""
            THEN <<[name |-> "PASSWORD", value |-> <<>>]>> ELSE <<>>)

MainContainer(s) ==
  LET t == Templates[s.template]
  IN  Container(t.type, t.image, MainEnv(s),
                IF s.cred.auth /\ s.cred.password # "" THEN {SecretName(s)} ELSE {},
                <<>>, IF s.storage.given THEN <<HomeOf(s)>> ELSE <<>>)

\* The filters of the proxy, in order, and the clusters they may send a request to.
ProxyFilters(t) == (IF t.basicAuth THEN <<"ext_authz">> ELSE <<>>) \o <<"router">>

ProxyClusters(t) ==
  {[name |-> "local_service", port |-> AppPort]} \cup
  (IF t.basicAuth THEN {[name |-> "basic_auth_service", port |-> 9001]} ELSE {})

\* Every path of every domain is routed to the local service.
ProxyConfig(t) ==
  [listener |-> t.port, filters |-> ProxyFilters(t), route |-> "local_service",
   clusters |-> ProxyClusters(t)]

\* The proxy listens on the port of the Service; its configuration is an argument.
EnvoyContainer(t) == Container("envoy-proxy", "envoy", <<>>, {}, <<ProxyConfig(t)>>, <<>>)

\* The sidecar reads the secret by the name the operator would give it.
BasicAuthContainer ==
  Container("basic-auth-sidecar", "basic-auth",
            <<[name |-> "AUTH_USERNAME", value |-> <<>>],
              [name |-> "AUTH_PASSWORD", value |-> <<>>]>>, {"own"}, <<>>, <<>>)

Sidecars(t) ==
  <<EnvoyContainer(t)>> \o (IF t.basicAuth THEN <<BasicAuthContainer>> ELSE <<>>)

ProxySetup(t) == Container("proxy-init", "proxy-init", <<>>, {}, <<[port |-> t.port]>>, <<>>)

PluginContainers(plugins) ==
  [i \in DOMAIN plugins |->
     Container(plugins[i].name, plugins[i].image, <<>>, {}, <<plugins[i].args>>, <<>>)]

\* constructStatefulSetSpec: template plugins come before the user's.
PodTemplate(s) ==
  LET t == Templates[s.template]
  IN  [label      |-> Label(s),
       containers |-> <<MainContainer(s)>> \o Sidecars(t),
       inits      |-> <<ProxySetup(t)>> \o PluginContainers(t.plugins)
                                        \o PluginContainers(s.plugins),
       volumes    |-> IF s.storage.given THEN <<ClaimName(s)>> ELSE <<>>,
       runtime    |-> t.runtime]

\* Variant: the environment does not count.
PodHashNoEnv(p) ==
  [containers |-> [i \in DOMAIN p.containers |->
                     [image |-> p.containers[i].image, name |-> p.containers[i].name]],
   inits      |-> [i \in DOMAIN p.inits |->
                     [image |-> p.inits[i].image, name |-> p.inits[i].name]],
   volumes    |-> Len(p.volumes)]

\* calculatePodTemplateHash: neither references, arguments, mounts and ports nor
\* the claim behind a volume, whose name is always the same, are hashed.
PodHash(p) ==
  [containers |-> [i \in DOMAIN p.containers |->
                     [image |-> p.containers[i].image, name |-> p.containers[i].name,
                      env   |-> p.containers[i].env]],
   inits      |-> [i \in DOMAIN p.inits |->
                     [image |-> p.inits[i].image, name |-> p.inits[i].name]],
   volumes    |-> Len(p.volumes)]

ConstructStatefulSet(s) == [selector |-> Label(s), replicas |-> 1, pod |-> PodTemplate(s)]

ConstructService(s) == [selector |-> Label(s), port |-> Templates[s.template].port]

-----------------------------------------------------------------------------
(* Change detection *)

BothKeys == {"username", "password"}

\* The data are compared as a whole: a key more or less is a change.
SecretChanged(s) ==
  LET secret == secrets[SecretName(s)]
  IN  \/ secret = Absent \/ secret.keys # BothKeys
      \/ secret.user # s.cred.user \/ secret.password # s.cred.password

ServiceChanged(s) == service # ConstructService(s)

\* Containers are compared one by one as far as both lists go.
ImagesDiffer(containers, desired) ==
  \E i \in DOMAIN containers \cap DOMAIN desired : containers[i].image # desired[i].image

\* A pod that runs another image is found by the labels of the current template: there
\* is none as long as templates do not change.
PodOutdated(s) ==
  /\ pod # Absent /\ pod.label = Label(s)
  /\ ImagesDiffer(pod.containers, PodTemplate(s).containers)

StatefulSetChanged(s) ==
  \/ sts = Absent
  \/ ImagesDiffer(sts.pod.containers, PodTemplate(s).containers)
  \/ PodHash(sts.pod) # PodHash(PodTemplate(s))
  \/ PodOutdated(s)

\* Variant: the storage class is compared even where none is asked for.
ClaimChangedClass(s) ==
  /\ OwnsClaim(s) /\ ~IsEmpty(s.storage)
  /\ \/ claims["own"] = Absent
     \/ claims["own"].size # s.storage.size
     \/ claims["own"].modes # s.storage.modes
     \/ claims["own"].class # s.storage.class

\* Access modes are compared as lists.
ClaimChanged(s) ==
  /\ OwnsClaim(s) /\ ~IsEmpty(s.storage)
  /\ \/ claims["own"] = Absent
     \/ claims["own"].size # s.storage.size
     \/ claims["own"].modes # s.storage.modes
     \/ s.storage.class # "" /\ claims["own"].class # s.storage.class

Changes(s) ==
  {kind \in {"secret", "service", "statefulset", "pvc"} :
     CASE kind = "secret"      -> SecretChanged(s)
       [] kind = "service"     -> ServiceChanged(s)
       [] kind = "statefulset" -> StatefulSetChanged(s)
       [] kind = "pvc"         -> ClaimChanged(s)}

\* constructPVCSpec dereferences the resources of the storage.
DetectionPanics(s) ==
  /\ OwnsClaim(s) /\ ~IsEmpty(s.storage)
  /\ claims["own"] # Absent /\ s.storage.size = 0

-----------------------------------------------------------------------------
(* Validation and readiness *)

Elements(list) == {list[i] : i \in DOMAIN list}

SameModes(actual, required) ==
  Len(actual) = Len(required) /\ Elements(actual) = Elements(required)

ClaimValid(s) ==
  OwnsClaim(s) =>
    /\ claims["own"] # Absent
    /\ s.storage.class # "" => claims["own"].class = s.storage.class
    /\ SameModes(claims["own"].modes, s.storage.modes)
    /\ s.storage.size # 0 => claims["own"].size = s.storage.size

\* The password is wanted only with the built-in authentication.
SecretComplete(s) ==
  LET secret == secrets[SecretName(s)]
  IN  /\ secret # Absent /\ "username" \in secret.keys
      /\ s.cred.auth => "password" \in secret.keys

\* validateConfiguration
Valid(s) ==
  /\ SecretComplete(s) /\ secrets[SecretName(s)].label = Label(s)
  /\ service # Absent
  /\ service.port = Templates[s.template].port /\ service.selector = Label(s)
  /\ sts # Absent /\ sts.replicas = 1
  /\ sts.pod.containers[1].image = Templates[s.template].image
  /\ s.storage.given => sts.pod.containers[1].mounts # <<>>
  /\ ClaimValid(s)

\* Variant: any pod will do.
ReadyAnyPod(s) ==
  /\ SecretComplete(s)
  /\ service # Absent /\ service.port = Templates[s.template].port
  /\ sts # Absent /\ pod # Absent
  /\ OwnsClaim(s) => claims["own"] # Absent

\* checkResourcesReady.  The pod, when there is one, is running and ready; that it
\* may still be the one of an earlier pod template is not looked at.
Ready(s) ==
  /\ SecretComplete(s)
  /\ service # Absent /\ service.port = Templates[s.template].port
  /\ sts # Absent /\ sts.replicas = IF pod = Absent THEN 0 ELSE 1
  /\ OwnsClaim(s) => claims["own"] # Absent
  /\ pod # Absent /\ pod.label = Label(s)

-----------------------------------------------------------------------------
(* A pass over the children *)

Init ==
  /\ spec \in Specs /\ observed = TRUE /\ phase = "Configuring"
  /\ \E secret \in UserSecrets : secrets = [own |-> Absent, existing |-> secret]
  /\ \E claim \in UserClaims : claims = [own |-> Absent, existing |-> claim]
  /\ service = Absent /\ sts = Absent /\ pod = Absent
  /\ pc = "idle" /\ k = spec /\ todo = {}
  /\ edits = 0 /\ scales = 0

\* A failed pass is tried again; the phase stays.
Fail == pc' = "idle" /\ k' = spec /\ todo' = {} /\ UNCHANGED <<phase, observed>>

\* A pass ends; the generation it was made for counts as observed, whatever
\* became of the spec since is a mismatch for the next reconcile.
Finish(p) ==
  pc' = "idle" /\ k' = spec /\ todo' = {} /\ phase' = p /\ UNCHANGED observed

\* detectChanges, with its attempt to delete a pod that runs another image, whose
\* failure is passed over.  An update without changes is over at once.
Detect ==
  /\ pc = "idle" /\ observed /\ phase \in {"Configuring", "Updating"}
  /\ IF DetectionPanics(spec)
       THEN Fail /\ UNCHANGED pod
       ELSE /\ pod' \in IF sts # Absent /\ PodOutdated(spec) THEN {pod, Absent} ELSE {pod}
            /\ IF Changes(spec) = {} /\ phase = "Updating"
                 THEN Finish("Active")
                 ELSE /\ k' = spec /\ todo' = Changes(spec)
                      /\ pc' = IF Changes(spec) = {} THEN "validate" ELSE "apply"
                      /\ UNCHANGED <<phase, observed>>
  /\ UNCHANGED <<spec, secrets, claims, service, sts, edits, scales>>

\* Variant: the StatefulSet goes first.
ApplyOrderSetFirst == [secret |-> 2, service |-> 3, statefulset |-> 1, pvc |-> 4]

ApplyOrder == [secret |-> 1, service |-> 2, statefulset |-> 3, pvc |-> 4]

Turn(kind) ==
  /\ pc = "apply" /\ kind \in todo
  /\ \A other \in todo : ApplyOrder[kind] <= ApplyOrder[other]
  /\ UNCHANGED <<spec, pod, edits, scales>>

Applied(kind) ==
  /\ todo' = todo \ {kind}
  /\ pc' = IF todo' = {} THEN "validate" ELSE "apply"
  /\ UNCHANGED <<phase, observed>>

\* Variant: an existing secret is brought in line with the spec.
EnsureSecretAlways ==
  /\ Turn("secret") /\ UNCHANGED <<claims, service, sts>>
  /\ secrets' = [secrets EXCEPT ![SecretName(k)] =
                   [user |-> k.cred.user, password |-> k.cred.password, keys |-> BothKeys,
                    label |-> Label(k)]]
  /\ UNCHANGED k /\ Applied("secret")

\* An existing secret is only read, and what it holds takes the place of the
\* credentials for the rest of the pass.  A patch leaves the labels alone.
EnsureSecret ==
  /\ Turn("secret") /\ UNCHANGED <<claims, service, sts>>
  /\ LET secret == secrets[SecretName(k)]
     IN  \/ /\ k.cred.existing
            /\ secret # Absent => secret.user = ""
            /\ UNCHANGED secrets /\ Fail
         \/ /\ k.cred.existing
            /\ secret # Absent /\ secret.user # ""
            /\ k' = [k EXCEPT !.cred.user = secret.user, !.cred.password = secret.password]
            /\ UNCHANGED secrets /\ Applied("secret")
         \/ /\ ~k.cred.existing
            /\ secrets' = [secrets EXCEPT !["own"] =
                 [user |-> k.cred.user, password |-> k.cred.password, keys |-> BothKeys,
                  label |-> IF secret = Absent THEN Label(k) ELSE secret.label]]
            /\ UNCHANGED k /\ Applied("secret")

EnsureService ==
  /\ Turn("service") /\ UNCHANGED <<secrets, claims, sts>>
  /\ service' = ConstructService(k)
  /\ UNCHANGED k /\ Applied("service")

\* Variant: a selector once set is carried over.
EnsureStatefulSetKeeping ==
  /\ Turn("statefulset") /\ UNCHANGED <<secrets, claims, service>>
  /\ sts' = [ConstructStatefulSet(k) EXCEPT
               !.selector = IF sts = Absent THEN @ ELSE sts.selector]
  /\ UNCHANGED k /\ Applied("statefulset")

\* The server refuses to change the selector of a StatefulSet.
EnsureStatefulSet ==
  /\ Turn("statefulset") /\ UNCHANGED <<secrets, claims, service>>
  /\ IF sts # Absent /\ sts.selector # Label(k)
       THEN UNCHANGED sts /\ Fail
       ELSE sts' = ConstructStatefulSet(k) /\ UNCHANGED k /\ Applied("statefulset")

\* The server wants an access mode and a size, picks a class where none is asked
\* for, and lets a claim grow but not shrink.  Of an existing claim only the size
\* is sent.
ClaimRefused(claim, storage) ==
  \/ storage.size = 0
  \/ claim = Absent /\ storage.modes = <<>>
  \/ claim # Absent /\ storage.size < claim.size

EnsureClaim ==
  /\ Turn("pvc") /\ UNCHANGED <<secrets, service, sts>>
  /\ LET claim   == claims["own"]
         storage == k.storage
     IN  IF ClaimRefused(claim, storage)
           THEN UNCHANGED claims /\ Fail
           ELSE /\ claims' = [claims EXCEPT !["own"] =
                     IF claim = Absent
                       THEN [modes |-> storage.modes, size |-> storage.size,
                             class |-> IF storage.class = "" THEN "default" ELSE storage.class]
                       ELSE [claim EXCEPT !.size = storage.size]]
                /\ UNCHANGED k /\ Applied("pvc")

\* Validation ends a pass; an update also looks whether everything is ready.
Validate ==
  /\ pc = "validate"
  /\ IF ~Valid(k) THEN Fail
     ELSE Finish(CASE phase = "Configuring" -> "Provisioning"
                   [] phase = "Updating" /\ Ready(k) -> "Active"
                   [] phase = "Updating" /\ ~Ready(k) -> "Updating")
  /\ UNCHANGED <<spec, objects, edits, scales>>

Provision ==
  /\ pc = "idle" /\ observed /\ phase = "Provisioning" /\ Ready(spec)
  /\ phase' = "Active"
  /\ UNCHANGED <<spec, observed, objects, pass, edits, scales>>

\* An Active Kode is only looked at for readiness.
Degrade ==
  /\ pc = "idle" /\ observed /\ phase = "Active" /\ ~Ready(spec)
  /\ phase' = "Updating"
  /\ UNCHANGED <<spec, observed, objects, pass, edits, scales>>

\* Variant: an edit is noted and nothing else.
ObserveOnly ==
  /\ pc = "idle" /\ ~observed /\ phase # "Deleting"
  /\ observed' = TRUE /\ phase' = IF phase = "Active" THEN "Provisioning" ELSE phase
  /\ UNCHANGED <<spec, objects, pass, edits, scales>>

\* handleGenerationMismatch
Observe ==
  /\ pc = "idle" /\ ~observed /\ phase # "Deleting"
  /\ observed' = TRUE /\ phase' = "Updating"
  /\ UNCHANGED <<spec, objects, pass, edits, scales>>

\* KodeCleanupResource: the secret goes by its name, whoever made it.
Cleanup ==
  /\ pc = "idle" /\ phase = "Deleting"
  /\ secrets' = [secrets EXCEPT ![SecretName(spec)] = Absent]
  /\ service' = Absent /\ sts' = Absent /\ pod' = Absent
  /\ claims' = IF OwnsClaim(spec) /\ ~spec.storage.keep
                 THEN [claims EXCEPT !["own"] = Absent] ELSE claims
  /\ UNCHANGED <<spec, observed, phase, pass, edits, scales>>

-----------------------------------------------------------------------------
(* The user, the StatefulSet controller *)

Edit(s) ==
  /\ phase # "Deleting" /\ edits < MaxEdits /\ s # spec
  /\ spec' = s /\ observed' = FALSE /\ edits' = edits + 1
  /\ k' = IF pc = "idle" THEN s ELSE k
  /\ UNCHANGED <<phase, objects, pc, todo, scales>>

Delete ==
  /\ pc = "idle" /\ phase # "Deleting"
  /\ phase' = "Deleting"
  /\ UNCHANGED <<spec, observed, objects, pass, edits, scales>>

ScaleToZero ==
  /\ scales < MaxScales /\ sts # Absent /\ sts.replicas = 1
  /\ sts' = [sts EXCEPT !.replicas = 0] /\ scales' = scales + 1
  /\ UNCHANGED <<spec, observed, phase, secrets, claims, service, pod, pass, edits>>

\* A container starts once the claims and secrets it refers to exist.  What it takes
\* from a secret is the password.
Startable(p) ==
  /\ \A i \in DOMAIN p.volumes : claims[p.volumes[i]] # Absent
  /\ \A i \in DOMAIN p.containers : \A name \in p.containers[i].refs :
       secrets[name] # Absent /\ "password" \in secrets[name].keys

PodStart ==
  /\ pod = Absent /\ sts # Absent /\ sts.replicas = 1 /\ Startable(sts.pod)
  /\ pod' = sts.pod
  /\ UNCHANGED <<spec, observed, phase, secrets, claims, service, sts, pass, edits, scales>>

\* A changed template replaces the pod.
PodStop ==
  /\ pod # Absent /\ sts # Absent
  /\ sts.replicas = 0 \/ pod # sts.pod
  /\ pod' = Absent
  /\ UNCHANGED <<spec, observed, phase, secrets, claims, service, sts, pass, edits, scales>>

Pass ==
  \/ Detect \/ EnsureSecret \/ EnsureService \/ EnsureStatefulSet \/ EnsureClaim
  \/ Validate \/ Provision \/ Degrade \/ Observe \/ Cleanup

Next ==
  \/ Pass
  \/ \E s \in Specs : Edit(s)
  \/ Delete \/ ScaleToZero \/ PodStart \/ PodStop

Spec == Init /\ [][Next]_vars

\* Every phase but Active requeues until it is left, Active after a longer while,
\* and the StatefulSet controller does its work.
FairSpec == Spec /\ WF_vars(Pass) /\ WF_vars(PodStart) /\ WF_vars(PodStop)

-----------------------------------------------------------------------------
(* Safety *)

PodTemplateOK(p) ==
  /\ p.label \in DOMAIN Templates /\ p.runtime \in STRING
  /\ Len(p.containers) \in 2 .. 3 /\ Len(p.inits) > 0
  /\ p.volumes \in {<<>>, <<"own">>, <<"existing">>}

\* Whatever is written to the cluster has the shape of the object it is, and a
\* pass works on a spec.
ResTypeOK ==
  /\ spec \in Specs /\ observed \in BOOLEAN
  /\ phase \in {"Configuring", "Provisioning", "Active", "Updating", "Deleting"}
  /\ secrets \in [{"own", "existing"} -> Secret \cup {Absent}]
  /\ claims \in [{"own", "existing"} -> Claim \cup {Absent}]
  /\ service = Absent \/ (service.selector \in DOMAIN Templates /\ service.port \in Nat)
  /\ sts = Absent \/ (sts.selector = sts.pod.label /\ sts.replicas \in 0 .. 1
                      /\ PodTemplateOK(sts.pod))
  /\ pod = Absent \/ PodTemplateOK(pod)
  /\ pc \in {"idle", "apply", "validate"} /\ k \in KodeSpec
  /\ todo \subseteq {"secret", "service", "statefulset", "pvc"}
  /\ edits \in Nat /\ scales \in Nat

\* What the user owns stays the user's: no step writes the secret or the claim a
\* spec merely refers to, and only a deletion removes the secret (which
\* KodeCleanupResource does).  Detection, application and cleanup each have to
\* tell the two apart.
ForeignKept ==
  [][/\ claims'["existing"] = claims["existing"]
     /\ secrets'["existing"] # secrets["existing"] => phase = "Deleting"]_vars

Served(s) == pc = "idle" /\ observed /\ phase = "Active" /\ Ready(s)

\* The same containers with the same images and environment, the same plugins.
SameProgram(p, q) ==
  /\ Len(p.containers) = Len(q.containers) /\ Len(p.inits) = Len(q.inits)
  /\ \A i \in DOMAIN p.containers :
       /\ p.containers[i].image = q.containers[i].image
       /\ p.containers[i].env = q.containers[i].env
  /\ \A i \in DOMAIN p.inits : p.inits[i].image = q.inits[i].image

\* The children of an Active Kode are what its spec asks for, as far as detection can
\* see it: after any history of edits and half-done passes the own secret, the
\* Service, the size of the claim and the programs in the StatefulSet's pod template,
\* with their environment, agree with it.  The pod that runs may still be one of an
\* earlier template; Settles says that it is replaced.
ActiveMatches ==
  Served(spec) =>
    /\ ~spec.cred.existing => ~SecretChanged(spec)
    /\ ~ServiceChanged(spec)
    /\ ~spec.cred.existing => SameProgram(sts.pod, PodTemplate(spec))
    /\ OwnsClaim(spec) /\ spec.storage.size # 0 => claims["own"].size = spec.storage.size

\* The pod template of an Active Kode names the user of its secret: ensureSecret has
\* read it before the containers are built from it.  Detection compares with the user
\* of the spec instead, so a Kode that turned from its own secret to an existing one
\* may keep its former user for ever; one that never had its own does not.  Of the pod
\* that runs the same holds as above.
UserAgrees ==
  Served(spec) /\ (spec.cred.existing => secrets["own"] = Absent) =>
    sts.pod.containers[1].env[3].value = <<secrets[SecretName(spec)].user>>

\* A pass that ends well has nothing left to do: detecting again finds no change,
\* but for a pod still to be replaced, access modes in another order, and an
\* existing secret that differs from the credentials of the spec.
Idempotent ==
  [][pc = "validate" /\ pc' = "idle" /\ Valid(k) /\ observed =>
       \A kind \in Changes(spec) :
         \/ kind = "statefulset" /\ PodOutdated(spec)
         \/ kind = "pvc" /\ spec.storage.modes # claims["own"].modes
         \/ spec.cred.existing /\ SecretChanged(spec)]_vars

\* The Service of an Active Kode leads to its program: it selects the pod, points to
\* the port the proxy was started with, and the proxy sends what comes in to the port
\* the program was told to listen on.
ServiceReachesProxy ==
  Served(spec) =>
    LET proxy == pod.containers[2].args[1]
    IN  /\ service.selector = pod.label /\ service.port = proxy.listener
        /\ \E cluster \in proxy.clusters :
             cluster.name = proxy.route
               /\ <<cluster.port>> = pod.containers[1].env[2].value

-----------------------------------------------------------------------------
(* Liveness *)

\* An existing secret is missing, lacks a key or the labels validation asks for, or the
\* own one still has the labels of an earlier template.
SecretUnusable(s) ==
  LET secret == secrets[SecretName(s)]
  IN  IF secret = Absent THEN s.cred.existing
      ELSE secret.label # Label(s) \/ ~SecretComplete(s)

\* A storage that names neither a claim nor all that a claim needs.
StorageIncomplete(s) == OwnsClaim(s) /\ (s.storage.size = 0 \/ s.storage.modes = <<>>)

\* The claim exists, and what has changed of it cannot be changed.
ClaimFixed(s) ==
  /\ OwnsClaim(s) /\ claims["own"] # Absent
  /\ \/ ~SameModes(claims["own"].modes, s.storage.modes)
     \/ s.storage.class # "" /\ s.storage.class # claims["own"].class
     \/ s.storage.size < claims["own"].size

TemplateFixed(s) == sts # Absent /\ sts.selector # Label(s)

\* Somebody scaled the StatefulSet to zero, or its pod refers to what is not there:
\* nothing the operator looks at has changed.
PodBlocked == sts # Absent /\ (sts.replicas = 0 \/ ~Startable(sts.pod))

Stuck(s) ==
  \/ SecretUnusable(s) \/ StorageIncomplete(s) \/ ClaimFixed(s)
  \/ TemplateFixed(s) \/ PodBlocked

\* Once the user stops editing, the Kode becomes Active and ready for its last spec,
\* with a pod of the StatefulSet as it is then, and stays so, unless one of the five
\* named reasons holds: there is no other way for a Kode not to settle.
Settles ==
  <>[]((Served(spec) /\ pod = sts.pod) \/ Stuck(spec) \/ phase = "Deleting")
=============================================================================
