-------------------------- MODULE KodeResourcesProofs --------------------------
(***************************************************************************)
(* Six properties of the children of a Kode, for every set of specs and    *)
(* templates: what belongs to the user is left alone; every object has its *)
(* shape; the Service of an Active Kode leads to its program; the children *)
(* of an Active Kode, the pod template of its StatefulSet among them, are  *)
(* what its spec asks for, with the user its secret names; and a pass that *)
(* ends well leaves change detection nothing to find.                      *)
(*                                                                         *)
(* All but the first rest on the whole pass: an edit during it, a refused  *)
(* write or a pod of an earlier template must not leave an Active Kode     *)
(* with children of different specs.  PassInv says so of the templates,    *)
(* MatchInv of what change detection compares, UserInv of the credentials  *)
(* a pass reads.                                                           *)
(***************************************************************************)
EXTENDS KodeResources, SequenceTheorems, TLAPS

Names == {"own", "existing"}

\* What an object was built from.
Buildable == {s \in KodeSpec : s.template \in DOMAIN Templates}
BuiltPod(p) == \E s \in Buildable : p = PodTemplate(s)
BuiltSet(set) ==
  \E s \in Buildable, n \in {0, 1} :
    set = [selector |-> Label(s), replicas |-> n, pod |-> PodTemplate(s)]

\* The secrets and the specs have their types, and there are two claims.
ShapeInv ==
  /\ spec \in Specs /\ k \in Buildable /\ observed \in BOOLEAN
  /\ secrets \in [Names -> Secret \cup {Absent}]
  /\ DOMAIN claims = Names

\* The Service is the one the template of s asks for.
ServiceFits(s) ==
  service.selector = Label(s) /\ service.port = Templates[s.template].port

\* A pass works on the template of a spec that is observed, in a phase that
\* applies; a Kode that left those phases has the Service of its spec; and what is
\* in the cluster has been built from some spec.
PassInv ==
  /\ pc # "idle" => phase \in {"Configuring", "Updating"}
  /\ pc # "idle" /\ observed => k.template = spec.template
  /\ pc = "idle" /\ observed /\ phase \in {"Provisioning", "Active"} => ServiceFits(spec)
  /\ sts # Absent => BuiltSet(sts)
  /\ pod # Absent => BuiltPod(pod)

-----------------------------------------------------------------------------
(* Specs and pods *)

\* Every spec a user submits can be built.
LEMMA SpecsBuildable == Specs \subseteq Buildable
BY ResSpecsAssumption DEF Buildable

\* The first two elements of a sequence that begins with them.
LEMMA FirstTwo ==
  ASSUME NEW S, NEW a \in S, NEW b \in S, NEW rest \in Seq(S)
  PROVE  /\ (<<a>> \o (<<b>> \o rest))[1] = a
         /\ (<<a>> \o (<<b>> \o rest))[2] = b
<1>1. <<a>> \in Seq(S) /\ <<b>> \in Seq(S) /\ Len(<<a>>) = 1 /\ Len(<<b>>) = 1
  OBVIOUS
<1>2. /\ <<b>> \o rest \in Seq(S) /\ Len(<<b>> \o rest) = 1 + Len(rest)
      /\ \A i \in 1 .. 1 + Len(rest) :
           (<<b>> \o rest)[i] = IF i <= 1 THEN <<b>>[i] ELSE rest[i - 1]
  BY <1>1, ConcatProperties
<1>3. Len(rest) \in Nat
  OBVIOUS
<1>4. (<<b>> \o rest)[1] = b
  BY <1>2, <1>3
<1>5. \A i \in 1 .. 1 + Len(<<b>> \o rest) :
        (<<a>> \o (<<b>> \o rest))[i] =
          IF i <= 1 THEN <<a>>[i] ELSE (<<b>> \o rest)[i - 1]
  BY <1>1, <1>2, ConcatProperties
<1>6. 1 \in 1 .. 1 + Len(<<b>> \o rest) /\ 2 \in 1 .. 1 + Len(<<b>> \o rest)
  BY <1>2, <1>3
<1>7. (<<a>> \o (<<b>> \o rest))[1] = a
  BY <1>5, <1>6
<1>8. (<<a>> \o (<<b>> \o rest))[2] = (<<b>> \o rest)[1]
  BY <1>5, <1>6
<1> QED BY <1>4, <1>7, <1>8

\* The program comes first in a pod and its proxy second.
LEMMA ContainersOf ==
  ASSUME NEW s
  PROVE  /\ PodTemplate(s).label = Label(s)
         /\ PodTemplate(s).containers[1] = MainContainer(s)
         /\ PodTemplate(s).containers[2] = EnvoyContainer(Templates[s.template])
<1> DEFINE t == Templates[s.template]
           S == {MainContainer(s), EnvoyContainer(t), BasicAuthContainer}
           rest == IF t.basicAuth THEN <<BasicAuthContainer>> ELSE <<>>
<1>1. PodTemplate(s).containers = <<MainContainer(s)>> \o (<<EnvoyContainer(t)>> \o rest)
  BY DEF PodTemplate, Sidecars
<1>2. rest \in Seq(S)
  <2>1. BasicAuthContainer \in S
    OBVIOUS
  <2> HIDE DEF S
  <2>2. <<BasicAuthContainer>> \in Seq(S) /\ <<>> \in Seq(S)
    BY <2>1
  <2> QED BY <2>2
<1>3. MainContainer(s) \in S /\ EnvoyContainer(t) \in S
  OBVIOUS
<1>4. PodTemplate(s).label = Label(s)
  BY DEF PodTemplate
<1> HIDE DEF S, rest
<1> QED BY <1>1, <1>2, <1>3, <1>4, FirstTwo

\* The program is told its port in the second place of its environment, its user in
\* the third.
LEMMA EnvOf ==
  ASSUME NEW s
  PROVE  /\ MainContainer(s).env[2].value = <<AppPort>>
         /\ MainContainer(s).env[3].value = <<s.cred.user>>
<1> DEFINE t == Templates[s.template]
           tz == [name |-> "TZ", value |-> <<t.env>>]
           port == [name |-> "PORT", value |-> <<AppPort>>]
           user == [name |-> "USER", value |-> <<s.cred.user>>]
           ws == [name |-> "DEFAULT_WORKSPACE", value |-> Workspace(s)]
           pw == [name |-> "PASSWORD", value |-> <<>>]
           S == {tz, port, user, ws, pw}
           first == <<tz, port, user>>
           second == IF t.type = "webtop" THEN <<>> ELSE <<ws>>
           third == IF s.cred.auth /\ s.cred.password # "" THEN <<pw>> ELSE <<>>
<1>1. MainContainer(s).env = (first \o second) \o third
  BY DEF MainContainer, Container, MainEnv
<1>0. tz \in S /\ port \in S /\ user \in S /\ ws \in S /\ pw \in S
  OBVIOUS
<1>2. first \in Seq(S) /\ second \in Seq(S) /\ third \in Seq(S)
  <2> HIDE DEF S, tz, port, user, ws, pw
  <2>1. <<tz, port, user>> \in Seq(S) /\ <<ws>> \in Seq(S) /\ <<pw>> \in Seq(S) /\ <<>> \in Seq(S)
    BY <1>0
  <2> QED BY <2>1
<1>3. Len(first) = 3 /\ first[2] = port /\ first[3] = user
  OBVIOUS
<1>4. port.value = <<AppPort>> /\ user.value = <<s.cred.user>>
  OBVIOUS
<1> HIDE DEF S, tz, port, user, ws, pw, first, second, third
<1>5. /\ first \o second \in Seq(S) /\ Len(first \o second) = Len(first) + Len(second)
      /\ \A i \in 1 .. Len(first) + Len(second) :
           (first \o second)[i] = IF i <= Len(first) THEN first[i] ELSE second[i - Len(first)]
  BY <1>2, ConcatProperties
<1>6. \A i \in 1 .. Len(first \o second) + Len(third) :
        ((first \o second) \o third)[i] =
          IF i <= Len(first \o second) THEN (first \o second)[i]
                                       ELSE third[i - Len(first \o second)]
  BY <1>2, <1>5, ConcatProperties
<1>7. Len(second) \in Nat /\ Len(third) \in Nat
  BY <1>2
<1>8. (first \o second)[2] = port /\ (first \o second)[3] = user
  <2>1. 2 \in 1 .. Len(first) + Len(second) /\ 3 \in 1 .. Len(first) + Len(second)
    BY <1>3, <1>7
  <2> QED BY <1>3, <1>5, <2>1
<1>9. ((first \o second) \o third)[2] = port /\ ((first \o second) \o third)[3] = user
  <2>1. Len(first \o second) >= 3
    BY <1>3, <1>5, <1>7
  <2>2. 2 \in 1 .. Len(first \o second) + Len(third) /\ 3 \in 1 .. Len(first \o second) + Len(third)
    BY <1>3, <1>5, <1>7
  <2> QED BY <1>6, <1>8, <2>1, <2>2
<1> QED BY <1>1, <1>4, <1>9

\* The proxy of a pod listens on the port of its template and leads to its program.
LEMMA ProxyOf ==
  ASSUME NEW s
  PROVE  LET proxy == PodTemplate(s).containers[2].args[1]
         IN  /\ proxy.listener = Templates[s.template].port
             /\ \E cluster \in proxy.clusters :
                  cluster.name = proxy.route
                    /\ <<cluster.port>> = PodTemplate(s).containers[1].env[2].value
<1> DEFINE t == Templates[s.template]
           local == [name |-> "local_service", port |-> AppPort]
<1>1. PodTemplate(s).containers[2].args = <<ProxyConfig(t)>>
  <2>1. PodTemplate(s).containers[2] = EnvoyContainer(t)
    BY ContainersOf
  <2>2. EnvoyContainer(t).args = <<ProxyConfig(t)>>
    BY DEF EnvoyContainer, Container
  <2> QED BY <2>1, <2>2
<1>2. PodTemplate(s).containers[2].args[1] = ProxyConfig(t)
  BY <1>1
<1>3. /\ ProxyConfig(t).listener = t.port /\ ProxyConfig(t).route = "local_service"
      /\ ProxyConfig(t).clusters = ProxyClusters(t)
  BY DEF ProxyConfig
<1>4. local \in ProxyClusters(t) /\ local.name = "local_service" /\ local.port = AppPort
  BY DEF ProxyClusters
<1>5. PodTemplate(s).containers[1].env[2].value = <<AppPort>>
  BY ContainersOf, EnvOf
<1> QED BY <1>2, <1>3, <1>4, <1>5

-----------------------------------------------------------------------------
(* What a step does to specs, secrets and claims *)

\* Only a deletion touches the existing secret, and nothing the existing claim.
Kept ==
  /\ claims'["existing"] = claims["existing"]
  /\ secrets'["existing"] # secrets["existing"] => phase = "Deleting"

\* The steps that leave secrets and claims alone.
LEMMA OtherShape ==
  ASSUME ShapeInv, UNCHANGED <<secrets, claims>>,
         spec' \in Specs, k' \in {k, spec, spec'}, observed' \in BOOLEAN
  PROVE  ShapeInv' /\ Kept
BY SpecsBuildable DEF ShapeInv, Kept

\* An existing secret is read into the copy of the spec, an own one is written.
LEMMA EnsureSecretShape == ASSUME ShapeInv, EnsureSecret PROVE ShapeInv' /\ Kept
<1> DEFINE secret == secrets[SecretName(k)]
           label == IF secret = Absent THEN Label(k) ELSE secret.label
           new == [user |-> k.cred.user, password |-> k.cred.password,
                   keys |-> BothKeys, label |-> label]
<1>1. UNCHANGED <<spec, claims>> /\ observed' = observed
  BY DEF EnsureSecret, Turn, Fail, Applied
<1>2. CASE UNCHANGED secrets /\ Fail
  BY <1>1, <1>2, OtherShape DEF Fail, ShapeInv
<1>3. CASE /\ k.cred.existing /\ secret # Absent /\ UNCHANGED secrets
           /\ k' = [k EXCEPT !.cred.user = secret.user, !.cred.password = secret.password]
  <2>1. SecretName(k) \in Names
    BY DEF SecretName, Names
  <2>2. secret \in Secret
    BY <1>3, <2>1 DEF ShapeInv
  <2>3. k' \in KodeSpec /\ k'.template = k.template
    BY <1>3, <2>2 DEF ShapeInv, Buildable, KodeSpec, Credentials, Secret
  <2> HIDE DEF secret
  <2> QED BY <1>1, <1>3, <2>3 DEF ShapeInv, Buildable, Kept
<1>4. CASE /\ ~k.cred.existing /\ UNCHANGED k
           /\ secrets' = [secrets EXCEPT !["own"] = new]
  <2>1. secret # Absent => secret \in Secret
    BY <1>4 DEF ShapeInv, SecretName, Names
  <2>2. label \in STRING
    BY <2>1 DEF Secret, Label, ShapeInv, Buildable, KodeSpec
  <2>3. k.cred.user \in STRING /\ k.cred.password \in STRING
    BY DEF ShapeInv, Buildable, KodeSpec, Credentials
  <2> HIDE DEF secret, label
  <2>4. new \in Secret
    BY <2>2, <2>3 DEF Secret, BothKeys
  <2> HIDE DEF new
  <2> QED BY <1>1, <1>4, <2>4 DEF ShapeInv, Names, Kept
<1> QED BY <1>2, <1>3, <1>4 DEF EnsureSecret

\* Only the own claim is created or resized.
LEMMA EnsureClaimShape == ASSUME ShapeInv, EnsureClaim PROVE ShapeInv' /\ Kept
<1>1. UNCHANGED <<spec, secrets>> /\ observed' = observed
  BY DEF EnsureClaim, Turn, Fail, Applied
<1>2. CASE UNCHANGED claims /\ Fail
  BY <1>1, <1>2, OtherShape DEF Fail, ShapeInv
<1>3. CASE UNCHANGED k /\ \E new : claims' = [claims EXCEPT !["own"] = new]
  BY <1>1, <1>3 DEF ShapeInv, Names, Kept
<1>4. CASE ClaimRefused(claims["own"], k.storage)
  BY <1>2, <1>4 DEF EnsureClaim
<1>5. CASE ~ClaimRefused(claims["own"], k.storage)
  BY <1>3, <1>5 DEF EnsureClaim
<1> QED BY <1>4, <1>5

\* A cleanup may remove the existing secret, in Deleting; of the claims it removes
\* the own one at most.
LEMMA CleanupShape == ASSUME ShapeInv, Cleanup PROVE ShapeInv' /\ Kept
<1>1. /\ UNCHANGED <<spec, observed, k>> /\ phase = "Deleting"
      /\ secrets' = [secrets EXCEPT ![SecretName(spec)] = Absent]
      /\ claims' = [claims EXCEPT !["own"] = Absent] \/ claims' = claims
  BY DEF Cleanup, pass
<1> QED BY <1>1 DEF ShapeInv, Names, Kept

\* No step breaks the shapes or touches what is the user's.
LEMMA NextShape == ASSUME ShapeInv, [Next]_vars PROVE ShapeInv' /\ Kept
<1>1. CASE UNCHANGED vars
  BY <1>1 DEF vars, objects, pass, ShapeInv, Kept
<1>2. CASE Detect \/ EnsureService \/ EnsureStatefulSet
  BY <1>2, OtherShape
     DEF Detect, EnsureService, EnsureStatefulSet, Turn, Applied, Fail, Finish, ShapeInv
<1>3. CASE Validate \/ Provision \/ Degrade \/ Observe
  BY <1>3, OtherShape
     DEF Validate, Provision, Degrade, Observe, Fail, Finish, objects, pass, ShapeInv
<1>4. CASE (\E s \in Specs : Edit(s)) \/ Delete
  BY <1>4, OtherShape DEF Edit, Delete, objects, pass, ShapeInv
<1>5. CASE ScaleToZero \/ PodStart \/ PodStop
  BY <1>5, OtherShape DEF ScaleToZero, PodStart, PodStop, pass, ShapeInv
<1> QED BY <1>1, <1>2, <1>3, <1>4, <1>5, EnsureSecretShape, EnsureClaimShape, CleanupShape
        DEF Next, Pass

\* The first state has the shapes.
LEMMA InitShape == Init => ShapeInv
<1> SUFFICES ASSUME Init PROVE ShapeInv
  OBVIOUS
<1>1. spec \in Specs /\ k = spec /\ observed = TRUE
  BY DEF Init
<1>2. PICK secret \in UserSecrets : secrets = [own |-> Absent, existing |-> secret]
  BY DEF Init
<1>3. PICK claim \in UserClaims : claims = [own |-> Absent, existing |-> claim]
  BY DEF Init
<1>4. secret \in Secret \cup {Absent} /\ claim \in Claim \cup {Absent}
  BY ResForeignAssumption
<1> QED BY <1>1, <1>2, <1>3, <1>4, SpecsBuildable DEF ShapeInv, Names

\* Specs and secrets keep their types, whatever is submitted and written.
THEOREM ShapeCorrect == Spec => []ShapeInv
<1>1. ShapeInv /\ [Next]_vars => ShapeInv'
  BY NextShape
<1> QED BY <1>1, InitShape, PTL DEF Spec

\* No pass, whatever the spec was edited to in the middle of it, writes a secret or a
\* claim that belongs to the user, and only a deletion removes the secret.
THEOREM ForeignSafe == Spec => ForeignKept
<1>1. ShapeInv /\ [Next]_vars =>
        [/\ claims'["existing"] = claims["existing"]
         /\ secrets'["existing"] # secrets["existing"] => phase = "Deleting"]_vars
  BY NextShape DEF Kept
<1> QED BY <1>1, ShapeCorrect, PTL DEF Spec, ForeignKept

-----------------------------------------------------------------------------
(* The Service of an Active Kode *)

\* Ends and parts of a pass.
LEMMA FailPass ==
  ASSUME PassInv, Fail, pc # "idle" \/ phase \in {"Configuring", "Updating"},
         UNCHANGED <<spec, sts, pod>>
  PROVE  PassInv'
<1>1. /\ pc' = "idle" /\ phase' = phase /\ phase \in {"Configuring", "Updating"}
  BY DEF Fail, PassInv
<1> QED BY <1>1 DEF PassInv

\* What is in the cluster was built, and stays so where it does not change.
LEMMA OnlyPhaseMoves ==
  ASSUME PassInv, UNCHANGED <<sts, pod>>
  PROVE  (sts' # Absent => BuiltSet(sts')) /\ (pod' # Absent => BuiltPod(pod'))
BY DEF PassInv

\* An update without changes has the Service of its spec, and is the only way from
\* here to Active.
LEMMA DetectPass == ASSUME ShapeInv, PassInv, Detect PROVE PassInv'
<1>1. /\ pc = "idle" /\ observed /\ phase \in {"Configuring", "Updating"}
      /\ UNCHANGED <<spec, service, sts>>
  BY DEF Detect
<1>2. pod' \in {pod, Absent}
  BY DEF Detect
<1>3. (sts' # Absent => BuiltSet(sts')) /\ (pod' # Absent => BuiltPod(pod'))
  BY <1>1, <1>2 DEF PassInv
<1>4. CASE Fail
  BY <1>1, <1>3, <1>4 DEF Fail, PassInv
<1>5. CASE Changes(spec) = {} /\ Finish("Active")
  <2>1. ~ServiceChanged(spec)
    BY <1>5 DEF Changes
  <2>2. service = [selector |-> Label(spec), port |-> Templates[spec.template].port]
    BY <2>1 DEF ServiceChanged, ConstructService
  <2>3. ServiceFits(spec)'
    BY <1>1, <2>2 DEF ServiceFits, Label
  <2> HIDE DEF ServiceFits
  <2> QED BY <1>1, <1>3, <1>5, <2>3 DEF Finish, PassInv
<1>6. CASE /\ k' = spec /\ pc' \in {"validate", "apply"} /\ UNCHANGED <<phase, observed>>
  BY <1>1, <1>3, <1>6 DEF PassInv
<1> QED BY <1>4, <1>5, <1>6 DEF Detect

\* The steps of a pass that stay in it keep the template of its spec.
LEMMA AppliedPass ==
  ASSUME PassInv, NEW kind, Turn(kind), Applied(kind), k'.template = k.template,
         sts' # Absent => BuiltSet(sts'), UNCHANGED service
  PROVE  PassInv'
<1>1. pc = "apply" /\ pc' \in {"validate", "apply"} /\ UNCHANGED <<spec, pod, phase, observed>>
  BY DEF Turn, Applied
<1>2. pod' # Absent => BuiltPod(pod')
  BY <1>1 DEF PassInv
<1> QED BY <1>1, <1>2 DEF PassInv

\* An existing secret brings its own credentials and no other template.
LEMMA EnsureSecretPass == ASSUME ShapeInv, PassInv, EnsureSecret PROVE PassInv'
<1>1. Turn("secret") /\ UNCHANGED <<service, sts, spec, pod>> /\ pc # "idle"
  BY DEF EnsureSecret, Turn
<1>2. CASE Fail
  BY <1>1, <1>2, FailPass
<1>3. CASE /\ Applied("secret")
           /\ UNCHANGED k \/ \E a, b : k' = [k EXCEPT !.cred.user = a, !.cred.password = b]
  <2>1. k'.template = k.template
    BY <1>3 DEF ShapeInv, Buildable, KodeSpec
  <2>2. sts' # Absent => BuiltSet(sts')
    BY <1>1 DEF PassInv
  <2>3. Turn("secret") /\ Applied("secret") /\ UNCHANGED service
    BY <1>1, <1>3
  <2> QED BY <2>1, <2>2, <2>3, AppliedPass
<1> QED BY <1>2, <1>3 DEF EnsureSecret

\* The Service is written in a pass, where nothing is said of it.
LEMMA EnsureServicePass == ASSUME PassInv, EnsureService PROVE PassInv'
<1>1. /\ pc = "apply" /\ pc' \in {"validate", "apply"}
      /\ UNCHANGED <<spec, pod, phase, observed, sts, k>>
  BY DEF EnsureService, Turn, Applied
<1> QED BY <1>1, OnlyPhaseMoves DEF PassInv

\* The StatefulSet is built from the pass's copy of the spec.
LEMMA EnsureStatefulSetPass == ASSUME ShapeInv, PassInv, EnsureStatefulSet PROVE PassInv'
<1>1. Turn("statefulset") /\ UNCHANGED <<service, spec, pod>> /\ pc # "idle"
  BY DEF EnsureStatefulSet, Turn
<1>2. CASE UNCHANGED sts /\ Fail
  BY <1>1, <1>2, FailPass
<1>3. CASE sts' = ConstructStatefulSet(k) /\ UNCHANGED k /\ Applied("statefulset")
  <2>1. k \in Buildable /\ 1 \in {0, 1}
    BY DEF ShapeInv
  <2>2. BuiltSet(ConstructStatefulSet(k))
    BY <2>1 DEF BuiltSet, ConstructStatefulSet
  <2>3. BuiltSet(sts')
    BY <1>3, <2>2
  <2> HIDE DEF BuiltSet
  <2> QED BY <1>1, <1>3, <2>3, AppliedPass
<1> QED BY <1>2, <1>3 DEF EnsureStatefulSet

\* Claims do not matter here.
LEMMA EnsureClaimPass == ASSUME PassInv, EnsureClaim PROVE PassInv'
<1>1. Turn("pvc") /\ UNCHANGED <<service, sts, spec, pod>> /\ pc # "idle"
  BY DEF EnsureClaim, Turn
<1>2. CASE Fail
  BY <1>1, <1>2, FailPass
<1>3. CASE UNCHANGED k /\ Applied("pvc")
  <2>1. sts' # Absent => BuiltSet(sts')
    BY <1>1 DEF PassInv
  <2> QED BY <1>1, <1>3, <2>1, AppliedPass
<1> QED BY <1>2, <1>3 DEF EnsureClaim

\* A pass that ends with a valid configuration, and whose spec is still the one
\* observed, leaves the Service of that spec behind.
LEMMA ValidatePass == ASSUME PassInv, Validate PROVE PassInv'
<1>1. pc = "validate" /\ pc' = "idle" /\ UNCHANGED <<spec, observed, service, sts, pod>>
  BY DEF Validate, Fail, Finish, objects
<1>2. CASE Fail
  BY <1>1, <1>2, FailPass
<1>3. CASE Valid(k)
  <2>1. ServiceFits(k)
    BY <1>3 DEF Valid, ServiceFits
  <2>2. observed => ServiceFits(spec)
    BY <1>1, <2>1 DEF PassInv, ServiceFits, Label
  <2>3. observed => ServiceFits(spec)'
    BY <1>1, <2>2 DEF ServiceFits, Label
  <2> QED BY <1>1, <2>3, OnlyPhaseMoves DEF PassInv
<1> QED BY <1>2, <1>3 DEF Validate

\* Between passes only Provisioning becomes Active.
LEMMA PhasePass == ASSUME PassInv, Provision \/ Degrade \/ Observe \/ Delete PROVE PassInv'
<1>1. pc = "idle" /\ pc' = "idle" /\ UNCHANGED <<spec, service, sts, pod>>
  BY DEF Provision, Degrade, Observe, Delete, objects, pass
<1>2. phase' \in {"Provisioning", "Active"} /\ observed' => ServiceFits(spec)
  BY <1>1 DEF Provision, Degrade, Observe, Delete, PassInv
<1>3. ServiceFits(spec)' <=> ServiceFits(spec)
  BY <1>1 DEF ServiceFits, Label
<1> QED BY <1>1, <1>2, <1>3, OnlyPhaseMoves DEF PassInv

\* A cleanup leaves neither StatefulSet nor pod.
LEMMA CleanupPass == ASSUME PassInv, Cleanup PROVE PassInv'
<1>1. pc' = "idle" /\ phase' = "Deleting" /\ sts' = Absent /\ pod' = Absent
  BY DEF Cleanup, pass
<1> QED BY <1>1 DEF PassInv

\* After an edit the generation is not observed.
LEMMA EditPass == ASSUME PassInv, NEW s \in Specs, Edit(s) PROVE PassInv'
<1>1. observed' = FALSE /\ UNCHANGED <<phase, sts, pod, pc, service>>
  BY DEF Edit, objects
<1> QED BY <1>1, OnlyPhaseMoves DEF PassInv

\* Scaling changes the number of replicas only; the pod is started from the set.
LEMMA ClusterPass == ASSUME PassInv, ScaleToZero \/ PodStart \/ PodStop PROVE PassInv'
<1>1. UNCHANGED <<spec, observed, phase, service, pc, k>>
  BY DEF ScaleToZero, PodStart, PodStop, pass
<1>2. sts' # Absent => BuiltSet(sts')
  <2>1. CASE UNCHANGED sts
    BY <2>1 DEF PassInv
  <2>2. CASE sts # Absent /\ sts' = [sts EXCEPT !.replicas = 0]
    <3>1. PICK s \in Buildable, n \in {0, 1} :
            sts = [selector |-> Label(s), replicas |-> n, pod |-> PodTemplate(s)]
      BY <2>2 DEF PassInv, BuiltSet
    <3>2. sts' = [selector |-> Label(s), replicas |-> 0, pod |-> PodTemplate(s)]
      BY <2>2, <3>1
    <3> QED BY <3>2 DEF BuiltSet
  <2> QED BY <2>1, <2>2 DEF ScaleToZero, PodStart, PodStop
<1>3. pod' # Absent => BuiltPod(pod')
  <2>1. CASE pod' \in {pod, Absent}
    BY <2>1 DEF PassInv
  <2>2. CASE sts # Absent /\ pod' = sts.pod
    <3>1. PICK s \in Buildable, n \in {0, 1} :
            sts = [selector |-> Label(s), replicas |-> n, pod |-> PodTemplate(s)]
      BY <2>2 DEF PassInv, BuiltSet
    <3> QED BY <2>2, <3>1 DEF BuiltPod
  <2> QED BY <2>1, <2>2 DEF ScaleToZero, PodStart, PodStop
<1>4. ServiceFits(spec)' <=> ServiceFits(spec)
  BY <1>1 DEF ServiceFits, Label
<1> QED BY <1>1, <1>2, <1>3, <1>4 DEF PassInv

\* No step breaks the pass.
LEMMA NextPass == ASSUME ShapeInv, PassInv, [Next]_vars PROVE PassInv'
<1>1. CASE UNCHANGED vars
  <2>1. ServiceFits(spec)' <=> ServiceFits(spec)
    BY <1>1 DEF vars, objects, ServiceFits, Label
  <2> QED BY <1>1, <2>1, OnlyPhaseMoves DEF vars, objects, pass, PassInv
<1>2. CASE Pass
  BY <1>2, DetectPass, EnsureSecretPass, EnsureServicePass, EnsureStatefulSetPass,
     EnsureClaimPass, ValidatePass, PhasePass, CleanupPass DEF Pass
<1>3. CASE \E s \in Specs : Edit(s)
  BY <1>3, EditPass
<1>4. CASE Delete \/ ScaleToZero \/ PodStart \/ PodStop
  BY <1>4, PhasePass, ClusterPass
<1> QED BY <1>1, <1>2, <1>3, <1>4 DEF Next

\* A pass never leaves an Active Kode with the Service of another template.
THEOREM PassCorrect == Spec => []PassInv
<1>1. Init => PassInv
  BY DEF Init, PassInv
<1>2. ShapeInv /\ PassInv /\ [Next]_vars => PassInv'
  BY NextPass
<1> QED BY <1>1, <1>2, ShapeCorrect, PTL DEF Spec

\* The Service of a served Kode selects the pod, points to its proxy, and the proxy
\* leads to the program: for every set of specs and of templates.
THEOREM ServiceLeadsToProgram == Spec => []ServiceReachesProxy
<1>1. ShapeInv /\ PassInv => ServiceReachesProxy
  <2> SUFFICES ASSUME PassInv, Served(spec) PROVE ServiceReachesProxy
    BY DEF ServiceReachesProxy
  <2>1. /\ service.selector = Label(spec) /\ service.port = Templates[spec.template].port
        /\ pod # Absent /\ pod.label = Label(spec)
    BY DEF Served, Ready, PassInv, ServiceFits
  <2>2. PICK s \in Buildable : pod = PodTemplate(s)
    BY <2>1 DEF PassInv, BuiltPod
  <2>3. Label(s) = Label(spec) /\ s.template = spec.template
    BY <2>1, <2>2, ContainersOf DEF Label
  <2>4. /\ service.selector = pod.label
        /\ service.port = pod.containers[2].args[1].listener
    BY <2>1, <2>2, <2>3, ProxyOf
  <2>5. \E cluster \in pod.containers[2].args[1].clusters :
          cluster.name = pod.containers[2].args[1].route
            /\ <<cluster.port>> = pod.containers[1].env[2].value
    BY <2>2, ProxyOf
  <2> QED BY <2>4, <2>5 DEF ServiceReachesProxy
<1> QED BY <1>1, ShapeCorrect, PassCorrect, PTL

-----------------------------------------------------------------------------
(* Pods as sequences of containers *)

Kinds == {"secret", "service", "statefulset", "pvc"}

\* Intervals from 1 that are the same end at the same number.
LEMMA SameInterval == ASSUME NEW m \in Nat, NEW n \in Nat, 1 .. m = 1 .. n PROVE m = n
<1>1. CASE m < n
  <2>1. n \in 1 .. n /\ n \notin 1 .. m
    BY <1>1
  <2> QED BY <2>1
<1>2. CASE n < m
  <2>1. m \in 1 .. m /\ m \notin 1 .. n
    BY <1>2
  <2> QED BY <2>1
<1>3. m < n \/ n < m \/ m = n
  OBVIOUS
<1> QED BY <1>1, <1>2, <1>3

\* Sequences of the same domain have the same length.
LEMMA SameLength ==
  ASSUME NEW S, NEW p \in Seq(S), NEW q \in Seq(S), DOMAIN p = DOMAIN q
  PROVE  Len(p) = Len(q)
<1>1. Len(p) \in Nat /\ Len(q) \in Nat /\ DOMAIN p = 1 .. Len(p) /\ DOMAIN q = 1 .. Len(q)
  OBVIOUS
<1>2. 1 .. Len(p) = 1 .. Len(q)
  BY <1>1
<1>3. PICK m \in Nat, n \in Nat : m = Len(p) /\ n = Len(q)
  BY <1>1
<1>4. m = n
  BY <1>2, <1>3, SameInterval
<1> QED BY <1>3, <1>4

\* A pod has two or three containers.
LEMMA ContainerList ==
  ASSUME NEW s
  PROVE  LET t == Templates[s.template]
             S == {MainContainer(s), EnvoyContainer(t), BasicAuthContainer}
         IN  PodTemplate(s).containers \in Seq(S) /\ Len(PodTemplate(s).containers) \in 2 .. 3
<1> DEFINE t == Templates[s.template]
           S == {MainContainer(s), EnvoyContainer(t), BasicAuthContainer}
           rest == IF t.basicAuth THEN <<BasicAuthContainer>> ELSE <<>>
<1>1. PodTemplate(s).containers = <<MainContainer(s)>> \o (<<EnvoyContainer(t)>> \o rest)
  BY DEF PodTemplate, Sidecars
<1>2. MainContainer(s) \in S /\ EnvoyContainer(t) \in S /\ BasicAuthContainer \in S
  OBVIOUS
<1> HIDE DEF S
<1>3. /\ rest \in Seq(S) /\ (Len(rest) = 0 \/ Len(rest) = 1)
      /\ <<MainContainer(s)>> \in Seq(S) /\ Len(<<MainContainer(s)>>) = 1
      /\ <<EnvoyContainer(t)>> \in Seq(S) /\ Len(<<EnvoyContainer(t)>>) = 1
  BY <1>2
<1> HIDE DEF rest
<1>4. /\ <<EnvoyContainer(t)>> \o rest \in Seq(S)
      /\ Len(<<EnvoyContainer(t)>> \o rest) = 1 + Len(rest)
  BY <1>3, ConcatProperties
<1>5. /\ <<MainContainer(s)>> \o (<<EnvoyContainer(t)>> \o rest) \in Seq(S)
      /\ Len(<<MainContainer(s)>> \o (<<EnvoyContainer(t)>> \o rest)) = 2 + Len(rest)
  BY <1>3, <1>4, ConcatProperties
<1>6. 2 + Len(rest) \in 2 .. 3
  <2>1. \A n : n = 0 \/ n = 1 => 2 + n \in 2 .. 3
    OBVIOUS
  <2>2. Len(rest) = 0 \/ Len(rest) = 1
    BY <1>3
  <2> QED BY <2>1, <2>2
<1> QED BY <1>1, <1>5, <1>6 DEF S

PluginContainer(p) == Container(p.name, p.image, <<>>, {}, <<p.args>>, <<>>)
InitContainers == {PluginContainer(p) : p \in Plugin}

\* Plugins run in containers of their own.
LEMMA PluginList ==
  ASSUME NEW plugins \in Seq(Plugin), NEW S, InitContainers \subseteq S
  PROVE  PluginContainers(plugins) \in Seq(S)
<1>1. Len(plugins) \in Nat /\ DOMAIN plugins = 1 .. Len(plugins)
  OBVIOUS
<1>2. \A i \in 1 .. Len(plugins) : PluginContainer(plugins[i]) \in S
  BY DEF InitContainers
<1>3. PluginContainers(plugins) = [i \in 1 .. Len(plugins) |-> PluginContainer(plugins[i])]
  BY <1>1 DEF PluginContainers, PluginContainer
<1>4. [i \in 1 .. Len(plugins) |-> PluginContainer(plugins[i])] \in [1 .. Len(plugins) -> S]
  BY <1>2
<1> HIDE DEF PluginContainer
<1> QED BY <1>1, <1>3, <1>4, SeqDef

\* What comes before a pod's containers is a list too.
LEMMA InitList ==
  ASSUME NEW s \in Buildable
  PROVE  LET S == {ProxySetup(Templates[s.template])} \cup InitContainers
         IN  PodTemplate(s).inits \in Seq(S) /\ Len(PodTemplate(s).inits) > 0
<1> DEFINE t == Templates[s.template]
           S == {ProxySetup(t)} \cup InitContainers
           first == <<ProxySetup(t)>>
           second == PluginContainers(t.plugins)
           third == PluginContainers(s.plugins)
<1>1. PodTemplate(s).inits = (first \o second) \o third
  BY DEF PodTemplate
<1>2. t.plugins \in Seq(Plugin) /\ s.plugins \in Seq(Plugin)
  BY ResTemplatesAssumption DEF Buildable, KodeSpec, Template
<1>3. ProxySetup(t) \in S /\ InitContainers \subseteq S
  OBVIOUS
<1> HIDE DEF S
<1>4. second \in Seq(S) /\ third \in Seq(S)
  BY <1>2, <1>3, PluginList
<1>5. first \in Seq(S) /\ Len(first) = 1
  BY <1>3
<1> HIDE DEF first, second, third
<1>6. first \o second \in Seq(S) /\ Len(first \o second) = Len(first) + Len(second)
  BY <1>4, <1>5, ConcatProperties
<1>7. /\ (first \o second) \o third \in Seq(S)
      /\ Len((first \o second) \o third) = Len(first \o second) + Len(third)
  BY <1>4, <1>6, ConcatProperties
<1>8. Len(second) \in Nat /\ Len(third) \in Nat
  BY <1>4
<1>9. Len((first \o second) \o third) > 0
  BY <1>5, <1>6, <1>7, <1>8
<1> QED BY <1>1, <1>7, <1>9 DEF S

\* A pod of a spec has the shape of a pod.
LEMMA PodShape == ASSUME NEW s \in Buildable PROVE PodTemplateOK(PodTemplate(s))
<1>1. Len(PodTemplate(s).containers) \in 2 .. 3
  BY ContainerList
<1>2. Len(PodTemplate(s).inits) > 0
  BY InitList
<1>3. PodTemplate(s).label \in DOMAIN Templates
  BY DEF PodTemplate, Label, Buildable
<1>4. PodTemplate(s).runtime \in STRING
  BY ResTemplatesAssumption DEF PodTemplate, Buildable, Template
<1>5. PodTemplate(s).volumes \in {<<>>, <<"own">>, <<"existing">>}
  BY DEF PodTemplate, ClaimName
<1> QED BY <1>1, <1>2, <1>3, <1>4, <1>5 DEF PodTemplateOK

\* Where the hash of two pods is the same, so are their programs: what change
\* detection does not see is no image and no environment.
LEMMA HashSame ==
  ASSUME NEW s \in Buildable, NEW t \in Buildable,
         PodHash(PodTemplate(s)) = PodHash(PodTemplate(t))
  PROVE  /\ SameProgram(PodTemplate(s), PodTemplate(t))
         /\ ~ImagesDiffer(PodTemplate(s).containers, PodTemplate(t).containers)
<1> DEFINE p == PodTemplate(s)
           q == PodTemplate(t)
           Cs(a) == {MainContainer(a), EnvoyContainer(Templates[a.template]), BasicAuthContainer}
           Is(a) == {ProxySetup(Templates[a.template])} \cup InitContainers
<1>1. /\ p.containers \in Seq(Cs(s)) /\ q.containers \in Seq(Cs(t))
      /\ p.inits \in Seq(Is(s)) /\ q.inits \in Seq(Is(t))
  BY ContainerList, InitList
<1>2. /\ p.containers \in Seq(Cs(s) \cup Cs(t)) /\ q.containers \in Seq(Cs(s) \cup Cs(t))
      /\ p.inits \in Seq(Is(s) \cup Is(t)) /\ q.inits \in Seq(Is(s) \cup Is(t))
  <2> HIDE DEF p, q, Cs, Is
  <2> QED BY <1>1
<1> HIDE DEF p, q, Cs, Is
<1>3. PodHash(p) = PodHash(q)
  BY DEF p, q
<1>4. [i \in DOMAIN p.containers |->
         [image |-> p.containers[i].image, name |-> p.containers[i].name,
          env   |-> p.containers[i].env]] =
      [i \in DOMAIN q.containers |->
         [image |-> q.containers[i].image, name |-> q.containers[i].name,
          env   |-> q.containers[i].env]]
  BY <1>3 DEF PodHash
<1>5. [i \in DOMAIN p.inits |-> [image |-> p.inits[i].image, name |-> p.inits[i].name]] =
      [i \in DOMAIN q.inits |-> [image |-> q.inits[i].image, name |-> q.inits[i].name]]
  BY <1>3 DEF PodHash
<1>6. /\ DOMAIN p.containers = DOMAIN q.containers
      /\ \A i \in DOMAIN p.containers :
           /\ p.containers[i].image = q.containers[i].image
           /\ p.containers[i].env = q.containers[i].env
  BY <1>4
<1>7. /\ DOMAIN p.inits = DOMAIN q.inits
      /\ \A i \in DOMAIN p.inits : p.inits[i].image = q.inits[i].image
  BY <1>5
<1>8. Len(p.containers) = Len(q.containers) /\ Len(p.inits) = Len(q.inits)
  BY <1>2, <1>6, <1>7, SameLength
<1> QED BY <1>6, <1>7, <1>8 DEF SameProgram, ImagesDiffer, p, q

-----------------------------------------------------------------------------
(* Types *)

ServiceTyped == service.selector \in DOMAIN Templates /\ service.port \in Nat
TypesInv ==
  /\ phase \in {"Configuring", "Provisioning", "Active", "Updating", "Deleting"}
  /\ claims \in [Names -> Claim \cup {Absent}]
  /\ service # Absent => ServiceTyped
  /\ pc \in {"idle", "apply", "validate"} /\ todo \subseteq Kinds
  /\ edits \in Nat /\ scales \in Nat

\* What there is to do is of four kinds.
LEMMA ChangesAreKinds == ASSUME NEW s PROVE Changes(s) \subseteq Kinds
BY DEF Changes, Kinds

\* A Service is built from a template.
LEMMA ServiceBuilt ==
  ASSUME NEW s \in Buildable
  PROVE  ConstructService(s).selector \in DOMAIN Templates /\ ConstructService(s).port \in Nat
BY ResTemplatesAssumption DEF ConstructService, Label, Buildable, Template

\* A claim is created from a storage, or grows.
LEMMA EnsureClaimTypes == ASSUME ShapeInv, TypesInv, EnsureClaim PROVE claims' \in [Names -> Claim \cup {Absent}]
<1>1. CASE UNCHANGED claims
  BY <1>1 DEF TypesInv
<1>2. CASE ~ClaimRefused(claims["own"], k.storage)
  <2> DEFINE claim == claims["own"]
             storage == k.storage
             new == IF claim = Absent
                      THEN [modes |-> storage.modes, size |-> storage.size,
                            class |-> IF storage.class = "" THEN "default" ELSE storage.class]
                      ELSE [claim EXCEPT !.size = storage.size]
  <2>1. claims' = [claims EXCEPT !["own"] = new]
    BY <1>2 DEF EnsureClaim
  <2>2. claim # Absent => claim \in Claim
    BY DEF TypesInv, Names
  <2>3. storage.modes \in Seq(STRING) /\ storage.class \in STRING /\ storage.size \in Nat
    BY DEF ShapeInv, Buildable, KodeSpec, Storage
  <2>4. claim = Absent => new \in Claim
    <3> DEFINE class == IF storage.class = "" THEN "default" ELSE storage.class
    <3>1. class \in STRING
      <4>1. class \in {"default", storage.class}
        OBVIOUS
      <4> QED BY <2>3, <4>1, ResClassAssumption
    <3> HIDE DEF class
    <3>2. [modes |-> storage.modes, size |-> storage.size, class |-> class] \in Claim
      BY <2>3, <3>1 DEF Claim
    <3>3. claim = Absent => new = [modes |-> storage.modes, size |-> storage.size, class |-> class]
      BY DEF class
    <3> QED BY <3>2, <3>3
  <2>5. claim # Absent => new \in Claim
    <3> HIDE DEF claim, storage
    <3> QED BY <2>2, <2>3 DEF Claim
  <2> HIDE DEF new
  <2> QED BY <2>1, <2>4, <2>5 DEF TypesInv
<1> QED BY <1>1, <1>2 DEF EnsureClaim

\* The parts of a pass that make no claim.
LEMMA TurnTypes ==
  ASSUME ShapeInv, TypesInv, EnsureSecret \/ EnsureService \/ EnsureStatefulSet \/ EnsureClaim
  PROVE  /\ UNCHANGED <<phase, edits, scales>>
         /\ pc' \in {"idle", "apply", "validate"} /\ todo' \subseteq Kinds
         /\ service' # Absent => ServiceTyped'
<1>1. \E kind : Turn(kind) /\ (Applied(kind) \/ Fail)
  BY DEF EnsureSecret, EnsureService, EnsureStatefulSet, EnsureClaim
<1>2. /\ UNCHANGED <<phase, edits, scales>>
      /\ pc' \in {"idle", "apply", "validate"} /\ todo' \subseteq Kinds
  BY <1>1 DEF Turn, Applied, Fail, TypesInv
<1>3. service' = service \/ service' = ConstructService(k)
  BY DEF EnsureSecret, EnsureService, EnsureStatefulSet, EnsureClaim
<1> QED BY <1>2, <1>3, ServiceBuilt DEF TypesInv, ServiceTyped, ShapeInv

\* Every step keeps the types.
LEMMA NextTypes == ASSUME ShapeInv, PassInv, TypesInv, [Next]_vars PROVE TypesInv'
<1>1. CASE UNCHANGED vars
  BY <1>1 DEF vars, objects, pass, TypesInv, ServiceTyped
<1>2. CASE Detect
  BY <1>2, ChangesAreKinds DEF Detect, Fail, Finish, TypesInv, ServiceTyped
<1>3. CASE EnsureSecret \/ EnsureService \/ EnsureStatefulSet
  BY <1>3, TurnTypes DEF EnsureSecret, EnsureService, EnsureStatefulSet, TypesInv
<1>4. CASE EnsureClaim
  BY <1>4, TurnTypes, EnsureClaimTypes DEF TypesInv
<1>5. CASE Validate
  <2>1. phase \in {"Configuring", "Updating"}
    BY <1>5 DEF Validate, PassInv
  <2>2. \E p \in {"Configuring", "Provisioning", "Active", "Updating"} : phase' = p
    BY <1>5, <2>1 DEF Validate, Fail, Finish
  <2> QED BY <1>5, <2>2 DEF Validate, Fail, Finish, objects, TypesInv, ServiceTyped
<1>6. CASE Provision \/ Degrade \/ Observe \/ Delete
  BY <1>6 DEF Provision, Degrade, Observe, Delete, objects, pass, TypesInv, ServiceTyped
<1>7. CASE Cleanup
  BY <1>7 DEF Cleanup, pass, TypesInv, Names
<1>8. CASE \E s \in Specs : Edit(s)
  BY <1>8 DEF Edit, objects, TypesInv, ServiceTyped
<1>9. CASE ScaleToZero \/ PodStart \/ PodStop
  BY <1>9 DEF ScaleToZero, PodStart, PodStop, pass, TypesInv, ServiceTyped
<1> QED BY <1>1, <1>2, <1>3, <1>4, <1>5, <1>6, <1>7, <1>8, <1>9 DEF Next, Pass

\* The first state has the types.
LEMMA InitTypes == Init => TypesInv
<1> SUFFICES ASSUME Init PROVE TypesInv
  OBVIOUS
<1>1. PICK claim \in UserClaims : claims = [own |-> Absent, existing |-> claim]
  BY DEF Init
<1>2. claim \in Claim \cup {Absent}
  BY ResForeignAssumption
<1>3. claims \in [Names -> Claim \cup {Absent}]
  BY <1>1, <1>2 DEF Names
<1> QED BY <1>3 DEF Init, TypesInv, Kinds

\* Whatever is written to the cluster has the shape of the object it is, for every set
\* of specs and templates.
THEOREM ResourcesTyped == Spec => []ResTypeOK
<1>1. ShapeInv /\ PassInv /\ TypesInv /\ [Next]_vars => TypesInv'
  BY NextTypes
<1>2. ShapeInv /\ PassInv /\ TypesInv => ResTypeOK
  <2> SUFFICES ASSUME ShapeInv, PassInv, TypesInv PROVE ResTypeOK
    OBVIOUS
  <2>1. sts # Absent => /\ sts.selector = sts.pod.label /\ sts.replicas \in 0 .. 1
                        /\ PodTemplateOK(sts.pod)
    <3> SUFFICES ASSUME NEW s \in Buildable, NEW n \in {0, 1},
                        sts = [selector |-> Label(s), replicas |-> n, pod |-> PodTemplate(s)]
                 PROVE  /\ sts.selector = sts.pod.label /\ sts.replicas \in 0 .. 1
                        /\ PodTemplateOK(sts.pod)
      BY DEF PassInv, BuiltSet
    <3>1. sts.pod = PodTemplate(s) /\ sts.selector = Label(s) /\ sts.replicas \in 0 .. 1
      OBVIOUS
    <3> QED BY <3>1, PodShape, ContainersOf
  <2>2. pod # Absent => PodTemplateOK(pod)
    BY PodShape DEF PassInv, BuiltPod
  <2>3. k \in KodeSpec
    BY DEF ShapeInv, Buildable
  <2> QED BY <2>1, <2>2, <2>3 DEF ResTypeOK, ShapeInv, TypesInv, ServiceTyped, Names, Kinds
<1> QED BY <1>1, <1>2, InitTypes, ShapeCorrect, PassCorrect, PTL DEF Spec

-----------------------------------------------------------------------------
(* What the children of an Active Kode are *)

\* The own secret, the StatefulSet and the claim agree with the spec, as far as change
\* detection can see it.  A pass for an existing secret that differs from the spec
\* builds the pod from the secret and not from the spec.
ReadOtherwise == spec.cred.existing /\ SecretChanged(spec)
SecretFits == spec.cred.existing \/ ~SecretChanged(spec)
ServiceMatches == ~ServiceChanged(spec)
SetFits ==
  ReadOtherwise \/ PodHash(sts.pod) = PodHash(PodTemplate(spec))
ClaimFits ==
  OwnsClaim(spec) /\ ~IsEmpty(spec.storage) =>
    spec.storage.size # 0 /\ claims["own"].size = spec.storage.size

\* A pass works on a copy of its spec that differs from it, if at all, in the
\* credentials read from an existing secret.
Copied ==
  /\ k.template = spec.template /\ k.storage = spec.storage
  /\ k.cred.existing = spec.cred.existing /\ (k = spec \/ ReadOtherwise)

\* As long as a pass is for the spec of the Kode, what is not left to do agrees with
\* that spec; so all of it does where a pass ends well.
MatchInv ==
  /\ pc = "apply" \/ todo = {}
  /\ pc # "idle" /\ observed =>
       /\ Copied
       /\ "secret" \in todo \/ SecretFits
       /\ "service" \in todo \/ ServiceMatches
       /\ "statefulset" \in todo \/ SetFits
       /\ "pvc" \in todo \/ ClaimFits
  /\ pc = "idle" /\ observed /\ phase \in {"Provisioning", "Active"} =>
       SecretFits /\ ServiceMatches /\ SetFits /\ ClaimFits

\* What the pass reads is still so after it.
LEMMA FitsStay ==
  ASSUME UNCHANGED <<spec, secrets, claims, service, sts>>
  PROVE  /\ ReadOtherwise' <=> ReadOtherwise
         /\ SecretFits' <=> SecretFits
         /\ ServiceMatches' <=> ServiceMatches
         /\ SetFits' <=> SetFits
         /\ ClaimFits' <=> ClaimFits
BY DEF ReadOtherwise, SecretFits, ServiceMatches, SetFits, ClaimFits, SecretChanged,
       ServiceChanged

\* What detection leaves out of its list agrees with the spec.
LEMMA DetectFits ==
  ASSUME ~DetectionPanics(spec)
  PROVE  /\ "secret" \in Changes(spec) \/ SecretFits
         /\ "service" \in Changes(spec) \/ ServiceMatches
         /\ "statefulset" \in Changes(spec) \/ SetFits
         /\ "pvc" \in Changes(spec) \/ ClaimFits
<1>1. "secret" \in Changes(spec) \/ SecretFits
  BY DEF Changes, SecretFits
<1>2. "service" \in Changes(spec) \/ ServiceMatches
  BY DEF Changes, ServiceMatches
<1>3. "statefulset" \in Changes(spec) \/ SetFits
  <2>1. "statefulset" \in Changes(spec) \/ ~StatefulSetChanged(spec)
    BY DEF Changes
  <2> QED BY <2>1 DEF StatefulSetChanged, SetFits
<1>4. "pvc" \in Changes(spec) \/ ClaimFits
  <2>1. "pvc" \in Changes(spec) \/ ~ClaimChanged(spec)
    BY DEF Changes
  <2> QED BY <2>1 DEF ClaimChanged, ClaimFits, DetectionPanics
<1> QED BY <1>1, <1>2, <1>3, <1>4

\* A pass that fails leaves the Kode where it looks again.
LEMMA FailMatch ==
  ASSUME PassInv, Fail, pc # "idle" \/ phase \in {"Configuring", "Updating"}
  PROVE  MatchInv'
BY DEF Fail, PassInv, MatchInv

\* A pass begins with a list of what does not agree, or ends where all does.
LEMMA DetectMatch == ASSUME Detect, PassInv, MatchInv PROVE MatchInv'
<1>1. /\ observed /\ phase \in {"Configuring", "Updating"}
      /\ UNCHANGED <<spec, secrets, claims, service, sts>>
  BY DEF Detect
<1>2. CASE Fail
  BY <1>1, <1>2, FailMatch
<1>3. CASE ~DetectionPanics(spec) /\ Changes(spec) = {} /\ Finish("Active")
  <2>1. SecretFits /\ ServiceMatches /\ SetFits /\ ClaimFits
    BY <1>3, DetectFits
  <2>2. SecretFits' /\ ServiceMatches' /\ SetFits' /\ ClaimFits'
    BY <1>1, <2>1, FitsStay
  <2> QED BY <1>3, <2>2 DEF Finish, MatchInv
<1>4. CASE /\ ~DetectionPanics(spec) /\ k' = spec /\ todo' = Changes(spec)
           /\ pc' = IF Changes(spec) = {} THEN "validate" ELSE "apply"
           /\ UNCHANGED <<phase, observed>>
  <2>1. /\ "secret" \in todo' \/ SecretFits'
        /\ "service" \in todo' \/ ServiceMatches'
        /\ "statefulset" \in todo' \/ SetFits'
        /\ "pvc" \in todo' \/ ClaimFits'
    BY <1>1, <1>4, DetectFits, FitsStay
  <2>2. Copied'
    BY <1>1, <1>4 DEF Copied
  <2>3. pc' = "apply" \/ todo' = {}
    BY <1>4
  <2>4. pc' # "idle"
    BY <1>4
  <2> QED BY <2>1, <2>2, <2>3, <2>4 DEF MatchInv
<1>5. CASE DetectionPanics(spec)
  BY <1>2, <1>5 DEF Detect
<1>6. CASE ~DetectionPanics(spec)
  BY <1>3, <1>4, <1>6 DEF Detect
<1> QED BY <1>5, <1>6

\* After a part of the pass has done its work, what it has not touched still agrees.
LEMMA AppliedMatch ==
  ASSUME NEW kind \in Kinds, Turn(kind), Applied(kind), MatchInv,
         observed => /\ Copied'
                     /\ "secret" \in todo' \/ SecretFits'
                     /\ "service" \in todo' \/ ServiceMatches'
                     /\ "statefulset" \in todo' \/ SetFits'
                     /\ "pvc" \in todo' \/ ClaimFits'
  PROVE  MatchInv'
<1>1. (pc' = "apply" \/ todo' = {}) /\ pc' # "idle" /\ observed' = observed
  BY DEF Applied
<1> QED BY <1>1 DEF MatchInv

\* The secret of the Kode is written from its spec; an existing one is read, which
\* changes nothing where it is what the spec says.
LEMMA EnsureSecretMatch == ASSUME ShapeInv, PassInv, MatchInv, EnsureSecret PROVE MatchInv'
<1> DEFINE secret == secrets[SecretName(k)]
           label == IF secret = Absent THEN Label(k) ELSE secret.label
           new == [user |-> k.cred.user, password |-> k.cred.password,
                   keys |-> BothKeys, label |-> label]
<1>1. /\ Turn("secret") /\ pc = "apply" /\ UNCHANGED <<spec, claims, service, sts>>
  BY DEF EnsureSecret, Turn
<1>2. CASE Fail
  BY <1>1, <1>2, FailMatch
<1>3. ASSUME Applied("secret"), observed
      PROVE  /\ Copied /\ todo' = todo \ {"secret"}
             /\ "service" \in todo' \/ ServiceMatches
             /\ "statefulset" \in todo' \/ SetFits
             /\ "pvc" \in todo' \/ ClaimFits
  BY <1>1, <1>3 DEF MatchInv, Applied
<1>4. CASE /\ k.cred.existing /\ secret # Absent /\ UNCHANGED secrets /\ Applied("secret")
           /\ k' = [k EXCEPT !.cred.user = secret.user, !.cred.password = secret.password]
  <2> SUFFICES ASSUME observed
               PROVE  /\ Copied'
                      /\ "secret" \in todo' \/ SecretFits'
                      /\ "service" \in todo' \/ ServiceMatches'
                      /\ "statefulset" \in todo' \/ SetFits'
                      /\ "pvc" \in todo' \/ ClaimFits'
    BY <1>1, <1>4, AppliedMatch DEF Kinds
  <2>1. Copied /\ spec.cred.existing
    BY <1>3, <1>4 DEF Copied
  <2>2. SecretFits
    BY <2>1 DEF SecretFits
  <2>3. /\ k \in KodeSpec /\ spec \in KodeSpec
    BY SpecsBuildable DEF ShapeInv, Buildable
  <2>4. /\ k'.template = k.template /\ k'.storage = k.storage
        /\ k'.cred.existing = k.cred.existing
    BY <1>4, <2>3 DEF KodeSpec, Credentials
  <2>5. ReadOtherwise \/ k' = spec
    <3> SUFFICES ASSUME ~ReadOtherwise PROVE k' = spec
      OBVIOUS
    <3>1. k = spec /\ ~SecretChanged(spec)
      BY <2>1 DEF Copied, ReadOtherwise
    <3>2. secret.user = spec.cred.user /\ secret.password = spec.cred.password
      BY <3>1 DEF SecretChanged
    <3> HIDE DEF secret
    <3> QED BY <1>4, <2>3, <3>1, <3>2 DEF KodeSpec, Credentials
  <2>6. ReadOtherwise' <=> ReadOtherwise
    BY <1>1, <1>4, FitsStay
  <2>7. Copied'
    BY <1>1, <2>1, <2>4, <2>5, <2>6 DEF Copied
  <2> QED BY <1>1, <1>3, <1>4, <2>2, <2>7, FitsStay
<1>5. CASE /\ ~k.cred.existing /\ UNCHANGED k /\ Applied("secret")
           /\ secrets' = [secrets EXCEPT !["own"] = new]
  <2> SUFFICES ASSUME observed
               PROVE  /\ Copied'
                      /\ "secret" \in todo' \/ SecretFits'
                      /\ "service" \in todo' \/ ServiceMatches'
                      /\ "statefulset" \in todo' \/ SetFits'
                      /\ "pvc" \in todo' \/ ClaimFits'
    BY <1>1, <1>5, AppliedMatch DEF Kinds
  <2>1. Copied /\ ~spec.cred.existing /\ k = spec
    BY <1>3, <1>5 DEF Copied, ReadOtherwise
  <2>2. Copied'
    BY <1>1, <1>5, <2>1 DEF Copied
  <2>3. secrets'["own"] = new /\ secrets'["own"] # Absent
    <3>1. "own" \in DOMAIN secrets
      BY DEF ShapeInv, Names
    <3>2. secrets'["own"] \in Secret \cup {Absent} /\ secrets'["own"] = new
      <4>1. secrets'["own"] = new
        BY <1>5, <3>1
      <4>2. ShapeInv'
        BY EnsureSecretShape
      <4> QED BY <4>1, <4>2 DEF ShapeInv, Names
    <3>3. new \in Secret
      <4>1. secret # Absent => secret \in Secret
        BY <1>5 DEF ShapeInv, SecretName, Names
      <4>2. label \in STRING
        BY <4>1 DEF Secret, Label, ShapeInv, Buildable, KodeSpec
      <4>3. k.cred.user \in STRING /\ k.cred.password \in STRING
        BY DEF ShapeInv, Buildable, KodeSpec, Credentials
      <4> HIDE DEF secret, label
      <4> QED BY <4>2, <4>3 DEF Secret, BothKeys
    <3> HIDE DEF new
    <3> QED BY <3>2, <3>3, ResAbsentAssumption
  <2>4. SecretFits'
    <3>1. /\ new.user = spec.cred.user /\ new.password = spec.cred.password
          /\ new.keys = BothKeys
      BY <2>1
    <3> HIDE DEF new
    <3> QED BY <1>1, <2>1, <2>3, <3>1 DEF SecretFits, SecretChanged, SecretName
  <2>5. /\ ServiceMatches' <=> ServiceMatches
        /\ ClaimFits' <=> ClaimFits
    BY <1>1 DEF ServiceMatches, ServiceChanged, ClaimFits
  <2>6. SetFits' <=> SetFits
    BY <1>1, <2>1 DEF SetFits, ReadOtherwise
  <2> QED BY <1>3, <1>5, <2>2, <2>4, <2>5, <2>6
<1> QED BY <1>2, <1>4, <1>5 DEF EnsureSecret

\* A Service is written for the template of the spec.
LEMMA EnsureServiceMatch == ASSUME MatchInv, EnsureService PROVE MatchInv'
<1>1. /\ Turn("service") /\ pc = "apply" /\ UNCHANGED <<spec, secrets, claims, sts>>
      /\ service' = ConstructService(k) /\ UNCHANGED k /\ Applied("service")
  BY DEF EnsureService, Turn
<1> SUFFICES ASSUME observed
             PROVE  /\ Copied'
                    /\ "secret" \in todo' \/ SecretFits'
                    /\ "service" \in todo' \/ ServiceMatches'
                    /\ "statefulset" \in todo' \/ SetFits'
                    /\ "pvc" \in todo' \/ ClaimFits'
  BY <1>1, AppliedMatch DEF Kinds
<1>2. Copied /\ todo' = todo \ {"service"}
  BY <1>1 DEF MatchInv, Applied
<1>3. /\ SecretFits' <=> SecretFits
      /\ SetFits' <=> SetFits
      /\ ClaimFits' <=> ClaimFits
      /\ ReadOtherwise' <=> ReadOtherwise
  BY <1>1 DEF SecretFits, SetFits, ClaimFits, ReadOtherwise, SecretChanged
<1>4. Copied'
  BY <1>1, <1>2, <1>3 DEF Copied
<1>5. ServiceMatches'
  BY <1>1, <1>2 DEF Copied, ServiceMatches, ServiceChanged, ConstructService, Label
<1>6. /\ "secret" \in todo \/ SecretFits
      /\ "statefulset" \in todo \/ SetFits
      /\ "pvc" \in todo \/ ClaimFits
  BY <1>1 DEF MatchInv
<1> QED BY <1>2, <1>3, <1>4, <1>5, <1>6

\* The StatefulSet is built from the spec, or from the secret that was read instead.
LEMMA EnsureSetMatch == ASSUME PassInv, MatchInv, EnsureStatefulSet PROVE MatchInv'
<1>1. /\ Turn("statefulset") /\ pc = "apply" /\ UNCHANGED <<spec, secrets, claims, service>>
  BY DEF EnsureStatefulSet, Turn
<1>2. CASE Fail
  BY <1>1, <1>2, FailMatch
<1>3. CASE sts' = ConstructStatefulSet(k) /\ UNCHANGED k /\ Applied("statefulset")
  <2> SUFFICES ASSUME observed
               PROVE  /\ Copied'
                      /\ "secret" \in todo' \/ SecretFits'
                      /\ "service" \in todo' \/ ServiceMatches'
                      /\ "statefulset" \in todo' \/ SetFits'
                      /\ "pvc" \in todo' \/ ClaimFits'
    BY <1>1, <1>3, AppliedMatch DEF Kinds
  <2>2. Copied /\ todo' = todo \ {"statefulset"}
    BY <1>1, <1>3 DEF MatchInv, Applied
  <2>3. /\ SecretFits' <=> SecretFits
        /\ ServiceMatches' <=> ServiceMatches
        /\ ClaimFits' <=> ClaimFits
        /\ ReadOtherwise' <=> ReadOtherwise
    BY <1>1 DEF SecretFits, ServiceMatches, ServiceChanged, ClaimFits, ReadOtherwise,
                SecretChanged
  <2>4. Copied'
    BY <1>1, <1>3, <2>2, <2>3 DEF Copied
  <2>5. SetFits'
    <3>1. sts'.pod = PodTemplate(k)
      BY <1>3 DEF ConstructStatefulSet
    <3>2. k = spec => PodHash(sts'.pod) = PodHash(PodTemplate(spec))
      BY <3>1
    <3> QED BY <1>1, <2>2, <2>3, <3>2 DEF Copied, SetFits
  <2>6. /\ "secret" \in todo \/ SecretFits
        /\ "service" \in todo \/ ServiceMatches
        /\ "pvc" \in todo \/ ClaimFits
    BY <1>1 DEF MatchInv
  <2> QED BY <2>2, <2>3, <2>4, <2>5, <2>6
<1> QED BY <1>2, <1>3 DEF EnsureStatefulSet

\* A claim that is not refused gets the size the spec asks for.
LEMMA EnsureClaimMatch ==
  ASSUME ShapeInv, PassInv, TypesInv, MatchInv, EnsureClaim
  PROVE  MatchInv'
<1>1. /\ Turn("pvc") /\ pc = "apply" /\ UNCHANGED <<spec, secrets, service, sts>>
  BY DEF EnsureClaim, Turn
<1>2. CASE ClaimRefused(claims["own"], k.storage)
  BY <1>1, <1>2, FailMatch DEF EnsureClaim
<1>3. CASE ~ClaimRefused(claims["own"], k.storage)
  <2> DEFINE claim == claims["own"]
             storage == k.storage
             new == IF claim = Absent
                      THEN [modes |-> storage.modes, size |-> storage.size,
                            class |-> IF storage.class = "" THEN "default" ELSE storage.class]
                      ELSE [claim EXCEPT !.size = storage.size]
  <2>1. UNCHANGED k /\ Applied("pvc") /\ claims' = [claims EXCEPT !["own"] = new]
    BY <1>3 DEF EnsureClaim
  <2> SUFFICES ASSUME observed
               PROVE  /\ Copied'
                      /\ "secret" \in todo' \/ SecretFits'
                      /\ "service" \in todo' \/ ServiceMatches'
                      /\ "statefulset" \in todo' \/ SetFits'
                      /\ "pvc" \in todo' \/ ClaimFits'
    <3> HIDE DEF new
    <3> QED BY <1>1, <2>1, AppliedMatch DEF Kinds
  <2>2. Copied /\ todo' = todo \ {"pvc"}
    BY <1>1, <2>1 DEF MatchInv, Applied
  <2>3. /\ SecretFits' <=> SecretFits
        /\ ServiceMatches' <=> ServiceMatches
        /\ SetFits' <=> SetFits
        /\ ReadOtherwise' <=> ReadOtherwise
    BY <1>1 DEF SecretFits, ServiceMatches, ServiceChanged, SetFits, ReadOtherwise,
                SecretChanged
  <2>4. Copied'
    BY <1>1, <2>1, <2>2, <2>3 DEF Copied
  <2>5. storage.size # 0
    BY <1>3 DEF ClaimRefused
  <2>6. new.size = storage.size
    <3>1. claim # Absent => claim \in Claim
      BY DEF TypesInv, Names
    <3> HIDE DEF claim, storage
    <3> QED BY <3>1 DEF Claim
  <2>7. claims'["own"].size = spec.storage.size
    <3>1. "own" \in DOMAIN claims
      BY DEF TypesInv, Names
    <3>2. claims'["own"] = new
      <4> HIDE DEF new
      <4> QED BY <2>1, <3>1
    <3> HIDE DEF new
    <3> QED BY <2>2, <2>6, <3>2 DEF Copied
  <2>8. ClaimFits'
    <3>1. spec.storage.size # 0
      BY <2>2, <2>5 DEF Copied
    <3> QED BY <1>1, <2>7, <3>1 DEF ClaimFits
  <2>9. /\ "secret" \in todo \/ SecretFits
        /\ "service" \in todo \/ ServiceMatches
        /\ "statefulset" \in todo \/ SetFits
    BY <1>1 DEF MatchInv
  <2> QED BY <2>2, <2>3, <2>4, <2>8, <2>9
<1> QED BY <1>2, <1>3

\* A pass that ends well has nothing left in its list.
LEMMA ValidateMatch == ASSUME PassInv, MatchInv, Validate PROVE MatchInv'
<1>1. /\ pc = "validate" /\ UNCHANGED <<spec, secrets, claims, service, sts>>
  BY DEF Validate, objects
<1>2. CASE Fail
  BY <1>1, <1>2, FailMatch
<1>3. ASSUME NEW p, Finish(p) PROVE MatchInv'
  <2>1. pc' = "idle" /\ todo' = {} /\ observed' = observed
    BY <1>3 DEF Finish
  <2>2. observed => SecretFits /\ ServiceMatches /\ SetFits /\ ClaimFits
    BY <1>1 DEF MatchInv
  <2>3. observed => SecretFits' /\ ServiceMatches' /\ SetFits' /\ ClaimFits'
    BY <1>1, <2>2, FitsStay
  <2> QED BY <2>1, <2>3 DEF MatchInv
<1> QED BY <1>2, <1>3 DEF Validate

\* What happens between passes.
LEMMA BetweenMatch ==
  ASSUME MatchInv, Provision \/ Degrade \/ Observe \/ Cleanup \/ Delete
                     \/ \E s \in Specs : Edit(s)
  PROVE  MatchInv'
<1>1. CASE Provision \/ Degrade \/ Observe \/ Delete
  <2>1. UNCHANGED <<spec, secrets, claims, service, sts, pc, k, todo>> /\ pc = "idle"
    BY <1>1 DEF Provision, Degrade, Observe, Delete, objects, pass
  <2>2. \/ phase' \in {"Updating", "Deleting"}
        \/ observed /\ observed' = observed /\ phase = "Provisioning"
    BY <1>1 DEF Provision, Degrade, Observe, Delete
  <2> QED BY <2>1, <2>2, FitsStay DEF MatchInv
<1>2. CASE Cleanup
  BY <1>2 DEF Cleanup, pass, MatchInv
<1>3. CASE \E s \in Specs : Edit(s)
  BY <1>3 DEF Edit, MatchInv
<1> QED BY <1>1, <1>2, <1>3

\* The StatefulSet controller and who scales leave the pod template alone.
LEMMA ClusterMatch ==
  ASSUME PassInv, MatchInv, ScaleToZero \/ PodStart \/ PodStop \/ UNCHANGED vars
  PROVE  MatchInv'
<1>1. CASE PodStart \/ PodStop \/ UNCHANGED vars
  <2>1. UNCHANGED <<spec, secrets, claims, service, sts, pc, k, todo, observed, phase>>
    BY <1>1 DEF PodStart, PodStop, vars, objects, pass
  <2>2. Copied' <=> Copied
    BY <2>1, FitsStay DEF Copied
  <2> QED BY <2>1, <2>2, FitsStay DEF MatchInv
<1>2. CASE ScaleToZero
  <2>1. UNCHANGED <<spec, secrets, claims, service, pc, k, todo, observed, phase>>
    BY <1>2 DEF ScaleToZero, pass
  <2>2. BuiltSet(sts) /\ sts' = [sts EXCEPT !.replicas = 0]
    BY <1>2 DEF ScaleToZero, PassInv
  <2>3. sts'.pod = sts.pod
    BY <2>2 DEF BuiltSet
  <2>4. /\ SecretFits' <=> SecretFits
        /\ ServiceMatches' <=> ServiceMatches
        /\ SetFits' <=> SetFits
        /\ ClaimFits' <=> ClaimFits
        /\ ReadOtherwise' <=> ReadOtherwise
    BY <2>1, <2>3 DEF SecretFits, ServiceMatches, ServiceChanged, SetFits, ClaimFits,
                      ReadOtherwise, SecretChanged
  <2>5. Copied' <=> Copied
    BY <2>1, <2>4 DEF Copied
  <2> QED BY <2>1, <2>4, <2>5 DEF MatchInv
<1> QED BY <1>1, <1>2

\* Every step keeps the agreement.
LEMMA NextMatch ==
  ASSUME ShapeInv, PassInv, TypesInv, MatchInv, [Next]_vars
  PROVE  MatchInv'
BY DetectMatch, EnsureSecretMatch, EnsureServiceMatch, EnsureSetMatch, EnsureClaimMatch,
   ValidateMatch, BetweenMatch, ClusterMatch DEF Next, Pass

\* Before the first pass there is nothing to agree.
LEMMA InitMatch == Init => MatchInv
BY DEF Init, MatchInv

\* The children agree with the spec, but for what is left to do.
THEOREM MatchCorrect == Spec => [](ShapeInv /\ PassInv /\ TypesInv /\ MatchInv)
<1>1. ShapeInv /\ PassInv /\ TypesInv /\ [Next]_vars => TypesInv'
  BY NextTypes
<1>2. ShapeInv /\ PassInv /\ TypesInv /\ MatchInv /\ [Next]_vars => MatchInv'
  BY NextMatch
<1> QED BY <1>1, <1>2, InitTypes, InitMatch, ShapeCorrect, PassCorrect, PTL DEF Spec

\* Where the hash of the StatefulSet is that of the spec, its program is that of the
\* spec.
LEMMA SetProgram ==
  ASSUME ShapeInv, PassInv, sts # Absent, PodHash(sts.pod) = PodHash(PodTemplate(spec))
  PROVE  /\ SameProgram(sts.pod, PodTemplate(spec))
         /\ ~ImagesDiffer(sts.pod.containers, PodTemplate(spec).containers)
<1>1. PICK s \in Buildable, n \in {0, 1} :
        sts = [selector |-> Label(s), replicas |-> n, pod |-> PodTemplate(s)]
  BY DEF PassInv, BuiltSet
<1>2. sts.pod = PodTemplate(s)
  BY <1>1
<1>3. spec \in Buildable
  BY SpecsBuildable DEF ShapeInv
<1> QED BY <1>2, <1>3, HashSame

\* After any history of edits, refused writes and half-done passes the own secret, the
\* Service, the size of the claim and the programs in the StatefulSet's pod template of
\* an Active Kode agree with its spec, for every set of specs and templates.  The pod
\* that runs is another matter (Settles).
THEOREM ActiveMatchesSpec == Spec => []ActiveMatches
<1>1. ShapeInv /\ PassInv /\ TypesInv /\ MatchInv => ActiveMatches
  <2> SUFFICES ASSUME ShapeInv, PassInv, MatchInv, Served(spec)
               PROVE  /\ ~spec.cred.existing => ~SecretChanged(spec)
                      /\ ~ServiceChanged(spec)
                      /\ ~spec.cred.existing => SameProgram(sts.pod, PodTemplate(spec))
                      /\ OwnsClaim(spec) /\ spec.storage.size # 0 =>
                           claims["own"].size = spec.storage.size
    BY DEF ActiveMatches
  <2>1. SecretFits /\ ServiceMatches /\ SetFits /\ ClaimFits /\ sts # Absent
    BY DEF MatchInv, Served, Ready
  <2>2. ~spec.cred.existing => SameProgram(sts.pod, PodTemplate(spec))
    BY <2>1, SetProgram DEF SetFits, ReadOtherwise
  <2>3. OwnsClaim(spec) /\ spec.storage.size # 0 => claims["own"].size = spec.storage.size
    BY <2>1 DEF ClaimFits, OwnsClaim, IsEmpty
  <2> QED BY <2>1, <2>2, <2>3 DEF SecretFits, ServiceMatches
<1> QED BY <1>1, MatchCorrect, PTL

\* A pass that ends well leaves change detection nothing to find but the three
\* differences no pass can remove, for every set of specs and templates.
THEOREM PassesSettle == Spec => Idempotent
<1>1. ASSUME ShapeInv, PassInv, MatchInv, pc = "validate", Valid(k), observed,
             NEW kind \in Changes(spec)
      PROVE  \/ kind = "statefulset" /\ PodOutdated(spec)
             \/ kind = "pvc" /\ spec.storage.modes # claims["own"].modes
             \/ spec.cred.existing /\ SecretChanged(spec)
  <2>1. Copied /\ SecretFits /\ ServiceMatches /\ SetFits /\ ClaimFits
    BY <1>1 DEF MatchInv
  <2>2. sts # Absent /\ ClaimValid(k)
    BY <1>1 DEF Valid
  <2>3. CASE kind = "secret"
    BY <1>1, <2>1, <2>3 DEF Changes, SecretFits
  <2>4. CASE kind = "service"
    BY <1>1, <2>1, <2>4 DEF Changes, ServiceMatches
  <2>5. CASE kind = "statefulset"
    <3>1. StatefulSetChanged(spec)
      BY <1>1, <2>5 DEF Changes
    <3>2. CASE ReadOtherwise
      BY <3>2 DEF ReadOtherwise
    <3>3. CASE PodHash(sts.pod) = PodHash(PodTemplate(spec))
      <4>1. ~ImagesDiffer(sts.pod.containers, PodTemplate(spec).containers)
        BY <1>1, <2>2, <3>3, SetProgram
      <4> QED BY <2>2, <2>5, <3>1, <3>3, <4>1 DEF StatefulSetChanged
    <3> QED BY <2>1, <3>2, <3>3 DEF SetFits
  <2>6. CASE kind = "pvc"
    <3>1. ClaimChanged(spec)
      BY <1>1, <2>6 DEF Changes
    <3>2. OwnsClaim(k)
      BY <2>1, <3>1 DEF ClaimChanged, OwnsClaim, Copied
    <3>3. /\ claims["own"] # Absent
          /\ spec.storage.class # "" => claims["own"].class = spec.storage.class
      BY <2>1, <2>2, <3>2 DEF ClaimValid, Copied
    <3>4. claims["own"].size = spec.storage.size
      BY <2>1, <3>1 DEF ClaimFits, ClaimChanged
    <3> QED BY <2>6, <3>1, <3>3, <3>4 DEF ClaimChanged
  <2> QED BY <1>1, <2>3, <2>4, <2>5, <2>6 DEF Changes
<1>2. ShapeInv /\ PassInv /\ TypesInv /\ MatchInv =>
        [pc = "validate" /\ pc' = "idle" /\ Valid(k) /\ observed =>
           \A kind \in Changes(spec) :
             \/ kind = "statefulset" /\ PodOutdated(spec)
             \/ kind = "pvc" /\ spec.storage.modes # claims["own"].modes
             \/ spec.cred.existing /\ SecretChanged(spec)]_vars
  BY <1>1
<1> QED BY <1>2, MatchCorrect, PTL DEF Idempotent

-----------------------------------------------------------------------------
(* The user of the workspace *)

\* The credentials a pass works with are those of the secret, once it is past it.
Read ==
  IF k.cred.existing
    THEN secrets["existing"] # Absent /\ secrets["existing"].user = k.cred.user
    ELSE secrets["own"] # Absent

\* A Kode that has no secret of its own has the user of the existing one in its pod
\* template.
UserInv ==
  /\ pc # "idle" /\ "secret" \notin todo => Read
  /\ secrets["own"] = Absent /\ sts # Absent =>
       sts.pod.containers[1].env[3].value = <<secrets["existing"].user>>

\* The user of a pod that is built.
LEMMA UserOf ==
  ASSUME NEW s
  PROVE  PodTemplate(s).containers[1].env[3].value = <<s.cred.user>>
BY ContainersOf, EnvOf

\* The steps that touch neither secrets nor the StatefulSet.
LEMMA OtherUser ==
  ASSUME UserInv, UNCHANGED <<secrets, sts>>,
         pc' # "idle" /\ "secret" \notin todo' =>
           pc # "idle" /\ "secret" \notin todo /\ k' = k
  PROVE  UserInv'
BY DEF UserInv, Read

\* A pass without a change of the secret has the user of the secret in its spec.
LEMMA DetectUser == ASSUME ShapeInv, UserInv, Detect PROVE UserInv'
<1>1. UNCHANGED <<secrets, sts>>
  BY DEF Detect
<1>2. CASE pc' = "idle"
  BY <1>1, <1>2, OtherUser
<1>3. CASE pc' # "idle"
  <2>1. k' = spec /\ todo' = Changes(spec)
    BY <1>3 DEF Detect, Fail, Finish
  <2>2. ASSUME "secret" \notin todo' PROVE Read'
    <3>1. ~SecretChanged(spec)
      BY <2>1, <2>2 DEF Changes
    <3> QED BY <1>1, <2>1, <3>1 DEF SecretChanged, SecretName, Read
  <2> QED BY <1>1, <2>2 DEF UserInv
<1> QED BY <1>2, <1>3

\* The secret is read or written before anything is built from it.
LEMMA EnsureSecretUser == ASSUME ShapeInv, UserInv, EnsureSecret PROVE UserInv'
<1> DEFINE secret == secrets[SecretName(k)]
           label == IF secret = Absent THEN Label(k) ELSE secret.label
           new == [user |-> k.cred.user, password |-> k.cred.password,
                   keys |-> BothKeys, label |-> label]
<1>1. UNCHANGED sts
  BY DEF EnsureSecret
<1>2. CASE UNCHANGED secrets /\ Fail
  BY <1>1, <1>2, OtherUser DEF Fail
<1>3. CASE /\ k.cred.existing /\ secret # Absent /\ UNCHANGED secrets
           /\ k' = [k EXCEPT !.cred.user = secret.user, !.cred.password = secret.password]
  <2>1. k \in KodeSpec
    BY DEF ShapeInv, Buildable
  <2>2. k'.cred.existing /\ k'.cred.user = secret.user
    <3> HIDE DEF secret
    <3> QED BY <1>3, <2>1 DEF KodeSpec, Credentials
  <2>3. secret = secrets["existing"]
    BY <1>3 DEF SecretName
  <2>4. Read'
    BY <1>3, <2>2, <2>3 DEF Read
  <2> QED BY <1>1, <1>3, <2>4 DEF UserInv
<1>4. CASE ~k.cred.existing /\ UNCHANGED k /\ secrets' = [secrets EXCEPT !["own"] = new]
  <2>1. new \in Secret
    <3>1. secret # Absent => secret \in Secret
      BY <1>4 DEF ShapeInv, SecretName, Names
    <3>2. label \in STRING
      BY <3>1 DEF Secret, Label, ShapeInv, Buildable, KodeSpec
    <3>3. k.cred.user \in STRING /\ k.cred.password \in STRING
      BY DEF ShapeInv, Buildable, KodeSpec, Credentials
    <3> HIDE DEF secret, label
    <3> QED BY <3>2, <3>3 DEF Secret, BothKeys
  <2> HIDE DEF new
  <2>2. secrets'["own"] # Absent
    BY <1>4, <2>1, ResAbsentAssumption DEF ShapeInv, Names
  <2> QED BY <1>4, <2>2 DEF UserInv, Read
<1> QED BY <1>2, <1>3, <1>4 DEF EnsureSecret

\* The StatefulSet is built after the secret.
LEMMA EnsureSetUser == ASSUME UserInv, EnsureStatefulSet PROVE UserInv'
<1>1. Turn("statefulset") /\ UNCHANGED secrets /\ pc = "apply"
  BY DEF EnsureStatefulSet, Turn
<1>2. CASE UNCHANGED sts /\ Fail
  BY <1>1, <1>2, OtherUser DEF Fail
<1>3. CASE sts' = ConstructStatefulSet(k) /\ UNCHANGED k /\ Applied("statefulset")
  <2>1. "secret" \notin todo
    BY <1>1 DEF Turn, ApplyOrder
  <2>2. Read
    BY <1>1, <2>1 DEF UserInv
  <2>3. Read'
    BY <1>1, <1>3, <2>2 DEF Read
  <2>4. sts'.pod = PodTemplate(k)
    BY <1>3 DEF ConstructStatefulSet
  <2>5. sts'.pod.containers[1].env[3].value = <<k.cred.user>>
    BY <2>4, UserOf
  <2> QED BY <1>1, <2>2, <2>3, <2>5 DEF UserInv, Read
<1> QED BY <1>2, <1>3 DEF EnsureStatefulSet

\* Every step keeps the user of the secret in the pod.
LEMMA NextUser == ASSUME ShapeInv, PassInv, UserInv, [Next]_vars PROVE UserInv'
<1>1. CASE UNCHANGED vars
  BY <1>1, OtherUser DEF vars, objects, pass
<1>2. CASE EnsureService
  <2>1. UNCHANGED <<secrets, sts, k>> /\ pc = "apply" /\ todo' = todo \ {"service"}
    BY <1>2 DEF EnsureService, Turn, Applied
  <2> QED BY <2>1, OtherUser
<1>3. CASE EnsureClaim
  <2>1. UNCHANGED <<secrets, sts>> /\ pc = "apply"
    BY <1>3 DEF EnsureClaim, Turn
  <2>2. pc' = "idle" \/ (k' = k /\ todo' = todo \ {"pvc"})
    BY <1>3 DEF EnsureClaim, Fail, Applied
  <2> QED BY <2>1, <2>2, OtherUser
<1>4. CASE Validate \/ Provision \/ Degrade \/ Observe \/ Delete
  <2>1. UNCHANGED <<secrets, sts>> /\ pc' = "idle"
    BY <1>4 DEF Validate, Provision, Degrade, Observe, Delete, objects, pass, Fail, Finish
  <2> QED BY <2>1, OtherUser
<1>5. CASE Cleanup
  BY <1>5 DEF Cleanup, pass, UserInv
<1>6. CASE \E s \in Specs : Edit(s)
  BY <1>6, OtherUser DEF Edit, objects
<1>7. CASE PodStart \/ PodStop
  BY <1>7, OtherUser DEF PodStart, PodStop, pass
<1>8. CASE ScaleToZero
  <2>1. UNCHANGED <<secrets, pc, k, todo>>
    BY <1>8 DEF ScaleToZero, pass
  <2>2. sts # Absent /\ BuiltSet(sts) /\ sts' = [sts EXCEPT !.replicas = 0]
    BY <1>8 DEF ScaleToZero, PassInv
  <2>3. sts'.pod = sts.pod
    BY <2>2 DEF BuiltSet
  <2> QED BY <2>1, <2>2, <2>3 DEF UserInv, Read
<1> QED BY <1>1, <1>2, <1>3, <1>4, <1>5, <1>6, <1>7, <1>8, DetectUser, EnsureSecretUser,
        EnsureSetUser DEF Next, Pass

\* The pod template of an Active Kode's StatefulSet names the user of its secret, unless
\* the Kode has turned from its own secret to an existing one, for every set of specs.
THEOREM UserOfSecret == Spec => []UserAgrees
<1>1. Init => UserInv
  BY DEF Init, UserInv
<1>2. ShapeInv /\ PassInv /\ TypesInv /\ MatchInv /\ UserInv /\ [Next]_vars => UserInv'
  BY NextUser
<1>3. ShapeInv /\ PassInv /\ TypesInv /\ MatchInv /\ UserInv => UserAgrees
  <2> SUFFICES ASSUME ShapeInv, PassInv, MatchInv, UserInv, Served(spec),
                      spec.cred.existing => secrets["own"] = Absent
               PROVE  sts.pod.containers[1].env[3].value = <<secrets[SecretName(spec)].user>>
    BY DEF UserAgrees
  <2>1. SecretFits /\ SetFits /\ sts # Absent
    BY DEF MatchInv, Served, Ready
  <2>2. CASE spec.cred.existing
    BY <2>1, <2>2 DEF UserInv, SecretName
  <2>3. CASE ~spec.cred.existing
    <3>1. SameProgram(sts.pod, PodTemplate(spec))
      BY <2>1, <2>3, SetProgram DEF SetFits, ReadOtherwise
    <3>2. sts.pod.containers[1].env = PodTemplate(spec).containers[1].env
      <4>1. 1 \in DOMAIN sts.pod.containers
        <5>1. PICK s \in Buildable, n \in {0, 1} :
                sts = [selector |-> Label(s), replicas |-> n, pod |-> PodTemplate(s)]
          BY <2>1 DEF PassInv, BuiltSet
        <5>2. sts.pod.containers = PodTemplate(s).containers
          BY <5>1
        <5> DEFINE c == PodTemplate(s).containers
                   S == {MainContainer(s), EnvoyContainer(Templates[s.template]),
                         BasicAuthContainer}
        <5>3. c \in Seq(S) /\ Len(c) \in 2 .. 3
          BY ContainerList
        <5> HIDE DEF c, S
        <5>4. 1 \in DOMAIN c
          BY <5>3
        <5> QED BY <5>2, <5>4 DEF c
      <4> QED BY <3>1, <4>1 DEF SameProgram
    <3>3. sts.pod.containers[1].env[3].value = <<spec.cred.user>>
      BY <3>2, UserOf
    <3>4. secrets[SecretName(spec)].user = spec.cred.user
      BY <2>1, <2>3 DEF SecretFits, SecretChanged
    <3> QED BY <3>3, <3>4
  <2> QED BY <2>2, <2>3
<1> QED BY <1>1, <1>2, <1>3, MatchCorrect, PTL DEF Spec
=============================================================================
