----------------------------- MODULE MCPublication -----------------------------
(***************************************************************************)
(* Instances of the publication of Kodes for TLC.                          *)
(***************************************************************************)
EXTENDS Publication

Template == [kind |-> "ClusterContainerTemplate", namespace |-> "", name |-> "code"]
Point    == [namespace |-> "dev", name |-> "gate"]

MCRefs == {Template}
MCPointKeys == {Point}
ToPoint == [port |-> 8000, entryPoint |-> Point]
AnyTemplate ==
  {ToPoint, [ToPoint EXCEPT !.port = 8443], [ToPoint EXCEPT !.entryPoint = Missing]}

\* A policy takes effect with https only.
ByDomain == [routing |-> "subdomain", domain |-> "kode.dev", gateway |-> TRUE,
             https |-> FALSE, policy |-> TRUE]
ByPath   == [ByDomain EXCEPT !.routing = "path", !.https = TRUE]
AnyPoint == {ByDomain, ByPath, [ByDomain EXCEPT !.gateway = FALSE]}

KodeA == [namespace |-> "dev", name |-> "a", ref |-> Template]
KodeB == [namespace |-> "dev", name |-> "b", ref |-> Template]
TwoKodes == {KodeA, KodeB}

\* Any one event, the restart after an edit of the template (which may change nothing).
AnyEvent ==
  {{}, {"editTemplate"}, {"editTemplate", "restart"}, {"editPoint"}, {"loseRoute"}, {"fault"}}

MCManagerOf == [w \in Workers |-> IF w = EPWorker THEN "entrypoint" ELSE "kode"]
=============================================================================
