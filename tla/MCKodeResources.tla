---------------------------- MODULE MCKodeResources ----------------------------
(***************************************************************************)
(* Instances of the children of a Kode for TLC.                            *)
(***************************************************************************)
EXTENDS KodeResources

NoStorage == [given |-> FALSE, existing |-> FALSE, keep |-> FALSE,
              modes |-> <<>>, class |-> "", size |-> 0]
Managed   == [NoStorage EXCEPT !.given = TRUE, !.modes = <<"RWO", "RWX">>, !.size = 1]

Base == [cred |-> [user |-> "abc", password |-> "", auth |-> FALSE, existing |-> FALSE],
         home |-> "/config", workspace |-> "", plugins |-> <<>>,
         storage |-> Managed, template |-> "code"]

OnePlugin == <<[name |-> "plugin-git", image |-> "git", args |-> "clone"]>>

MCSpecs == {
  Base,
  [Base EXCEPT !.cred.password = "pw", !.cred.auth = TRUE,
               !.home = "/home", !.workspace = "work"],
  [Base EXCEPT !.cred.existing = TRUE],
  [Base EXCEPT !.plugins = OnePlugin, !.storage.size = 2],
  [Base EXCEPT !.storage = NoStorage],
  [Base EXCEPT !.storage.modes = <<"RWX", "RWO">>],
  [Base EXCEPT !.storage.class = "fast"],
  [Base EXCEPT !.storage.size = 0],
  [Base EXCEPT !.storage = [NoStorage EXCEPT !.given = TRUE, !.keep = TRUE]],
  [Base EXCEPT !.storage = [NoStorage EXCEPT !.given = TRUE, !.existing = TRUE]],
  [Base EXCEPT !.template = "twin"],
  [Base EXCEPT !.template = "desktop"] }

Code == [type |-> "code-server", image |-> "code", env |-> "UTC", home |-> "/config",
         workspace |-> "workspace", port |-> 8000, runtime |-> "", plugins |-> <<>>,
         basicAuth |-> FALSE]

MCTemplates ==
  [code    |-> Code,
   twin    |-> [Code EXCEPT !.port = 8443],
   desktop |-> [Code EXCEPT !.type = "webtop", !.image = "webtop",
                            !.plugins = OnePlugin]]

MCUserSecrets ==
  {Absent,
   [user |-> "abc", password |-> "", keys |-> {"username"}, label |-> "code"],
   [user |-> "abc", password |-> "", keys |-> BothKeys, label |-> ""],
   [user |-> "eve", password |-> "pw", keys |-> BothKeys, label |-> "code"]}

MCUserClaims == {Absent, [modes |-> <<"RWO">>, class |-> "default", size |-> 5]}
=============================================================================
