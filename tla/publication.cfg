SPECIFICATION FairSpec
CONSTANTS
  Managers = {"kode", "entrypoint"}
  Workers = {"k1", "k2", "e"}
  KodeWorkers = {"k1", "k2"}
  EPWorker = "e"
  ManagerOf <- MCManagerOf
  Refs <- MCRefs
  TemplateSpecs <- AnyTemplate
  PointKeys <- MCPointKeys
  PointSpecs <- AnyPoint
  Kodes <- TwoKodes
  Missing = Missing
  Attempts = 2
  Histories <- AnyEvent
INVARIANTS
  PublicationTypeOK
  UrlServed
  SecuredUnpublished
  HostsApart
  EntryPointNeverFound
PROPERTIES
  Publishes
  FailsLate
  CacheHolds
CHECK_DEADLOCK FALSE
