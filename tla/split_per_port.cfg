SPECIFICATION Spec
CONSTANTS
  ClassTable <- ProfileClasses
  AllowPcp7 <- ProfileAllowPcp7
  PcpFallback <- ProfilePcpFallback
  Domains <- ProfileDomains
  Links <- ProfileLinks
  LinkAdmissible <- ProfileLinkAdmissible
  Grain = 30
  Objects <- MCObjects
  RequestOf <- MCRequestOf
  Devices <- ProfileDevices
  RequirementMap <- ProfileRequirementMap
  SiteNames = {"zone", "sensor"}
  SiteFiles <- MCSiteFiles
  Batches <- MCBatches
  WaiverSets <- MCWaiverSets
  PortRates = {10, 1000}
  NoJob = NoJob
INVARIANTS SplitPerRedundantStream
