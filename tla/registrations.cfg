SPECIFICATION FairSpec
CONSTANTS
  ClassTable <- ProfileClasses
  AllowPcp7 <- ProfileAllowPcp7
  PcpFallback <- ProfilePcpFallback
  Domains <- ProfileDomains
  Links <- ProfileLinks
  LinkAdmissible <- ProfileLinkAdmissible
  Requests <- CapacityRequests
  RateUnit = 10000
  MaxUnits = 40
  Writers = {w1, w2}
  Readers = {}
  TableSize = 0
  NoThread = NoThread
  NoCall = NoCall
  NoReply = NoReply
  NoStream = NoStream
  NoScan = NoScan
  Hole = Hole
INVARIANTS RegistryInvariant NoOversubscription AdmissionIsAPromise
PROPERTIES LeavesOnlyByName LedgerSpec LockReleased NoLostWaiter
