SPECIFICATION Spec
CONSTANTS
  ClassTable <- ProfileClasses
  AllowPcp7 <- ProfileAllowPcp7
  PcpFallback <- ProfilePcpFallback
  Domains <- ProfileDomains
  Links <- ProfileLinks
  LinkAdmissible <- ProfileLinkAdmissible
  Requests <- ScanRequests
  RateUnit = 10000
  MaxUnits = 40
  Writers = {w1}
  Readers = {r1}
  TableSize = 5
  NoThread = NoThread
  NoCall = NoCall
  NoReply = NoReply
  NoStream = NoStream
  NoScan = NoScan
  Hole = Hole
INVARIANTS ListingNeverFails
