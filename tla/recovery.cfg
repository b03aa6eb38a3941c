SPECIFICATION Spec
CONSTANTS
  ClassTable <- ProfileClasses
  AllowPcp7 <- ProfileAllowPcp7
  PcpFallback <- ProfilePcpFallback
  Domains <- ProfileDomains
  Links <- ProfileLinks
  LinkAdmissible <- ProfileLinkAdmissible
  Redundant <- MCRedundant
  Skews = {0, 700, 2000}
  MaxFrames = 11
  Restarts = {5, 11}
INVARIANTS AtMostOnce RedundancyWorks RestartHealsWithinLease
