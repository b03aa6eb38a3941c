SPECIFICATION Spec
CONSTANTS
  ClassTable <- ProfileClasses
  AllowPcp7 <- ProfileAllowPcp7
  PcpFallback <- ProfilePcpFallback
  Domains <- ProfileDomains
  Links <- ProfileLinks
  LinkAdmissible <- ProfileLinkAdmissible
  Monitored <- MCMonitored
  Clocks <- MCClocks
  Residual = 500
  TickLength = 2500
  MaxSent = 4
  MaxArrivals = 4
  MaxDelay = 7500
  Horizon = 20000
INVARIANTS TypeOK LossCoversHoles MissesAreEndedSilences PunctualTalkerIsOnTime VerdictIsEarned
