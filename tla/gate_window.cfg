SPECIFICATION Spec
CONSTANTS
  ClassTable <- ProfileClasses
  AllowPcp7 <- ProfileAllowPcp7
  PcpFallback <- ProfilePcpFallback
  Domains <- ProfileDomains
  Links <- MCLinks
  LinkAdmissible <- ProfileLinkAdmissible
  FieldValues <- MCFieldValues
  First <- MCFirst
  Shapes <- MCShapes
  Grain = 30
  MaxStreams = 3
  PortRates = {1000}
INVARIANTS EveryStreamGetsAWindow
