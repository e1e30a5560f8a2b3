\* Two installations or uninstallations, with any number of restores between
\* them, on either platform: a fresh installation and its update, repair,
\* failure or removal.  One fault, which may be a crash or a reboot, and one
\* change of the content: a restored backup may be older than the content.
SPECIFICATION FairSpec
CONSTANTS
  p1 = p1
  p2 = p2
  Platforms <- MCPlatforms
  Versions <- MCVersions
  Ports <- MCPorts
  DefaultPort = p1
  MaxJobs = 2
  MaxFaults = 1
  MaxEdits = 1
  None = None
  Mixed = Mixed
  Torn = Torn
INVARIANTS TypeOK SuccessMeansServing LeftoversExplained
PROPERTIES FaultFreeRunSucceeds SecretsStable DataSafe CodeOutlivesUnits RunEnds
CHECK_DEADLOCK FALSE
