SPECIFICATION Spec
CONSTANTS
  Interfaces <- MCInterfaces
  Enrolled <- MCEnrolled
  Datagrams <- MCDatagrams
  Exporters = {"a", "b"}
  Devices = {"d"}
  NoDevice = NoDevice
  Ifaces = {"i", "j"}
  MaxDirty = 1
  SeqMod = 8
  UptimeMod = 64
  Tolerance = 4
  BucketSecs = 2
  MaxOpen = 1
  MaxIfaceKeys = 1
  MaxClock = 4
  MaxArrivals = 2
  MaxFaults = 1
INVARIANT CompleteIsWhole
INVARIANT EvidenceIsCohort
INVARIANT NoMarkLost
PROPERTY WakeKeepsPromise
CHECK_DEADLOCK FALSE
