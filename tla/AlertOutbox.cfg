SPECIFICATION Spec
CONSTANTS
  Script <- MCScript
  Targets = {"admin", "hook"}
  Email = {"admin"}
  Admins = {"admin"}
  Subscribed = {"admin"}
  MaxAttempts = 2
  RateLimit = 1
  CriticalSlots = 1
  NormalSlots = 1
  MaxFaults = 2
INVARIANT SettledIsTrue
PROPERTY NoResendOnceRecorded
PROPERTY EveryAlertSettles
CHECK_DEADLOCK FALSE
