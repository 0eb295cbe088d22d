\* Disks that come and go and writes that fail.
SPECIFICATION Spec
CONSTANTS
  NChecks = 2
  Builds <- OneBuild
  Conducts <- Fickle
  NPaths = 2
  Media <- Stick
  Faults = {"write"}
  ResumeMax = 2
  LineIds = 1
  Prefixes = {}
  MaxKills = 0
INVARIANT TwoSightings
