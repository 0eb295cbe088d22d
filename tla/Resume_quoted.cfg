\* A check whose answer holds the words of a learned skip.
SPECIFICATION Spec
CONSTANTS
  NChecks = 2
  Builds <- OneBuild
  Conducts <- Quoting
  NPaths = 1
  Media <- OneFile
  Faults = {}
  ResumeMax = 2
  LineIds = 2
  Prefixes = {}
  MaxKills = 0
INVARIANT TwoStrikesAlways
