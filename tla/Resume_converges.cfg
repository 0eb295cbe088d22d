\* Checks that always stop, answer or are declined; two kills at any point.
SPECIFICATION FairSpec
CONSTANTS
  NChecks = 5
  Builds <- OneBuild
  Conducts <- Fitting
  NPaths = 1
  Media <- OneFile
  Faults = {"kill"}
  ResumeMax = 3
  LineIds = 3
  Prefixes <- OnePrefix
  MaxKills = 2
INVARIANT HangsAreSkipped
PROPERTY Converges
