\* Any check may answer, stop the process or be declined, at every attempt anew; two
\* builds take turns; tables and line of one entry, so that both overflow.
SPECIFICATION Spec
CONSTANTS
  NChecks = 2
  Builds <- TwoBuilds
  Conducts <- Fickle
  NPaths = 1
  Media <- OneFile
  Faults = {"kill"}
  ResumeMax = 1
  LineIds = 1
  Prefixes = {}
  MaxKills = 1
INVARIANTS AnnouncedFirst SkipsCarried WatchCarried TwoStrikes OtherBuildsIgnored
PROPERTY LearnsByTwoStrikes
