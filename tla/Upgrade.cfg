SPECIFICATION UpgradeSpec
CONSTANTS
  N = 3
  Releases <- MCReleases
  Breaking <- MCBreaking
  MaxRows = 3
  MaxFaults = 2
INVARIANTS
  OkMeansEverywhere
  FirstInWindow
  SkewBounded
  RetryIsAdmitted
