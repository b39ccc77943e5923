SPECIFICATION Spec
CONSTANTS
  c1 = c1
  c2 = c2
  k1 = k1
  k2 = k2
  k3 = k3
  docs = docs
  media = media
  Callers = {c1, c2}
  Buckets = {docs, media}
  NoKey = none
  Keys = {k1, k2, k3}
  Bucket <- MCBucket
  Sizes = {1, 2}
  LargestSize = 2
  QUOTA = 3
  DRIFT_THRESHOLD = 1
  DOWNLOAD_LIMIT = 1
  PAGE = 2
  MaxFiles = 3
  MaxCalls = 3
  MaxFailures = 1
INVARIANTS
  StoreAgrees
  QuotaAgrees
  LimitsHold
PROPERTIES
  JobCorrects
