\* A death between the removal of a file and the rewrite of the index.
CONSTANTS
  w1 = w1  w2 = w2
  dev = dev  bucket1 = bucket1  bucket2 = bucket2
  i1 = i1  i2 = i2  i3 = i3
  shared = shared  apart = apart
  Writers = {w1, w2}
  Names = {dev, bucket1, bucket2}
  Paths = {p}
  Labels = {l}
  Contents = {c1, c2, bad}
  Valid = {c1, c2}
  Ids = {i1, i2, i3}
  Dirs = {shared, apart}
  SlugOf <- MCSlugOf
  NoSource = NoSource  NoBucket = NoBucket  NoPath = NoPath  NoFile = NoFile
  InitConns = {dev, bucket2}
  MaxRequests = 2
  MaxFaults = 1
SPECIFICATION Spec
INVARIANTS
  NoDanglingAfterDeath
CHECK_DEADLOCK FALSE
