SPECIFICATION FairSpec
CONSTANTS
  p = p
  q = q
  apply = apply
  plan = plan
  red = red
  green = green
  one = one
  two = two
  Publisher = {p, q}
  Fetcher = {apply, plan}
  Applier = apply
  Content = {red, green}
  Blob = {one, two}
  BlobsOf <- MCBlobsOf
  Damaged = {two}
  Size <- MCSize
  MaxPublications = 3
  MaxFaults = 1
INVARIANTS
  PublishedWasLatest
  AppliedIsWhole
PROPERTIES
  ImplementsFeed
  CatchesUp
CHECK_DEADLOCK FALSE
