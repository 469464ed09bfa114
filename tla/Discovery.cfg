SPECIFICATION FairSpec
CONSTANTS
  a = a
  b = b
  NoUrl = NoUrl
  Postings = {a, b}
  Friendly = {a}
  Ashby = {a}
  Listings <- MCListings
  PageSize = 2
  MaxStarted = 3
INVARIANT MirrorsListing
INVARIANT SubmittedIsJustified
INVARIANT ActivityIsReported
PROPERTY NoSecondApplication
CHECK_DEADLOCK FALSE
