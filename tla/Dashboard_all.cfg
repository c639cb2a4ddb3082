SPECIFICATION FairSpec
CONSTANTS
  MaxPosts = 4
  MaxHead = 3
  MaxAttempts = 3
INVARIANTS
  OneReviewPerAsking
  ApprovedIsPublished
PROPERTIES
  FixIsFollowed
CHECK_DEADLOCK FALSE
