\* Two processes that retry, two administrators.
SPECIFICATION MCSpec
CONSTANTS
  Records <- TwoRecords
  Markers <- TwoMarkers
  Reviewers <- TwoReviewers
  Nobody = "nobody"
  Transient = {"busy", "timeout"}
  Permanent = {"missing"}
  MaxRevision = 4
INVARIANT ReviewMatchesEvidence
PROPERTIES ReviewsReplaceWhatTheyRead BlockIsLiftedOnPurpose
CHECK_DEADLOCK FALSE
