SPECIFICATION FairSpec
CONSTANTS
  r1 = r1  r2 = r2
  Reviewers = {r1, r2}
  UseMock = FALSE
  MaxCrashes = 2
INVARIANTS FlaggedIsNeverPublic ScanAndReviewAreApart SettledIsCoherent
PROPERTY PendingIsDecided
CHECK_DEADLOCK FALSE
