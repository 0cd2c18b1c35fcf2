SPECIFICATION FairSpec
CONSTANTS
  None = None
  Torn = Torn
  Publishers = {p1, p2}
  Requests <- MCRequests
  CommitAttempts = 2
  MaxCrashes = 1
INVARIANTS
  TypeOK
  PublishedComplete
  NothingClaimedEarly
PROPERTIES
  ImplementsLineage
  PublicationGoesOn
