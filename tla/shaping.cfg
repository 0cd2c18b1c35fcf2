SPECIFICATION FairSpec
CONSTANTS
  None = None
  Torn = Torn
  TornWrites = TRUE
  Proposals <- MCProposals
  Responses = {yes}
  MaxRounds = 2
  MaxAttempts = 2
  MaxCrashes = 1
INVARIANTS
  TypeOK
  VerifiedIdeaIsResearchable
PROPERTIES
  ImplementsInterview
  AnswersKept
  ShapingEnds
CHECK_DEADLOCK FALSE
