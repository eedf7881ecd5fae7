SPECIFICATION InboxSpec
CONSTANTS
  LastRow = 2
  Results <- MCResults
  ClaimLimit = 2
  Batch = 1
  MaxRetries = 3
  MaxErrors = 2
  MaxDeaths = 1
INVARIANTS
  ToldWithinRetries
PROPERTIES
  ResultIsTaken
