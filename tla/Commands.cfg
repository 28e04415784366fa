SPECIFICATION CommandsSpec
CONSTANTS
  Project = {a, b}
  MaxFeed = 5
  MaxCalls = 2
INVARIANTS CommandsTypeOK CacheCoherent KnownIdleIsCurrent FreshIsLoaded GoAfterItsCue
PROPERTY KnownAgain
