CONSTANTS
  Argvs <- KnownArgvs
  Starts <- BothUses
  Edits <- SomeEdits
  MaxEdits = 6
  MaxInvocations = 2
  MaxMoves = 1
SPECIFICATION StartupSpec
INVARIANTS EveryVmUp PlaceholdersGone
PROPERTY OnlyOurs
CHECK_DEADLOCK FALSE
