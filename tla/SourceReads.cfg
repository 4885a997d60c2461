SPECIFICATION Spec
CONSTANTS
  MaxBlob = 8
  MaxLength = 4
  MaxCapacity = 9
  StructBytes = 2
  MaxWrites = 3
  MaxExtent = 2
  MaxDescriptors = 3
  MaxObjects = 4
  MaxWord = 7
  Blobs <- MCBlobs
  Updates <- MCUpdates
  MaxChanges = 1
  MaxFaults = 1
  Installations <- MCInstallations
  Captures <- MCCaptures
  Queries <- MCQueries
  MaxPush = 2
  MaxReads = 4
  MaxReturned = 11
INVARIANTS AnswersAreTheCapture WorkersGoneBeforePublication ReportsAgree RefusedForAReason
CHECK_DEADLOCK FALSE
