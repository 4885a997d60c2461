SPECIFICATION Spec
CONSTANTS
  Themes <- MCThemes
  Modules <- MCModules
  PushLimit = 6
  Word = 2
  MaxPushRanges = 2
  MaxPushWrites = 3
  MaxSets = 2
  MaxBindings = 2
  MaxElements = 2
  MaxOffsets = 2
  MaxAllocations = 2
  MaxCount = 3
  MaxTypes = 2
  MaxHeaps = 1
  MaxBound = 3
  MaxExtensions = 2
  MaxUploads = 8
  MaxBufferUploads = 3
  MaxUploadBytes = 10
  MaxRangeBytes = 4
  MaxUsesPending = 3
  MaxCompletions = 2
  MaxListed = 2
  MaxUpdates = 4
  MaxUpdateElements = 2
  MaxCopies = 1
  MaxHistory = 3
  MaxRecordings = 3
  MaxRecordedSets = 2
  MaxUses = 2
  MaxLabels = 1
  MaxFences = 2
  MaxSubmits = 2
  MaxExecutions = 4
  MaxInFlight = 3
  MaxPlans = 2
INVARIANTS ValueBytesExact BytesHoldInFlight SetsHoldWhileRecorded PlansAreCandidates
CHECK_DEADLOCK FALSE
