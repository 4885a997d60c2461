SPECIFICATION Spec
CONSTANTS
  Themes <- MCThemes
  Layouts <- MCLayouts
  Pipelines <- MCPipelines
  RenderPasses <- MCRenderPasses
  Allocations <- MCAllocations
  PushLimit = 6
  Word = 2
  MaxPushRanges = 2
  MaxPushWrites = 3
  MaxSets = 2
  MaxBindings = 2
  MaxElements = 2
  MaxOffsets = 2
  MaxAllocations = 2
  MaxCount = 3
  MaxArray = 2
  MaxInt = 3
  MaxLabels = 1
  MaxDraws = 1
  MaxExecutions = 4
  MaxSubmits = 2
INVARIANTS PushDataExact DescriptorsUndisturbed SettingsInForce ExecutionsFollowTheFrame
CHECK_DEADLOCK FALSE
