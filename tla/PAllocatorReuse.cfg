CONSTANTS
  GroupSize <- MCGroupSize
  MaxFiles <- MCMaxFiles
  MaxFrees <- MCMaxFrees
SPECIFICATION AllocSpec
INVARIANT FreedLeavesReusable
