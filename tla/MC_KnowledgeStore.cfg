CONSTANTS
  ChunkSize = 4
  Overlap = 2
  Texts <- MCTexts
  Files = {"/a", "b"}
  Videos = {"b"}
  Absolute = {"/a"}
  Blocks <- MCBlocks
  MaxBlocks = 2
  MaxBuilds = 2
  MaxFaults = 2
SPECIFICATION KsSpec
INVARIANTS CutIsRight StoredIsRead RelationsLead
