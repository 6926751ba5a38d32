\* The same image: what is said of a damaged extent beside the bytes asked for.
CONSTANTS
  Reader = {r1, r2}
  Inodes = {"a", "b", "d", "u", "x"}
  Nid <- Inodes
  FileSize <- MCFileSize
  BlockSize = 4
  Extent <- MCExtent
  Index <- MCIndex
  Payload <- MCPayload
  Gone <- MCGone
  Zero = Zero
  Request <- MCRequest
  Capacity = {0, 1, 2, 3}
  ByteLimit = 12
  MaxReads = 2
  MaxResizes = 1
  Node <- MCNode
  Root = "root"
  NodeKind <- MCKind
  Entry <- MCEntry
  Target <- MCTarget
  Path <- MCPath
  MaxSymlinks = 3
  MaxCalls = 1
SPECIFICATION SceneSpec
INVARIANTS
  NeighbourSpared
CHECK_DEADLOCK FALSE
