SPECIFICATION Spec
CONSTANTS
  BlockSize = 2
  NumBlocks = 3
  StartBlock = 1
  AddrSpace = 8
  Byte = {0, 1}
  Zero = 0
  Drained = Drained
  Drives = {{}, {"read status"}, {"short read"}, {"short write"}, {"command", "data", "write status"},
            {"command", "data", "write status", "read status", "short read", "short write"}}
  MaxIdx = 4
  MaxLen = 2
INVARIANT TypeOK
INVARIANT Coherent
INVARIANT DirtyInPartition
PROPERTY ImplementsByteDevice
PROPERTY PartitionTableSafe
