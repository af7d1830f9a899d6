SPECIFICATION Spec
CONSTANTS
  BlockSize = 2
  NumBlocks = 3
  StartBlock = 1
  AddrSpace = 4
  Byte = {0, 1}
  Zero = 0
  Drained = Drained
  Drives = {{}}
  MaxIdx = 4
  MaxLen = 2
PROPERTY PartitionTableSafe
