SPECIFICATION Spec
CONSTANTS
  BlockSize = 2
  NumBlocks = 3
  StartBlock = 1
  AddrSpace = 8
  Byte = {0, 1}
  Zero = 0
  Drained = Drained
  Drives = {{"read status"}}
  MaxIdx = 4
  MaxLen = 2
PROPERTY ReadsUnderCursor
