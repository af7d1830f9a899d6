SPECIFICATION Spec
CONSTANTS
  Byte = {0, 1, 2}
  Zero = 0
  Capacity = 3
INVARIANT TypeOK
INVARIANT ShimFits
INVARIANT FirstInFirstOut
PROPERTY TransferIsOneStep
