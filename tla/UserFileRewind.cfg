SPECIFICATION Spec
CONSTANTS
  Descriptors = {d1, d2}
  Modes = {"ro", "wo", "rw"}
  a = a
  Zero = zero
  Bytes = {a, zero}
  BlockSize = 2
  MaxBlocks = 2
  Buffers <- MCBuffers
  MaxRead = 3
  MaxIndex = 2
PROPERTY CallsGoForwards
