SPECIFICATION I2cSpec
CONSTANTS
  Depth = 4
  TxSizes = {2}
  RxSizes = {2}
  Tries = 2
  Ints = {FALSE}
  Shared = {TRUE}
  TenBit = {FALSE}
INVARIANT I2cOneBuffer
