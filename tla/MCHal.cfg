CONSTANTS
  Width = 8
  Rate = 3
  Ms = 3
  Us = 6
  Alarms = {a1, a2}
  Intervals = {1, 6}
  alt_alarm_list = alt_alarm_list
  Entries = {e1, e2, e3}
  Times = {7}
  Delay = 1
  Devices = {"/dev/null", "uart"}
  FileSystems = {"fs"}
  Console = "uart"
  MaxFd = 5
  StatusFlags = {"NONBLOCK"}
  Modes = {{"RDWR"}}
  Functions <- MCFunctions
  BufLen = 3
  Fifo = 1
  MaxCount = 2
  Default = 2
  Timeouts = {2}
  IntMax = 4
  Sessions = {{}, {"write"}, {"read", "typing"}}
  Length = 8
  PAGE = 4
  ALIGN = 2
  Sectors <- MCSectors
  Unavailable <- MCUnavailable
  Patterns <- MCPatterns
  Lengths = {3}
  FlashName = "flash"
  FlashNames = {"flash", "csr"}
  Depth = 2
  TxSizes = {1}
  RxSizes = {2}
  Tries = 2
  Ints = {FALSE, TRUE}
  Shared = {FALSE}
  TenBit = {FALSE, TRUE}
  Speeds = {0, 1, 382, 100000, 100001, 400000, 400001}
  Attempts = 3
  Found = {FALSE, TRUE}
  MaxRequests = 1
  MaxCalls = 2
  MaxTraps = 1
  Rodata = 2
  Rwdata = 2
  Bss = 1
  Increments = {0, 5, 16000}
  MaxBlocks = 3
SPECIFICATION HalSpec
INVARIANTS
  NoFdLost
  ConsoleOrderly
  I2cOrderly
  InterruptsOrderly
  AlarmsServed
  CodecConfigured
  MemoryKept
PROPERTIES
  ClockKept
  LockKept
  WritesLand
  HalCallsEnd
