SPECIFICATION TicksSpec
CONSTANTS
  Width = 8
  Rate = 3
  Ms = 3
  Us = 6
  Alarms = {}
  Intervals = {1}
  Times = {}
  Delay = 1
PROPERTY SettleEnds
