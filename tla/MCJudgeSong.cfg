SPECIFICATION SongSpec
CONSTANTS
  Tracks <- MCTracks
  KeySets <- MCKeySets
  MaxAddr = 255
  Chart <- SongChart
  First <- SongFirst
  Last <- SongLast
  MissWindow = 26
  GoodWindow = 22
  PerfectWindow = 18
  AutoLead = 8
  FlashTime = 30
  HoldTime = 7
  EndTime = 5669
  DoneTime = 5680
  ScoreWrap = 1048576
  LoadFrames = 150
INVARIANTS AutoPlaysPerfectly
PROPERTIES SongEnds
