SPECIFICATION Spec
CONSTANTS
  Tracks <- MCTracks
  MaxAddr = 5
  KeySets <- MCKeySets
  Chart <- MCChart
  First <- MCFirst
  Last <- MCLast
  MissWindow = 4
  GoodWindow = 3
  PerfectWindow = 2
  AutoLead = 2
  FlashTime = 1
  HoldTime = 2
  EndTime = 11
  DoneTime = 13
  ScoreWrap = 16384
  LoadFrames = 4
INVARIANTS NoNotePassed SongStartsAtFirst ComboHonest ScoreEarned
