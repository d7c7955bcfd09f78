SPECIFICATION FairSpec
CONSTANTS
  BkLast = 2
  SpriteLast = 1
  BodyLast = 2
  NoteLast = 1
  DigitLast = 1
  ScoreDigits = 1
  ComboDigits = 0
  XPause = 8
  XDrain = 14
  XLast = 21
  YShown = 1
  YNew = 11
  YLast = 12
  LbLast = 1
  SplashEnd = 1
  InitWords = 1
  FillWords <- MCFillWords
  SdWords = 1
  MemLast = 1
  MaxLatency = 2
INVARIANTS
  BusHeld
  LineReady
  WritesBehindTheScreen
  AudioFedEachFrame
PROPERTIES
  DoubleBuffered
  FramesGoOn
  AudioStops
