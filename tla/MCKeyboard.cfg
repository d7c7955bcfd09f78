CONSTANTS
  USB_NAK_LIMIT = 2
  USB_RETRY_LIMIT = 2
  Reports = 3
  Others <- MCOthers
  KeySets <- MCKeySets
SPECIFICATION KeyboardSpec
INVARIANTS
  AutoTyped
  ReportsInOrder
PROPERTIES
  KeysArrive
