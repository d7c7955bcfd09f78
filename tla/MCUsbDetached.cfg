CONSTANTS
  USB_NUMDEVICES = 3
  NoDevice = NoDevice
SPECIFICATION Spec
INVARIANT DetachedIsEmpty
CHECK_DEADLOCK TRUE
