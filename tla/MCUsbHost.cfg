CONSTANTS
  USB_NUMDEVICES = 3
  NoDevice = NoDevice
  USB_NAK_LIMIT = 2
  USB_RETRY_LIMIT = 2
  Devices <- MCDevices
  Bytes <- MCBytes
  SetupBytes <- MCSetupBytes
  MaxRead = 2
SPECIFICATION HostSpec
INVARIANTS
  DeviceTable
  WholeAnswers
  RunningIsConfigured
  GoodDevicesRun
PROPERTIES
  SpiIsRegisterFile
  HostGoesOn
