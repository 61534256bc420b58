SPECIFICATION SetupSpec
CONSTANTS
  NoEndpoint = NoEndpoint
  NoInterface = NoInterface
  NoConfiguration = NoConfiguration
  Devices <- MCDevices
  Options <- MCOptions
  Custom <- MCCustom
  Anything = Anything
  Decimal = {"10", "50", "9999", "12345"}
  Hexadecimal = {"0001"}
  Gadgets = {"dummy_udc", "sw_usb_udc", "new_udc"}
  Marks <- MCMarks
  MaxInjected = 1
INVARIANTS RegularDevicesWork ModelDefined DescriptorsFaithful EndpointsMatch WiredAsMeant
CHECK_DEADLOCK FALSE
