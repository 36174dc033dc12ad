SPECIFICATION Spec
CONSTANTS
  f1 = f1
  f2 = f2
  f3 = f3
  f4 = f4
  Flows <- MCFlows
  ProtoOf <- MCProto
  PortOf <- MCPort
  AddrOf <- MCAddr
  VolumeOf <- MCVolume
  Drives <- MCDrives
  DeviceOf <- MCDevice
  Begins <- MCBegins
  DriverHeader = 15
  ClientHeader = 12
  RecordLength = 1120
  Zero = Zero
INVARIANT DeliveredIsDispatched
