\* Every request kind, short packets, every checked allocation failing:
\* memory, byte accounting, hardware handoff, and that the engine
\* implements the abstract UsbTransfer specification.
CONSTANTS
  MaxPacket <- MCMaxPacket
  SetupSize <- MCSetupSize
  DataSizes <- MCDataSizes
  ControlSizes <- MCControlSizes
  Ops <- AllOps
  AllocFailures <- MCCheckedAllocs
  ShortPackets = TRUE
  MaxBatches = 2
SPECIFICATION Spec
INVARIANT MemorySafe
INVARIANT Handoff
INVARIANT ReportedSize
PROPERTY ImplementsUsbTransfer
