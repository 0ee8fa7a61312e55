\* Interrupt and bulk IN requests, short packets allowed: batch_bulk_in
\* reads the toggle before it sets the direction, and a short packet
\* leaves the device keeper with the toggle predicted for the whole chain.
CONSTANTS
  MaxPacket <- MCMaxPacket
  SetupSize <- MCSetupSize
  DataSizes <- MCDataSizes
  ControlSizes <- MCControlSizes
  Ops = {"interrupt_in", "bulk_in"}
  AllocFailures = {}
  ShortPackets = TRUE
  MaxBatches = 2
SPECIFICATION Spec
INVARIANT ToggleSync
