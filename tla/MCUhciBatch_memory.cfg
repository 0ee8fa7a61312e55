\* Interrupt and bulk OUT requests of every size, zero included, with the
\* allocation of the uhci_batch_t able to fail.
CONSTANTS
  MaxPacket <- MCMaxPacket
  SetupSize <- MCSetupSize
  DataSizes = {0, 1, 3}
  ControlSizes <- MCControlSizes
  Ops = {"interrupt_out", "bulk_out"}
  AllocFailures = {"data"}
  ShortPackets = FALSE
  MaxBatches = 1
SPECIFICATION Spec
INVARIANT MemorySafe
