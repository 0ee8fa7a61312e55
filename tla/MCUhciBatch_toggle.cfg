\* Three successive requests on endpoints without short packets, with
\* failing TDs: the device keeper stays in step with the endpoint.
CONSTANTS
  MaxPacket <- MCMaxPacket
  SetupSize <- MCSetupSize
  DataSizes <- MCDataSizes
  ControlSizes <- MCControlSizes
  Ops <- MCDirectedOps
  AllocFailures = {}
  ShortPackets = FALSE
  MaxBatches = 3
SPECIFICATION Spec
INVARIANT TypeOK
INVARIANT ToggleSync
