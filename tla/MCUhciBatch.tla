----------------------------- MODULE MCUhciBatch -----------------------------
(***************************************************************************)
(* Model-checking instances of UhciBatch.  Sizes are in bytes with a max   *)
(* packet size of 2: a 3-byte request takes two TDs (2 + 1), so every      *)
(* multi-TD case (toggle flips, a failing or short TD that is not the      *)
(* last, a partial byte count) happens; a control request of 0 bytes has   *)
(* no data stage, one of 3 bytes has two data TDs.                         *)
(***************************************************************************)
EXTENDS UhciBatch

MCMaxPacket == 2
MCSetupSize == 8
MCDataSizes == {1, 3}
MCControlSizes == {0, 3}

(* Every allocation of batch_get but the unchecked one of uhci_batch_t.    *)
MCCheckedAllocs == {"instance", "tds", "qh", "transport", "setup"}

(* Requests whose prepare function sets instance->direction before         *)
(* batch_data reads the toggle.                                            *)
MCDirectedOps == AllOps \ {"bulk_in"}

=============================================================================
