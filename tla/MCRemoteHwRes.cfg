\* Drivers filling in any subset of hw_res_ops_t, a client making three
\* calls, resource lists of one entry.
CONSTANTS
    OpsTables = {{}, {"get_resource_list", "enable_interrupt"},
                 {"dma_channel_setup", "dma_channel_remain"},
                 {"dma_channel_setup"}}
    Counts = {1}
    MaxCalls = 3
SPECIFICATION Spec
PROPERTY EveryCallAnswered
CHECK_DEADLOCK FALSE
