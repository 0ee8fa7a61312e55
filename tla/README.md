# TLA+ models of the HelenOS sample

This directory holds TLA+ models of the sampled HelenOS sources under
`src/`, the TLC configurations that check them, and `PROJECT.json`, which
lists every component, run, mutant, source mapping, finding and hazard.

## 1. Inventory

### Components

| Component | Source | State it keeps | Operations | Interacts with |
|---|---|---|---|---|
| UHCI transfer batch engine (the core) | `uspace/drv/uhci-hcd/batch.c` | per batch: type, buffer/setup sizes, direction, TD array (`data->tds`, `packets`), queue head, DMA buffers, `transfered_size`, `error`, `next_step` | `batch_get`, `batch_control_write/read`, `batch_interrupt_in/out`, `batch_bulk_in/out` (via `batch_data`, `batch_control`), `batch_is_complete`, `batch_qh`, `batch_call_in/out_and_dispose`, `batch_dispose` | host controller (shared TD memory), toggle store (calls), DMA allocator (calls), class driver (callback) |
| UHCI host controller, schedule, transfer list | not in `src/` | queue-head element pointer; TD status/actlen written by hardware | execute a TD per frame; the poller calls `batch_is_complete` and unlinks complete batches | batch engine, through TD memory and polling |
| Toggle store (`usb_device_keeper`) | not in `src/` | toggle per (target, direction) | get / set toggle | batch engine |
| DMA allocator (`malloc32`/`free32`) | not in `src/` | allocated blocks | allocate (may fail), free (NULL safe) | batch engine |
| Output service | `uspace/srv/hid/output/output.c` | list of output devices (each with a back buffer, `top_row`, attributes), list of shared front buffers | yield, claim, get dimensions/caps, frontbuf create/destroy, cursor update, set style/color, update, damage | clients over IPC, shared front-buffer memory, device ops |
| IP link layer | `uspace/srv/net/inetsrv/inet_link.c` | `inet_link_list`, `inet_discovery_lock`, static `first` | category-change discovery, link open (six failure points), receive, send datagram (fragment loop), lookup | location service callbacks, iplink sessions, address objects |
| Kernel alignment macros | `kernel/generic/include/align.h` | none | `ALIGN_DOWN`, `ALIGN_UP`, `IS_ALIGNED` | every caller |
| Task dump tool | `uspace/app/taskdump/taskdump.c` | phone, task id, symbol table | parse args, connect, two-phase reads of threads/areas/name, stack walk | kernel udebug interface |
| Remote hw-resource interface | `uspace/lib/drv/generic/remote_hw_res.c` | none of its own; the handler of `GET_RESOURCE_LIST` holds the list across the client's data read | four IPC method handlers | client library (outside the sample), driver's `hw_res_ops_t` |
| Display input path | `uspace/srv/hid/display/input.c` | `display->input` | open/close, forward key/move/button events | input service, display |
| DHCP front end | `uspace/srv/net/dhcp/main.c` | none | init, dispatch link add/remove/discover | dhcpsrv (not in the sample) |

### What makes the core hard

The batch engine shares memory with hardware that runs on its own: the
controller executes TDs while the poller reads them; a TD ends full, short
(IN only) or failing, after which the controller halts on it. Each batch
carries USB data-toggle state across requests through the toggle store: the
toggle is read when the chain is built, a predicted final toggle is stored
before the hardware runs, and only an error rewrites it. `batch_get` has six
allocations, each with its own failure path through a macro. All of this is
hard to reach with unit tests: short packets at a given TD, a failure on a
given TD of a given request followed by a later request on the same
endpoint, a poll that lands between two TDs, an allocation failing at a given
point.

### Properties that make each component correct

* Batch engine: TD writes stay within the array the batch allocated; the
  keeper's toggle equals the endpoint's expected toggle between requests;
  a batch is complete only when the controller no longer owns an active TD
  of it; the reported byte count equals the payload moved; every batch is
  answered and freed; a failed `batch_get` disposes its half-built batch
  without freeing a pointer it never set.
* Output service: after `srv_update`, every output device shows every cell
  that was dirty; damage copies stay inside both buffers; a destroyed front
  buffer is never used.
* IP link layer: a service appears in `inet_link_list` at most once; a
  lookup never returns a link whose open is in progress; every service that
  appears is eventually opened; only the first link appended to the list
  gets the loopback addresses. (A link in the list need not have its
  addresses: `inet_link_open` says "XXX Roll back" where it does not undo.)
* Alignment: `ALIGN_UP(s,a)` is the least multiple of `a` not below `s`
  (within the type's width), `ALIGN_DOWN` the greatest not above it.
* Task dump: whatever its arguments and whatever the calls it makes
  return and whatever the target's stacks hold, the tool ends, and ends by
  returning or `exit()`, never by a fault or by walking a cyclic chain of
  frame pointers forever.
* Hardware resource interface: every call a client makes is eventually
  answered.

The full list of hazards, each at its source line and with the properties
that cover it, is in `PROJECT.json` under `hazards`.

## 2. Plan

1. **`UhciBatch` + `MCUhciBatch`** (done): the batch engine with the
   controller, poller, toggle store and allocator as its environment.
2. **`UsbTransfer`** (done): the abstract promise of the engine to a class
   driver (one request answered by exactly one callback of the requested
   direction with a byte count not above the request, full unless short or
   failed), and `UhciBatch` shown to refine it via `INSTANCE ... WITH` and a
   refinement mapping checked as a `PROPERTY`.
3. **Pipelined requests** in `UhciBatch`: two batches of one endpoint in
   flight at once, to check what the build-time toggle prediction does when
   the first fails; and a property on control stages (status stage executed
   before a successful control read is reported).
4. **`OutputServer`** (done): output devices, front buffers with dirty flags and
   `top_row`, the IPC handlers as actions; properties on back/front buffer
   consistency across several devices, and damage bounds.
5. **`InetLink`** (done): discovery under the mutex with category-change callbacks
   arriving concurrently, `inet_link_open` failure points, fragment loop.
6. **`Align`** (done): the macros on w-bit integers (`Bitwise`) checked against a
   reference definition over all bounded inputs.
7. **`TaskDump`** (done): the whole program with every call failing.
8. **`RemoteHwRes`** (done): the connection fibril of a driver function
   taking the calls of `remote_hw_res.c` one at a time, drivers filling in
   any part of `hw_res_ops_t`, the client as environment.
9. **`DhcpMain`, `DisplayInput`, `MCIpcServices`** (done): the DHCP front
   end step by step and the display input path, composed by instantiating
   both in one run.

## 3. Modules

### `UhciBatch.tla` — the batch engine

State (`VARIABLES`) mirrors the code: `op`, `buffer_size`, `setup_size`,
`direction`, `packets`, `tds` (function `0..packets-1 -> TD`, a TD being the
fields the engine and the controller use: active, status, toggle, PID,
maxlen, actlen, IOC, next link), `next_step`, `transfered_size`, `error`.
Environment state: `store` (the device keeper, keyed by endpoint and
direction), `hwPtr` (queue-head element pointer), `allocated` (live blocks
of the current batch), `memFault` (a store outside allocated memory or a
NULL dereference happened). Ghosts: `devToggle` (toggle the data endpoint
expects next), `moved` (payload bytes the controller moved), `result`
(arguments of the last callback), `nbatches`.

Actions and the code they model:

| Action / operator | Code |
|---|---|
| `BatchGet` (`BatchGetOk`, `BatchGetFail`, `Packets`, `AllocOrder`) | `batch_get`, including `CHECK_NULL_DISPOSE_RETURN` and its wrong check at line 114 |
| `batch_control_write`, `batch_control_read`, `batch_interrupt_in/out`, `batch_bulk_in/out` | the six prepare functions, in their statement order |
| `BatchData` (`DataLoop`) | `batch_data`: toggle read, chunk loop, IOC on `tds[packet-1]`, toggle store |
| `BatchControl` (`ControlLoop`) | `batch_control`: setup, data and status stages |
| `HcExecuteTd` | the controller (from the spec): one TD per step |
| `Poll` (`BatchIsComplete`, `Walk`) | `batch_is_complete` as called by the transfer list, which unlinks a complete batch |
| `batch_call_in_and_dispose`, `batch_call_out_and_dispose` (`Dispose`) | callback then `batch_dispose` |

`Walk` is the loop of `batch_is_complete` as a recursive operator;
`DataLoop`/`ControlLoop` are the packetization loops. A store to a TD index
outside the array sets `memFault` instead of being dropped silently.

Abstractions: bytes are counts, the buffer contents are not modelled (the
`memcpy` into the transport buffer has no observable effect on the
properties); the target of a control request is the default control pipe
`ep0`, of a data request `ep1`; the direction `usb_transfer_batch_init`
leaves (its code is not in the sample) is any of IN, OUT, BOTH. A failing TD
is one the endpoint did not accept (stall or retries exhausted), so its
toggle is not advanced; a packet whose toggle the endpoint does not expect
is dropped as a retransmission.

`MCUhciBatch.tla` fixes the constants: max packet 2 bytes, data sizes
{1, 3}, control sizes {0, 3}, setup 8 bytes. Size 3 needs two TDs (2 + 1),
so there is always a TD after the first that can fail, be short, or be still
active when polled; control size 0 gives the two-TD chain without data stage.

### Properties

* `TypeOK`.
* `MemorySafe`: no TD store outside `data->tds`, no NULL dereference, and
  no `free32` of a field never allocated when `batch_dispose` cleans up a
  half-built batch (`Unset`: `bzero(data)` and `usb_transfer_batch_init`
  leave the fields NULL until their allocation stores into them).
* `ToggleSync`: between requests the keeper holds the endpoint's expected
  toggle for both directions of the data endpoint.
* `Handoff`: a batch reaches `next_step` (and is freed) only when the
  controller has no active TD of it at the queue-head element.
* `ReportedSize`: at completion `transfered_size` equals the payload bytes
  moved (setup excluded), whatever the polls before.
* `ImplementsUsbTransfer`: `UhciBatch` implements `UsbTransfer` (below),
  liveness included: every accepted request is eventually answered.

### `UsbTransfer.tla` — what the engine promises a class driver

Two variables: `request` (the accepted request, `[op, size]`) and `answer`
(the last callback, `[kind, error, size]`). `Accept` takes a request;
`Answer` answers it once, through the callback of its direction (`Kind`),
with any error code and a byte count at most the request size, equal to it
for a successful OUT transfer; `WF_vars(Answer)` says every accepted request
is answered. `UhciBatch` instantiates it as `Transfer` with the refinement
mapping `request <- [op, buffer_size]` while a batch exists (`pc` built,
queued or finished) and `answer <- result`: `BatchGetOk` is `Accept`, the
callback of `batch_call_*_and_dispose` is `Answer`, every other step (a
failed `batch_get`, preparation, the controller, polls) is a stutter.

### `Align.tla` — the alignment macros

`ALIGN_DOWN`, `ALIGN_UP` and `IS_ALIGNED` of `align.h` (the C branch) are
operators on an unsigned type of `Width` bits whose arithmetic wraps modulo
`2^Width`, with `~` as the complement within the width and `(typeof(s))(a)`
as a reduction modulo `2^Width`; `&` is the `Bitwise` module's. The state is
the pair `(s, a)` a caller passes, every pair an initial state, and `Call`
passes a new pair. `Floor` and `Ceiling` are the reference definitions (the
greatest multiple of `a` not above `s`, the least not below it).
`Align_exact.cfg` uses 6 bits: all 64 values and the 6 alignments, so every
wrap case (`s` within `a - 1` of 63) is among the 384 states. Properties:
`AlignDownIsFloor`, `AlignUpIsCeiling` (where a ceiling fits in the type),
`IsAlignedExact` (exact even where its `ALIGN_UP` wraps). Not modelled: the
`__ASSEMBLER__` variants and types narrower than `int`, whose arithmetic is
promoted and does not wrap.

### `OutputServer.tla` — the output service

State: `outdevs` (the device list, in registration order), `dev[d]` (the
device's `top_row`, back buffer, cursor and attribute type), `frontbufs`
(live handles), `fb[h]` (the shared grid: `cols`, `rows`, `top_row`, one
glyph and one dirty flag per cell, cursor), `reply` (the last answer),
`clientDims` (what the client got from `OUTPUT_GET_DIMENSIONS`), `phase`
(before and after `async_manager`) and `memFault`. Grids are flat arrays
indexed as `chargrid_charfield_at` does (`FIdx`, `BIdx`): rows wrap modulo
`rows`, columns are not checked, so a column past the grid lands in the next
row or past the array's end, which sets `memFault`.

Each handler of `client_connection` is one action, named after its C
function (`srv_yield` ... `srv_damage`); a handle argument is any address,
live or not, so `resolve_frontbuf`'s `ENOENT` path (`Unresolved`) is taken.
`CopyLoop` is the cell loop of `srv_update` (dirty cells only),
`srv_update_scroll` and `srv_damage` (every cell), visited in the code's
row-major order (`RowMajor`), because a column overrun makes two (x, y)
visits meet one cell and the first clears the flag the second reads.
`ForEachDev` walks `outdevs` in order. `outdev_register` leaves `top_row`
uninitialised: any value of `TopRows`.

Environment (not in the sample, marked spec_modelled): the chargrid
indexing, and the console client, which shares one grid at a time sized
from `OUTPUT_GET_DIMENSIONS` (a fresh grid has every cell dirty) and writes
cells (`PutChar`, dirty), scrolls (`Newline`: `top_row` advances, the new
last row is cleared and dirty) and moves the cursor. Handlers are atomic:
a connection fibril runs a handler to its answer, and the client's writes
come between calls.

`MCOutputServer` uses grids of one column and two rows (a newline scrolls,
a second column overruns), two glyphs, two handle addresses (a destroyed
address is reused), `top_row` garbage 0 or 1. Properties:

* `MemorySafe`: no handler indexes outside a grid's array (checked only by
  `output_damage`: with one device and in-bounds rectangles every index is
  in range by construction, so `output_single` does not check it).
* `CleanCellsShown`: every clean cell of a live grid is shown by every
  device whose `top_row` equals the grid's, the invariant the dirty flags
  and the scroll redraw are meant to keep.

### `InetLink.tla` — IP link discovery

State: `registered` (the iplink services the location service lists),
`cbOn` (the category change callback is registered), `pending` (changes not
yet delivered to the callback fibril), `lock` (holder of
`inet_discovery_lock`), `sc[p]` for the two fibrils that run
`inet_link_check_new` (`"main"` from `inet_link_discovery_start`, `"cb"` from
`inet_link_cat_change_cb`): program counter, the `svcs` snapshot and the loop
index; `links` (`inet_link_list` in order: service, state of the IPv4 and
IPv6 address objects, whether the static `first` gave it the loopback
addresses), `first`, `lookup` and `sent` (the last results of
`inet_link_get_by_id` and `inet_link_send_dgram`). Ghosts: `attempted`
(services `inet_link_open` was called for) and `missed` (services not yet
known when a scan failed).

Steps: `Lock`, `GetSvcs` (both loc calls; a failure unlocks and returns; the
order of `svcs` is any permutation), `Next_i` (the `already_known` walk, or
the unlock after the last service), `LinkOpen` (the IPC calls up to
`iplink_get_mtu`, `list_append`, `first`, both `inet_addrobj_add`; each
failure returns as the code does, without undoing the append) and
`IplinkAddrAdd` (the two `iplink_addr_add` IPCs, which block with the lock
held). The location service (`ServiceAppear`) is the environment.
Fairness: weak fairness on each fibril's steps and on the callback fibril
taking a delivered change, since a runnable fibril runs and loc answers its
IPC; none on the location service or the clients.

`MCInetLink.cfg`: two services, which may appear before, during or after
the initial scan, every call able to fail, a 3-byte datagram over 2-byte
fragments. Properties: `NoDuplicateLinks`, `LookupNotConfiguring`,
`LoopbackOnFirstLink` (the static `first` gives the loopback pair to the
first link appended by either scan and to no other),
`EveryServiceTried` (liveness: a service that appears once the callback is
registered is tried unless a scan that listed it failed).

### `TaskDump.tla` — the task dump tool

One sequential program: `pc` is the step of `main`, each step one function
of `taskdump.c` (`ParseArgs`, `connect_task`, `get_app_task_name`,
`autoload_syms`, `threads_dump`, `thread_dump`, one `WalkFrame` per
iteration of the frame-pointer walk, `areas_dump`), each failure of a
udebug, `malloc`, `asprintf`, `symtab_load` or `elf_core_save` call a
branch. `parse_args` is a recursive operator over the argument tokens. The
target (thread count, name length, saved frame pointers `mem`, start frames)
is an input fixed at `Init`: `udebug_begin` holds it, as the asserts of the
two-phase reads assume. `crash` records a fault (NULL dereference, failed
assert). `MCTaskDump` gives every argv of up to three tokens out of `-t`,
`-c`, an unknown option, `7`, `0` and a non-number. `Spec` has weak
fairness on `Next`: the tool is one sequential program that takes its
next step while it has one, so `CleanExit` (it reaches `exit` with no
fault) also asks that the frame walk ends.

### `RemoteHwRes.tla` — the hardware resource interface

The server side of one client connection. `queue` holds the calls sent and
not yet received (`[id, m, len]`), `answers[id]` the answer each got
(`async_answer_0/1`), `srv` whether the connection fibril takes the next
call (`"get"`) or is inside `remote_hw_res_get_resource_list` waiting in
`async_data_read_receive` (`"read"`). `ops` is the set of operations the
driver's `hw_res_ops_t` fills in, chosen at `Init` from `OpsTables`. One
action per handler, its guard the dispatch on the method
(`remote_hw_res_iface_ops`), its branches the NULL test and the
operation's results; `DataReadReceive` is the second half of
`get_resource_list`, which takes the next call, finalizes it when it is a
data read and otherwise returns leaving it unanswered. `nullCall` records a
call through a NULL operation pointer, after which nothing runs. The client
(`ClientCall`, `ClientAnswered`, `ClientRead`, modelled from the
interface's contract since the client library is not in the sample) sends
any method, waits for its answer, and after a counted `get_resource_list`
answer sends the data read of that many entries or gives up. `Server` is a
step of the connection fibril (any handler), enabled only while no NULL
call has happened; `Spec` has weak fairness on it, because the async
framework runs the fibril whenever a call waits for it. `EveryCallAnswered`
says every call sent is eventually answered.

### `DhcpMain.tla` — the DHCP service front end

`pc` is the step of `main` (`main_log_init`, `dhcp_init` setting the
fallback port handler, `RegisterServer`, `RegisterService` with the
`loc_server_unregister` rollback). `serviceReg` makes the service reachable:
`Connect(c)` is a client connecting, accepted by a `dhcp_client_conn`
fibril when `handlerSet`, refused otherwise. `queue[c]` holds the calls sent
on connection `c`; each fibril step (`dhcp_client_conn(c)`) takes the head
call and runs the case of the switch (`HangUp`, `dhcp_link_add_srv`,
`dhcp_link_remove_srv`, `dhcp_discover_srv`, `UnknownMethod`), recording
its answer in `answers`.

### `DisplayInput.tla` — the display server's input path

`ds_input_open` is one action, since nothing else touches its state while
it runs: `loc_service_get_id` or `loc_service_connect` failing returns,
and `input_open` failing hangs up the session first. `sess` is that
session and `input` is `display->input`. `ds_input_close` closes it.
`InputEvent` is the input service delivering an event to the active input.
Its callback (`Post`) appends what it posts to `posted`: the key, move and
button callbacks post a keyboard or pointer event, and the active,
deactive and absolute-move callbacks post nothing.

### `MCIpcServices.tla`

It instantiates both modules (`Dhcp == INSTANCE DhcpMain`, `Display ==
INSTANCE DisplayInput`). The two are separate tasks, so a step of one
leaves the other unchanged.

### Fairness

Weak fairness on the prepare step (the iface handler calls it right after
`batch_get`), on `HcExecuteTd` (the controller walks the schedule every
frame), on `Poll` (the transfer list is polled on a timer / interrupt) and
on the callback (the poller calls `next_step` for every unlinked batch). No
fairness on `BatchGet`: class drivers need not issue requests.
`DhcpMain` has weak fairness on main's steps (it runs to `async_manager`)
and on each connection's fibril step, because the async framework runs a
fibril whenever a call is waiting for it. Clients need no fairness.
`TaskDump` has weak fairness on `Next` (a sequential program),
`RemoteHwRes` on `Server` (the connection fibril); neither gives fairness
to a step the code does not take by itself.

## 4. Runs

| Run | Expect | What it shows |
|---|---|---|
| `toggle` | pass | Three successive requests of the five kinds whose prepare function sets the direction first, TDs failing anywhere, no short packets: `ToggleSync` and `TypeOK` hold. |
| `lifecycle` | pass | Two requests of all six kinds, short packets, every checked allocation failing: `MemorySafe`, `Handoff`, `ReportedSize` hold, and `UhciBatch` implements `UsbTransfer` (`ImplementsUsbTransfer`). |
| `align` | pass | Every 6-bit value and alignment: `AlignDownIsFloor`, `AlignUpIsCeiling`, `IsAlignedExact` hold. |
| `output_single` | pass | One output device; the client writes, scrolls, moves the cursor, updates, damages in-bounds rectangles, creates and destroys its grid (allocations failing too): `CleanCellsShown` holds. |
| `output_two_devs` | violation | Two equal devices: `srv_update` clears a cell's dirty flag while serving the first device, the second never copies the cell. |
| `output_damage` | violation | `srv_damage` with a rectangle past the grid's column writes past the device's back buffer and the shared grid. |
| `inet_discovery` | pass | Two services appearing around the initial scan, every call failing: `NoDuplicateLinks`, `LookupNotConfiguring`, `LoopbackOnFirstLink`, `EveryServiceTried` hold. |
| `taskdump_crash` | violation | `CleanExit` fails: `taskdump -t` (no task id) passes `argv[argc] = NULL` to `strtol`. The same property also fails on a failed task-name read (`assert(app_name != NULL)`) and on a stack whose saved frame pointer points at itself (the walk never ends). |
| `in_toggle` | violation | Interrupt and bulk IN requests with short packets: an interrupt IN whose first TD is short leaves the keeper with the toggle predicted for the whole chain, while the endpoint expects the one after the short TD. (Restricted to bulk IN without short packets, the same invariant fails because `batch_bulk_in` keys the toggle with the direction left by init, not IN; that bug is listed as a hazard.) |
| `batch_memory` | violation | Interrupt and bulk OUT requests of 0, 1 and 3 bytes with the private data allocation able to fail: a failing `malloc(uhci_batch_t)` is written through by `bzero`. With no allocation failing the same configuration reaches the zero-length case (no TD, IOC set on `tds[-1]`). |
| `ipc_services` | pass | `MCIpcServices`: the DHCP front end with two clients making three calls and the display input path with two events, every registration, connection, `log_init` and `input_open` able to fail: `EveryCallAnswered` and `NoSessionLeak` hold. |
| `hw_res_remain` | violation | Drivers filling in any part of `hw_res_ops_t`, a client calling any method: `EveryCallAnswered` fails: a driver with `dma_channel_setup` but no `dma_channel_remain` is made to call NULL and the call is never answered. (A call that arrives after an abandoned data read is also taken and never answered.) |

The passing runs exclude exactly the inputs whose violations the other runs
report: `toggle` leaves out `bulk_in` and short packets, the passing runs
leave out zero-length data requests and a failing `data` allocation, and
the output runs leave out devices of different widths, on which `srv_update`
reads past the grid (a hazard, `output.c:333`, that `MemorySafe` catches).
Each property of a passing run has a mutant in `PROJECT.json`, a plausible
slip in the code (TD count rounded down, a mask without `- 1`, a scroll that does not redraw, no `td_is_active` check, no reset
of `transfered_size`, inverted resync toggle, `batch_get` without `bzero(data)`, a control
write answered through the IN callback, setup subtracted on the first TD) under which TLC
reports the property violated; the `InetLink` ones are a list walk that
stops at the head, a lookup without the lock and a scan loop one service
short, and a `first` never cleared; the `ipc_services` ones are a hangup answered by returning without
`async_answer_0`, and an `input_open` failure returning without
`async_hangup`.

Findings (see `PROJECT.json`): two violation runs are bugs of `batch.c`
at lines 345 and 114 (the toggle direction of `batch_bulk_in` at line 274
and the zero-length IOC write at line 344 are listed as hazards under the
same invariants: their runs report the shorter path first), two are bugs of `output.c` at lines 351
and 390, one is a bug of `remote_hw_res.c` at line 127 (the `remain`
handler tests `dma_channel_setup` for NULL and calls `dma_channel_remain`),
one is a bug of `taskdump.c` at line 158 (the same run's property
also catches the `assert(app_name != NULL)` reached when reading the task
name fails). `ALIGN_UP` also wraps to 0 for arguments within `a - 1` of the top
of the type, which its comment does not mention; `AlignUpIsCeiling` checks
it everywhere a ceiling exists and `IsAlignedExact` that `IS_ALIGNED` stays
right at the wrap.

## 5. Not modelled (yet)

* `inet_iplink_recv`: decodes a PDU and passes it to code outside the
  sample; it changes no state of `inet_link.c`.
* `dhcpsrv_*` (the DHCP client state machine) and the display's event
  routing behind `ds_display_post_*`: outside the sample; their results
  are choices.
* Whether `input_close` waits for a running input callback: the library
  is outside the sample, and the model ends the callbacks at close.
* The over-read of `async_data_read_finalize` in `get_resource_list`
  (it sends the client's length, not the list's): the model's client asks
  for the answered count, as the client library does.
* Hardware descriptor bit layout, DMA addresses, frame timing, error
  counters and isochronous transfers: below the level the properties need.
