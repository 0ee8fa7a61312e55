------------------------------ MODULE UhciBatch ------------------------------
(***************************************************************************)
(* The UHCI transfer-batch engine of uspace/drv/uhci-hcd/batch.c, with the *)
(* parts of its environment it interacts with:                             *)
(*                                                                         *)
(*  - the requester (the usbhc iface handler), which calls batch_get, one  *)
(*    of the six batch_<op> prepare functions and hands the queue head to  *)
(*    the schedule;                                                        *)
(*  - the host controller, which walks the TD chain from the queue head    *)
(*    element pointer, one TD per step, and writes back status/actlen;     *)
(*  - the poller (transfer list), which calls batch_is_complete, unlinks a *)
(*    complete batch and then calls its next_step (call_*_and_dispose);    *)
(*  - the toggle store (usb_device_keeper) and, as a ghost, the toggle the *)
(*    data endpoint of the device expects next.                            *)
(*                                                                         *)
(* One request is in flight at a time (the requester serialises them); a   *)
(* behaviour is a series of up to MaxBatches requests, so that the toggle  *)
(* one batch leaves behind is the one the next batch starts from.          *)
(*                                                                         *)
(* Data is abstracted to byte counts: a TD is a record of the fields the   *)
(* engine and the controller read and write.                               *)
(***************************************************************************)
EXTENDS Integers, FiniteSets, Sequences, Functions, TLC

CONSTANTS
  MaxPacket,      \* max_packet_size of the endpoints
  DataSizes,      \* buffer_size of bulk / interrupt requests
  ControlSizes,   \* buffer_size of control requests
  SetupSize,      \* setup_size of control requests (8)
  Ops,            \* prepare functions the requester uses
  AllocFailures,  \* allocations of batch_get that may return NULL
  ShortPackets,   \* TRUE: an IN endpoint may answer with a short packet
  MaxBatches      \* bound on the number of requests

AllOps == {"control_write", "control_read", "interrupt_in", "interrupt_out",
           "bulk_in", "bulk_out"}
AllocSteps == {"instance", "data", "tds", "qh", "transport", "setup"}

ASSUME /\ MaxPacket \in Nat \ {0}
       /\ DataSizes \subseteq Nat /\ ControlSizes \subseteq Nat
       /\ SetupSize \in Nat \ {0}
       /\ Ops \subseteq AllOps /\ Ops # {}
       /\ AllocFailures \subseteq AllocSteps
       /\ ShortPackets \in BOOLEAN
       /\ MaxBatches \in Nat

NULL == -1                          \* a NULL td_t* link
Dirs == {"IN", "OUT", "BOTH"}       \* usb_direction_t
DataDirs == {"IN", "OUT"}
Pids == {"SETUP", "IN", "OUT"}      \* usb_packet_id
Status == {"EOK", "EERR"}           \* td_status(): EOK or a hardware error
(* The default control pipe and a data endpoint of the same device.        *)
Endpoints == {"ep0", "ep1"}

VARIABLES
  pc,               \* none | built | queued | finished | crashed
  op,               \* the prepare function the requester will call
  buffer_size,      \* instance->buffer_size
  setup_size,       \* instance->setup_size
  direction,        \* instance->direction
  packets,          \* data->packets
  tds,              \* data->tds: [0..packets-1 -> TD]
  next_step,        \* instance->next_step: "in" | "out" | "none"
  transfered_size,  \* instance->transfered_size
  error,            \* instance->error
  allocated,        \* memory of the current batch not yet freed
  memFault,         \* a write or read outside allocated memory happened
  store,            \* usb_device_keeper toggles: [Endpoints \X Dirs -> 0..1]
  hwPtr,            \* queue head element pointer (TD index) seen by the HC
  devToggle,        \* ghost: toggle the data endpoint expects, per direction
  moved,            \* ghost: payload bytes the HC moved for this batch
  result,           \* ghost: arguments of the last completion callback
  nbatches          \* requests made so far

vars == <<pc, op, buffer_size, setup_size, direction, packets, tds, next_step,
          transfered_size, error, allocated, memFault, store, hwPtr,
          devToggle, moved, result, nbatches>>

TD == [active: BOOLEAN, status: Status, toggle: 0..1, pid: Pids \cup {"NONE"},
       maxlen: Nat, actlen: Nat, ioc: BOOLEAN, next: Int]

(* A bzero'ed td_t.                                                        *)
ZeroTd == [active |-> FALSE, status |-> "EOK", toggle |-> 0, pid |-> "NONE",
           maxlen |-> 0, actlen |-> 0, ioc |-> FALSE, next |-> NULL]

(* td_init(): an active TD of maxlen bytes with the given toggle and PID.  *)
TdInit(maxlen, toggle, pid, next) ==
  [active |-> TRUE, status |-> "EOK", toggle |-> toggle, pid |-> pid,
   maxlen |-> maxlen, actlen |-> 0, ioc |-> FALSE, next |-> next]

IsControl(o) == o \in {"control_write", "control_read"}
(* instance->target: control requests go to the default control pipe.      *)
Target(o) == IF IsControl(o) THEN "ep0" ELSE "ep1"

-----------------------------------------------------------------------------
(***************************************************************************)
(* batch_get                                                               *)
(***************************************************************************)

(* Mutated variant: the TD count rounded down.                             *)
PacketsFloor(o, size) ==
  size \div MaxPacket + (IF IsControl(o) THEN 2 ELSE 0)

(* Number of TDs: ceil(buffer_size / max_packet_size), +2 for control.     *)
Packets(o, size) ==
  (size + MaxPacket - 1) \div MaxPacket + (IF IsControl(o) THEN 2 ELSE 0)

(* The allocations of batch_get in program order; the buffers are only     *)
(* allocated when their size is non-zero.                                  *)
AllocOrder(size, setup) ==
  <<"instance", "data", "tds", "qh">>
    \o (IF size > 0 THEN <<"transport">> ELSE <<>>)
    \o (IF setup > 0 THEN <<"setup">> ELSE <<>>)

(* batch_dispose(): free32 of tds, qh, setup and transport buffers (NULL   *)
(* safe), then free of data and instance.                                  *)
Dispose(alloc) == alloc \ {"tds", "qh", "setup", "transport", "data", "instance"}

(* The pointer fields batch_dispose frees with free32.                     *)
PtrFields == {"tds", "qh", "transport", "setup"}

(* Mutated variant: batch_get without bzero(data), so data->tds and        *)
(* data->qh hold whatever malloc left there.                               *)
UnsetNoBzero(f) == IF f \in {"tds", "qh"} THEN "garbage" ELSE "NULL"

(* The value of a pointer field before its own allocation stores into it:  *)
(* bzero(data) clears data->tds and data->qh, and usb_transfer_batch_init  *)
(* is given NULL transport and setup buffers.                              *)
Unset(f) == "NULL"

(* batch_get with every allocation succeeding, up to and including         *)
(* qh_set_element_td(qh, tds).                                             *)
BatchGetOk(o, size, setup) ==
  /\ pc' = "built"
  /\ packets' = Packets(o, size)
  /\ tds' = [i \in 0..(Packets(o, size) - 1) |-> ZeroTd]
  /\ allocated' = Range(AllocOrder(size, setup))
  /\ hwPtr' = 0
  /\ UNCHANGED memFault

(* batch_get with allocation number k failing.  CHECK_NULL_DISPOSE_RETURN *)
(* disposes what was allocated so far and returns NULL; but the check     *)
(* after malloc(uhci_batch_t) tests instance instead of data, so a NULL   *)
(* data is dereferenced by bzero().                                        *)
BatchGetFail(steps, k) ==
  IF steps[k] = "data"
  THEN /\ memFault' = TRUE
       /\ pc' = "crashed"
       /\ UNCHANGED allocated
  ELSE LET have == {steps[j] : j \in 1..(k - 1)}
           field == [f \in PtrFields |-> IF f \in have THEN f ELSE Unset(f)]
       IN \* "if (instance)": with no instance nothing is disposed; else
          \* batch_dispose calls free32 on every field, a garbage one too.
          /\ allocated' = Dispose(have)
          /\ memFault' = (k > 1 /\ \E f \in PtrFields : field[f] = "garbage")
          /\ pc' = IF memFault' THEN "crashed" ELSE "none"

BatchGet ==
  /\ pc = "none"
  /\ nbatches < MaxBatches
  /\ \E o \in Ops :
     \E size \in (IF IsControl(o) THEN ControlSizes ELSE DataSizes) :
     \* usb_transfer_batch_init() is given no direction; the value it leaves
     \* in instance->direction is not known from this code.
     \E d \in Dirs :
       LET setup == IF IsControl(o) THEN SetupSize ELSE 0
           steps == AllocOrder(size, setup)
       IN /\ op' = o
          /\ buffer_size' = size
          /\ setup_size' = setup
          /\ direction' = d
          /\ \/ BatchGetOk(o, size, setup)
             \/ \E k \in 1..Len(steps) :
                  /\ steps[k] \in AllocFailures
                  /\ BatchGetFail(steps, k)
                  /\ UNCHANGED <<packets, tds, hwPtr>>
  /\ next_step' = "none"
  /\ transfered_size' = 0
  /\ error' = "EOK"
  /\ moved' = 0
  /\ nbatches' = nbatches + 1
  /\ UNCHANGED <<store, devToggle, result>>

-----------------------------------------------------------------------------
(***************************************************************************)
(* Packetization: batch_data and batch_control                             *)
(***************************************************************************)

(* const size_t packet_size = min(max_packet_size, remain_size)            *)
PacketSize(remain) == IF MaxPacket > remain THEN remain ELSE MaxPacket

(* The loop of batch_data(): from TD `packet` with `remain` bytes left and *)
(* current toggle; returns the TDs it writes (index :> TD), the final      *)
(* packet index and the final toggle.                                      *)
RECURSIVE DataLoop(_, _, _, _, _)
DataLoop(npackets, packet, remain, toggle, pid) ==
  IF remain > 0
  THEN LET ps   == PacketSize(remain)
           nxt  == IF packet + 1 < npackets THEN packet + 1 ELSE NULL
           rest == DataLoop(npackets, packet + 1, remain - ps, 1 - toggle, pid)
       IN [rest EXCEPT !.w = (packet :> TdInit(ps, toggle, pid, nxt)) @@ @]
  ELSE [w |-> <<>>, packet |-> packet, toggle |-> toggle]

(* The data-stage loop of batch_control(): the toggle flips before each TD *)
(* and every TD links to the next one.                                     *)
RECURSIVE ControlLoop(_, _, _, _)
ControlLoop(packet, remain, toggle, pid) ==
  IF remain > 0
  THEN LET t    == 1 - toggle
           ps   == PacketSize(remain)
           rest == ControlLoop(packet + 1, remain - ps, t, pid)
       IN [rest EXCEPT !.w = (packet :> TdInit(ps, t, pid, packet + 1)) @@ @]
  ELSE [w |-> <<>>, packet |-> packet, toggle |-> toggle]

(* Stores of TDs w into data->tds; a store outside the array is a fault.   *)
WriteTds(w) == [i \in DOMAIN tds |-> IF i \in DOMAIN w THEN w[i] ELSE tds[i]]
OutOfBounds(w) == ~(DOMAIN w \subseteq DOMAIN tds)

(* batch_data(instance, pid), with instance->direction = dir when called:  *)
(* reads the toggle, builds the TDs, sets IOC on tds[packet - 1] and       *)
(* stores the toggle after the last TD back into the device keeper.        *)
BatchData(dir, pid) ==
  LET key  == <<Target(op), dir>>
      r    == DataLoop(packets, 0, buffer_size, store[key], pid)
      last == r.packet - 1
      t    == WriteTds(r.w)
  IN /\ tds' = IF last \in DOMAIN t THEN [t EXCEPT ![last].ioc = TRUE] ELSE t
     /\ memFault' = (memFault \/ OutOfBounds(r.w) \/ last \notin DOMAIN tds)
     /\ store' = [store EXCEPT ![key] = r.toggle]

(* batch_control(instance, data_stage, status_stage): SETUP TD with toggle *)
(* 0, data TDs with toggles 1,0,1,..., status TD with toggle 1 and IOC.    *)
(* The toggle store is not touched.                                        *)
BatchControl(dataPid, statusPid) ==
  LET setupTd  == 0 :> TdInit(setup_size, 0, "SETUP", 1)
      r        == ControlLoop(1, buffer_size, 0, dataPid)
      statusTd == r.packet :> [TdInit(0, 1, statusPid, NULL) EXCEPT !.ioc = TRUE]
      w        == statusTd @@ r.w @@ setupTd
  IN /\ tds' = WriteTds(w)
     /\ memFault' = (memFault \/ OutOfBounds(w))
     /\ UNCHANGED store

Prepared(o) == pc = "built" /\ op = o
PrepareDone == pc' = "queued"
PrepareUnchanged ==
  UNCHANGED <<op, buffer_size, setup_size, packets, transfered_size, error,
              allocated, hwPtr, devToggle, moved, result, nbatches>>

(* Mutated variant: a control write answered through the IN callback.     *)
batch_control_write_in ==
  /\ Prepared("control_write")
  /\ BatchControl("OUT", "IN")
  /\ next_step' = "in"
  /\ PrepareDone /\ PrepareUnchanged /\ UNCHANGED direction

batch_control_write ==
  /\ Prepared("control_write")
  /\ BatchControl("OUT", "IN")
  /\ next_step' = "out"
  /\ PrepareDone /\ PrepareUnchanged /\ UNCHANGED direction

batch_control_read ==
  /\ Prepared("control_read")
  /\ BatchControl("IN", "OUT")
  /\ next_step' = "in"
  /\ PrepareDone /\ PrepareUnchanged /\ UNCHANGED direction

batch_interrupt_in ==
  /\ Prepared("interrupt_in")
  /\ direction' = "IN"
  /\ BatchData("IN", "IN")
  /\ next_step' = "in"
  /\ PrepareDone /\ PrepareUnchanged

batch_interrupt_out ==
  /\ Prepared("interrupt_out")
  /\ direction' = "OUT"
  /\ BatchData("OUT", "OUT")
  /\ next_step' = "out"
  /\ PrepareDone /\ PrepareUnchanged

(* batch_bulk_in calls batch_data before it sets the direction.            *)
batch_bulk_in ==
  /\ Prepared("bulk_in")
  /\ BatchData(direction, "IN")
  /\ direction' = "IN"
  /\ next_step' = "in"
  /\ PrepareDone /\ PrepareUnchanged

batch_bulk_out ==
  /\ Prepared("bulk_out")
  /\ direction' = "OUT"
  /\ BatchData("OUT", "OUT")
  /\ next_step' = "out"
  /\ PrepareDone /\ PrepareUnchanged

-----------------------------------------------------------------------------
(***************************************************************************)
(* The host controller executes the TD at the queue head element pointer.  *)
(* A TD completes in full, with an error (retries exhausted or a stall),   *)
(* or, for an IN TD, short.  After a full TD the element pointer follows   *)
(* the link; after an error or a short packet the queue halts on the now   *)
(* inactive TD.  The data endpoint accepts a packet, and flips the toggle  *)
(* it expects, when the packet carries the toggle it expects; a packet     *)
(* with the other toggle is taken for a retransmission and dropped.        *)
(***************************************************************************)
HcResults(td) ==
  {[status |-> "EOK", actlen |-> td.maxlen], [status |-> "EERR", actlen |-> 0]}
    \cup (IF ShortPackets /\ td.pid = "IN"
          THEN {[status |-> "EOK", actlen |-> a] : a \in 0..(td.maxlen - 1)}
          ELSE {})

HcExecuteTd ==
  /\ pc = "queued"
  /\ hwPtr \in DOMAIN tds
  /\ tds[hwPtr].active
  /\ LET td == tds[hwPtr] IN
     \E res \in HcResults(td) :
       /\ tds' = [tds EXCEPT ![hwPtr] = [@ EXCEPT !.active = FALSE,
                                           !.status = res.status,
                                           !.actlen = res.actlen]]
       /\ hwPtr' = IF res.status = "EOK" /\ res.actlen = td.maxlen
                   THEN td.next ELSE hwPtr
       /\ devToggle' =
            IF Target(op) = "ep1" /\ res.status = "EOK"
               /\ td.toggle = devToggle[td.pid]
            THEN [devToggle EXCEPT ![td.pid] = 1 - @]
            ELSE devToggle
       /\ moved' = moved + (IF res.status = "EOK" /\ td.pid # "SETUP"
                            THEN res.actlen ELSE 0)
  /\ UNCHANGED <<pc, op, buffer_size, setup_size, direction, packets,
                 next_step, transfered_size, error, allocated, memFault,
                 store, result, nbatches>>

-----------------------------------------------------------------------------
(***************************************************************************)
(* Mutated variants of definitions below, each a plausible slip in the    *)
(* code it models; the properties are expected to fail under them.        *)
(***************************************************************************)
RECURSIVE WalkNoActiveCheck(_, _, _)
WalkNoActiveCheck(i, acc, err) ==
  IF i >= packets THEN [done |-> TRUE, size |-> acc - setup_size,
                        error |-> err, toggle |-> NULL]
  ELSE IF tds[i].status # "EOK"
  THEN [done |-> TRUE, size |-> IF i > 0 THEN acc - setup_size ELSE acc,
        error |-> tds[i].status, toggle |-> tds[i].toggle]
  ELSE IF tds[i].actlen < tds[i].maxlen
  THEN [done |-> TRUE, size |-> acc + tds[i].actlen - setup_size,
        error |-> "EOK", toggle |-> NULL]
  ELSE WalkNoActiveCheck(i + 1, acc + tds[i].actlen, "EOK")

RECURSIVE WalkNoSetupGuard(_, _, _)
WalkNoSetupGuard(i, acc, err) ==
  IF i >= packets THEN [done |-> TRUE, size |-> acc - setup_size,
                        error |-> err, toggle |-> NULL]
  ELSE IF tds[i].active THEN [done |-> FALSE, size |-> acc, error |-> err,
                              toggle |-> NULL]
  ELSE IF tds[i].status # "EOK"
  THEN [done |-> TRUE, size |-> acc - setup_size,
        error |-> tds[i].status, toggle |-> tds[i].toggle]
  ELSE IF tds[i].actlen < tds[i].maxlen
  THEN [done |-> TRUE, size |-> acc + tds[i].actlen - setup_size,
        error |-> "EOK", toggle |-> NULL]
  ELSE WalkNoSetupGuard(i + 1, acc + tds[i].actlen, "EOK")

RECURSIVE WalkResyncInverted(_, _, _)
WalkResyncInverted(i, acc, err) ==
  IF i >= packets THEN [done |-> TRUE, size |-> acc - setup_size,
                        error |-> err, toggle |-> NULL]
  ELSE IF tds[i].active THEN [done |-> FALSE, size |-> acc, error |-> err,
                              toggle |-> NULL]
  ELSE IF tds[i].status # "EOK"
  THEN [done |-> TRUE, size |-> IF i > 0 THEN acc - setup_size ELSE acc,
        error |-> tds[i].status, toggle |-> 1 - tds[i].toggle]
  ELSE IF tds[i].actlen < tds[i].maxlen
  THEN [done |-> TRUE, size |-> acc + tds[i].actlen - setup_size,
        error |-> "EOK", toggle |-> NULL]
  ELSE WalkResyncInverted(i + 1, acc + tds[i].actlen, "EOK")

-----------------------------------------------------------------------------
(***************************************************************************)
(* batch_is_complete                                                       *)
(***************************************************************************)

(* Iteration i of the loop over data->tds with transfered_size = acc and   *)
(* instance->error = err.  Returns whether the batch is complete, the new  *)
(* transfered_size and error, and the toggle written to the device keeper *)
(* (NULL when none is written).  An active TD: not complete.  An erroring *)
(* TD: complete, its hardware toggle resynchronises the keeper, and the    *)
(* setup size is subtracted only when it is not the first TD.  A short    *)
(* TD: complete after counting it.  All TDs done: complete.                *)
RECURSIVE Walk(_, _, _)
Walk(i, acc, err) ==
  IF i >= packets THEN [done |-> TRUE, size |-> acc - setup_size,
                        error |-> err, toggle |-> NULL]
  ELSE IF tds[i].active THEN [done |-> FALSE, size |-> acc, error |-> err,
                              toggle |-> NULL]
  ELSE IF tds[i].status # "EOK"
  THEN [done |-> TRUE, size |-> IF i > 0 THEN acc - setup_size ELSE acc,
        error |-> tds[i].status, toggle |-> tds[i].toggle]
  ELSE IF tds[i].actlen < tds[i].maxlen
  THEN [done |-> TRUE, size |-> acc + tds[i].actlen - setup_size,
        error |-> "EOK", toggle |-> NULL]
  ELSE Walk(i + 1, acc + tds[i].actlen, "EOK")

BatchIsCompleteNoReset == Walk(0, transfered_size, error)

(* instance->transfered_size = 0, then the loop.                           *)
BatchIsComplete == Walk(0, 0, error)

(* The poller calls batch_is_complete; a complete batch is unlinked from  *)
(* the schedule, to have its next_step called.                             *)
Poll ==
  /\ pc = "queued"
  /\ LET r == BatchIsComplete IN
     /\ transfered_size' = r.size
     /\ error' = r.error
     /\ store' = IF r.toggle = NULL THEN store
                 ELSE [store EXCEPT ![<<Target(op), direction>>] = r.toggle]
     /\ pc' = IF r.done THEN "finished" ELSE "queued"
  /\ UNCHANGED <<op, buffer_size, setup_size, direction, packets, tds,
                 next_step, allocated, memFault, hwPtr, devToggle, moved,
                 result, nbatches>>

(***************************************************************************)
(* batch_call_in_and_dispose / batch_call_out_and_dispose: the callback    *)
(* gets error and transfered_size, then batch_dispose frees everything.    *)
(***************************************************************************)
CallAndDispose(kind) ==
  /\ pc = "finished"
  /\ next_step = kind
  /\ result' = [kind |-> kind, error |-> error, size |-> transfered_size]
  /\ allocated' = Dispose(allocated)
  /\ pc' = "none"
  /\ UNCHANGED <<op, buffer_size, setup_size, direction, packets, tds,
                 next_step, transfered_size, error, memFault, store, hwPtr,
                 devToggle, moved, nbatches>>

batch_call_in_and_dispose == CallAndDispose("in")
batch_call_out_and_dispose == CallAndDispose("out")

(* All requests made and answered.                                         *)
Terminated ==
  /\ pc = "none"
  /\ nbatches = MaxBatches
  /\ UNCHANGED vars

-----------------------------------------------------------------------------
Init ==
  /\ pc = "none"
  /\ op = "none"
  /\ buffer_size = 0
  /\ setup_size = 0
  /\ direction = "BOTH"
  /\ packets = 0
  /\ tds = <<>>
  /\ next_step = "none"
  /\ transfered_size = 0
  /\ error = "EOK"
  /\ allocated = {}
  /\ memFault = FALSE
  /\ store = [k \in Endpoints \X Dirs |-> 0]
  /\ hwPtr = NULL
  /\ devToggle = [d \in DataDirs |-> 0]
  /\ moved = 0
  /\ result = [kind |-> "none", error |-> "EOK", size |-> 0]
  /\ nbatches = 0

Prepare ==
  \/ batch_control_write \/ batch_control_read
  \/ batch_interrupt_in \/ batch_interrupt_out
  \/ batch_bulk_in \/ batch_bulk_out

Next ==
  \/ BatchGet
  \/ Prepare
  \/ HcExecuteTd
  \/ Poll
  \/ batch_call_in_and_dispose \/ batch_call_out_and_dispose
  \/ Terminated

(* The requester prepares and schedules a batch right after batch_get, the *)
(* controller walks the schedule every frame, the poller runs on a timer, *)
(* and next_step is called for every batch the poller unlinks.            *)
Fairness ==
  /\ WF_vars(Prepare)
  /\ WF_vars(HcExecuteTd)
  /\ WF_vars(Poll)
  /\ WF_vars(batch_call_in_and_dispose \/ batch_call_out_and_dispose)

Spec == Init /\ [][Next]_vars /\ Fairness

-----------------------------------------------------------------------------
TypeOK ==
  /\ pc \in {"none", "built", "queued", "finished", "crashed"}
  /\ op \in AllOps \cup {"none"}
  /\ buffer_size \in Nat /\ setup_size \in Nat
  /\ direction \in Dirs
  /\ packets \in Nat
  /\ tds \in [0..(packets - 1) -> TD] \/ pc \in {"none", "crashed"}
  /\ next_step \in {"in", "out", "none"}
  /\ transfered_size \in Nat
  /\ error \in Status
  /\ allocated \subseteq AllocSteps
  /\ memFault \in BOOLEAN
  /\ store \in [Endpoints \X Dirs -> 0..1]
  /\ hwPtr \in Int
  /\ devToggle \in [DataDirs -> 0..1]
  /\ moved \in Nat
  /\ nbatches \in 0..MaxBatches

(* No store through a TD pointer outside data->tds and no dereference of a *)
(* NULL allocation: batch_get sizes the TD array for exactly the TDs that  *)
(* batch_data / batch_control write, IOC included; and no free of a       *)
(* pointer that was never allocated: when a later allocation fails,       *)
(* batch_dispose of the half-built batch finds NULL in every field not   *)
(* yet allocated.                                                          *)
MemorySafe == ~memFault

(* Between requests, the toggle the device keeper holds for each direction *)
(* of the data endpoint is the toggle the endpoint expects next: the       *)
(* toggle batch_data stores after building, and the one batch_is_complete *)
(* writes back after an error, leave the next batch in sync.               *)
ToggleSync ==
  pc \in {"none", "built"} =>
    \A d \in DataDirs : store[<<"ep1", d>>] = devToggle[d]

(* When batch_is_complete says complete, transfered_size is the number of  *)
(* payload bytes the controller moved (setup bytes excluded), whatever the *)
(* number of polls before, the short packet or the failing TD.             *)
ReportedSize == pc = "finished" => transfered_size = moved

(* A batch is only handed to next_step (which frees its TDs) when the     *)
(* controller holds no active TD of it.                                    *)
Handoff ==
  pc = "finished" => ~(hwPtr \in DOMAIN tds /\ tds[hwPtr].active)

(* The engine implements UsbTransfer: a request is accepted when batch_get *)
(* returns a batch and answered when next_step calls the callback.         *)
Transfer == INSTANCE UsbTransfer WITH
  request <- IF pc \in {"built", "queued", "finished"}
             THEN [op |-> op, size |-> buffer_size]
             ELSE [op |-> "none", size |-> 0],
  answer <- result

(* Every batch a requester gets from batch_get is answered once, through  *)
(* the callback its prepare function selects, with a byte count within    *)
(* the request that is the full count for a successful OUT transfer.      *)
ImplementsUsbTransfer == Transfer!Spec

=============================================================================
