----------------------------- MODULE RemoteHwRes -----------------------------
(***************************************************************************)
(* The server side of the hardware resource interface, from              *)
(* uspace/lib/drv/generic/remote_hw_res.c. A driver function's connection *)
(* fibril takes the calls of a client one at a time, in order, and runs  *)
(* the handler remote_hw_res_iface_ops has for the method; each handler  *)
(* answers ENOTSUP when the driver's hw_res_ops_t lacks the operation,   *)
(* and otherwise calls it and answers with its result. GET_RESOURCE_LIST *)
(* answers the count and then receives the client's data read of the     *)
(* list. The client library is outside the sample and is modelled as the *)
(* environment: it sends any method, and after a counted answer sends the *)
(* data read or, failing to allocate the buffer, goes on without it.     *)
(***************************************************************************)
EXTENDS Integers, Sequences

CONSTANTS
    OpsTables,  \* the sets of operations a driver's hw_res_ops_t may fill in
    Counts,     \* sizes of the resource lists get_resource_list may return
    MaxCalls    \* calls a client makes

\* The operations of hw_res_ops_t, named by the method that calls them.
Ops == {"get_resource_list", "enable_interrupt", "dma_channel_setup",
        "dma_channel_remain"}

\* Answers a driver operation may give: success or a failure code.
Results == {"EOK", "EIO"}

VARIABLES
    ops,       \* the operations the driver's hw_res_ops_t does not leave NULL
    queue,     \* calls sent on the connection, not yet received: [id, m, len]
    srv,       \* the connection fibril: "get", or waiting for the data read
    answers,   \* answers[id]: the answer to call id, or "none"
    client,    \* the client: "idle", "waiting" for the answer to method m, or
               \* to "read" a list of n entries
    nextId,    \* the number of calls made
    nullCall   \* a handler called a NULL operation pointer

vars == <<ops, queue, srv, answers, client, nextId, nullCall>>

CallIds == 1..MaxCalls

\* async_answer_0 / async_answer_1: the return code and the argument.
Answer(id, rc, arg) == answers' = [answers EXCEPT ![id] = [rc |-> rc, arg |-> arg]]

\* The connection fibril takes the next call; its handler runs to its answer.
Receive == srv.st = "get" /\ queue # <<>> /\ queue' = Tail(queue)

Call == Head(queue)

Handles(m) == Receive /\ Call.m = m

-----------------------------------------------------------------------------
(* Handlers                                                                *)

\* remote_hw_res_enable_interrupt: ENOTSUP, or EOK / EREFUSED by the
\* operation's boolean result.
remote_hw_res_enable_interrupt ==
    /\ Handles("enable_interrupt")
    /\ IF "enable_interrupt" \notin ops THEN Answer(Call.id, "ENOTSUP", 0)
       ELSE \E ok \in BOOLEAN : Answer(Call.id, IF ok THEN "EOK" ELSE "EREFUSED", 0)
    /\ UNCHANGED <<ops, srv, client, nextId, nullCall>>

\* remote_hw_res_get_resource_list: ENOTSUP, ENOENT for a NULL list, or EOK
\* with the count, after which the fibril waits in async_data_read_receive.
remote_hw_res_get_resource_list ==
    /\ Handles("get_resource_list")
    /\ IF "get_resource_list" \notin ops
       THEN Answer(Call.id, "ENOTSUP", 0) /\ UNCHANGED srv
       ELSE \/ Answer(Call.id, "ENOENT", 0) /\ UNCHANGED srv
            \/ \E n \in Counts :
                  /\ Answer(Call.id, "EOK", n)
                  /\ srv' = [st |-> "read", count |-> n]
    /\ UNCHANGED <<ops, client, nextId, nullCall>>

(* The rest of remote_hw_res_get_resource_list: async_data_read_receive   *)
(* takes the next call. A data read is finalized (with the length the     *)
(* client asked for); any other call makes it return                       *)
(* false ("Protocol error") and the handler returns, leaving that call     *)
(* unanswered.                                                             *)
DataReadReceive ==
    /\ srv.st = "read"
    /\ queue # <<>>
    /\ queue' = Tail(queue)
    /\ srv' = [st |-> "get", count |-> 0]
    /\ IF Call.m = "data_read" THEN Answer(Call.id, "EOK", Call.len) ELSE UNCHANGED answers
    /\ UNCHANGED <<ops, client, nextId, nullCall>>

\* remote_hw_res_dma_channel_setup: ENOTSUP, or the operation's result.
remote_hw_res_dma_channel_setup ==
    /\ Handles("dma_channel_setup")
    /\ IF "dma_channel_setup" \notin ops THEN Answer(Call.id, "ENOTSUP", 0)
       ELSE \E rc \in Results : Answer(Call.id, rc, 0)
    /\ UNCHANGED <<ops, srv, client, nextId, nullCall>>

\* remote_hw_res_dma_channel_remain: tests dma_channel_setup for NULL and
\* then calls dma_channel_remain; calling a NULL remain stops the driver.
remote_hw_res_dma_channel_remain ==
    /\ Handles("dma_channel_remain")
    /\ IF "dma_channel_setup" \notin ops
       THEN Answer(Call.id, "ENOTSUP", 0) /\ UNCHANGED nullCall
       ELSE IF "dma_channel_remain" \notin ops
       THEN nullCall' = TRUE /\ UNCHANGED answers
       ELSE \E rc \in Results : Answer(Call.id, rc, 0) /\ UNCHANGED nullCall
    /\ UNCHANGED <<ops, srv, client, nextId>>

-----------------------------------------------------------------------------
(* The client                                                              *)

\* A new call of any interface method; the client waits for its answer.
ClientCall ==
    /\ client.st = "idle"
    /\ nextId < MaxCalls
    /\ \E m \in Ops :
          /\ queue' = Append(queue, [id |-> nextId + 1, m |-> m, len |-> 0])
          /\ client' = [st |-> "waiting", n |-> 0, m |-> m]
    /\ nextId' = nextId + 1
    /\ UNCHANGED <<ops, srv, answers, nullCall>>

\* The answer to the client's call arrives; a counted one makes the client
\* read the list.
ClientAnswered ==
    /\ client.st = "waiting"
    /\ answers[nextId].rc # "none"
    /\ client' = IF client.m = "get_resource_list" /\ answers[nextId].rc = "EOK"
                 THEN [client EXCEPT !.st = "read", !.n = answers[nextId].arg]
                 ELSE [client EXCEPT !.st = "idle"]
    /\ UNCHANGED <<ops, queue, srv, answers, nextId, nullCall>>

\* The client sends the data read of count entries, or, when the buffer
\* cannot be allocated, goes on without it.
ClientRead ==
    /\ client.st = "read"
    /\ \/ /\ nextId < MaxCalls
          /\ queue' = Append(queue, [id |-> nextId + 1, m |-> "data_read", len |-> client.n])
          /\ nextId' = nextId + 1
          /\ client' = [st |-> "waiting", n |-> 0, m |-> "data_read"]
       \/ /\ UNCHANGED <<queue, nextId>>
          /\ client' = [client EXCEPT !.st = "idle"]
    /\ UNCHANGED <<ops, srv, answers, nullCall>>

-----------------------------------------------------------------------------

Init ==
    /\ ops \in OpsTables
    /\ queue = <<>>
    /\ srv = [st |-> "get", count |-> 0]
    /\ answers = [id \in CallIds |-> [rc |-> "none", arg |-> 0]]
    /\ client = [st |-> "idle", n |-> 0, m |-> "none"]
    /\ nextId = 0
    /\ nullCall = FALSE

\* A step of the driver function's connection fibril, which a call through a
\* NULL operation pointer ends for good.
Server ==
    /\ ~nullCall
    /\ \/ remote_hw_res_get_resource_list
       \/ DataReadReceive
       \/ remote_hw_res_enable_interrupt
       \/ remote_hw_res_dma_channel_setup
       \/ remote_hw_res_dma_channel_remain

\* The connection fibril runs whenever a call is waiting for it; the client
\* need not call.
\* After a NULL call the driver task is gone and nothing on the connection
\* runs.
Next ==
    \/ Server
    \/ ~nullCall /\ (ClientCall \/ ClientAnswered \/ ClientRead)

Spec == Init /\ [][Next]_vars /\ WF_vars(Server)

-----------------------------------------------------------------------------
(* Properties                                                              *)

\* Every call a client makes on the connection is eventually answered, with
\* ENOTSUP where the driver's hw_res_ops_t lacks the operation: a handler
\* that calls a NULL operation (stopping the driver), or one that takes a
\* call and returns without answering it, leaves the client blocked.
EveryCallAnswered ==
    \A id \in CallIds : id <= nextId ~> answers[id].rc # "none"

=============================================================================
