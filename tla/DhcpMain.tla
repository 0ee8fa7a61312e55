------------------------------- MODULE DhcpMain -------------------------------
(***************************************************************************)
(* The IPC front end of the DHCP service, uspace/srv/net/dhcp/main.c.     *)
(* main initialises logging and runs dhcp_init, which sets the fallback   *)
(* port handler and registers the server and then the service with the    *)
(* location service, unregistering the server when the second step        *)
(* fails. Once the service is registered, clients connect; each           *)
(* connection gets a fibril running dhcp_client_conn, which accepts it    *)
(* and answers its calls one at a time, in order, until the hangup. The   *)
(* link operations themselves, dhcpsrv_link_add and the others, are      *)
(* outside the sample: their return code is a choice.                    *)
(***************************************************************************)
EXTENDS Integers, Sequences

CONSTANTS
    Conns,     \* client connections
    MaxCalls,  \* calls the clients make in all
    Failures   \* whether log_init and the registrations may fail

\* Methods a client may send; "hangup" is method 0, "other" any method the
\* switch does not know.
Methods == {"DHCP_LINK_ADD", "DHCP_LINK_REMOVE", "DHCP_DISCOVER", "other", "hangup"}

\* Return codes of dhcpsrv_link_add, dhcpsrv_link_remove, dhcpsrv_discover.
SrvResults == {"EOK", "ENOENT"}

CallIds == 1..MaxCalls

VARIABLES
    pc,          \* step of main: log_init, dhcp_init, register_server,
                 \* register_service, serving, exited
    handlerSet,  \* async_set_fallback_port_handler(dhcp_client_conn) done
    serverReg,   \* loc_server_register succeeded and not undone
    serviceReg,  \* loc_service_register succeeded
    client,      \* client[c]: none, connected, refused or hungup
    fibril,      \* fibril[c]: none, running (dhcp_client_conn) or done
    queue,       \* queue[c]: calls [id, m] sent on c and not yet received
    answers,     \* answers[id]: the return code answered to call id, or "none"
    nextId,      \* calls sent so far
    exitCode     \* main's return value

dhcpVars == <<pc, handlerSet, serverReg, serviceReg, client, fibril, queue,
              answers, nextId, exitCode>>

Fail == IF Failures THEN BOOLEAN ELSE {FALSE}

-----------------------------------------------------------------------------
(* main and dhcp_init                                                      *)

\* main: log_init; on failure main returns 1.
main_log_init ==
    /\ pc = "log_init"
    /\ \E fails \in Fail :
          IF fails THEN pc' = "exited" /\ exitCode' = 1
          ELSE pc' = "dhcp_init" /\ UNCHANGED exitCode
    /\ UNCHANGED <<handlerSet, serverReg, serviceReg, client, fibril, queue,
                   answers, nextId>>

\* dhcp_init: dhcpsrv_links_init and async_set_fallback_port_handler.
dhcp_init ==
    /\ pc = "dhcp_init"
    /\ handlerSet' = TRUE
    /\ pc' = "register_server"
    /\ UNCHANGED <<serverReg, serviceReg, client, fibril, queue, answers, nextId,
                   exitCode>>

\* dhcp_init: loc_server_register; on failure dhcp_init returns EEXIST and
\* main returns 1.
RegisterServer ==
    /\ pc = "register_server"
    /\ \E fails \in Fail :
          IF fails THEN pc' = "exited" /\ exitCode' = 1 /\ UNCHANGED serverReg
          ELSE pc' = "register_service" /\ serverReg' = TRUE /\ UNCHANGED exitCode
    /\ UNCHANGED <<handlerSet, serviceReg, client, fibril, queue, answers, nextId>>

\* dhcp_init: loc_service_register; on failure loc_server_unregister, and
\* main returns 1; on success main calls task_retval and async_manager.
RegisterService ==
    /\ pc = "register_service"
    /\ \E fails \in Fail :
          IF fails
          THEN /\ serverReg' = FALSE
               /\ pc' = "exited" /\ exitCode' = 1
               /\ UNCHANGED serviceReg
          ELSE /\ serviceReg' = TRUE
               /\ pc' = "serving"
               /\ UNCHANGED <<serverReg, exitCode>>
    /\ UNCHANGED <<handlerSet, client, fibril, queue, answers, nextId>>

-----------------------------------------------------------------------------
(* Connections                                                             *)

\* A client connects to the registered service. The connection goes to the
\* fallback port handler, whose dhcp_client_conn fibril accepts it
\* (async_accept_0); without a handler the connection is refused.
Connect(c) ==
    /\ serviceReg
    /\ client[c] = "none"
    /\ IF handlerSet
       THEN client' = [client EXCEPT ![c] = "connected"]
            /\ fibril' = [fibril EXCEPT ![c] = "running"]
       ELSE client' = [client EXCEPT ![c] = "refused"] /\ UNCHANGED fibril
    /\ UNCHANGED <<pc, handlerSet, serverReg, serviceReg, queue, answers, nextId,
                   exitCode>>

\* A client sends a call on its connection; after the hangup it sends none.
Send(c) ==
    /\ client[c] = "connected"
    /\ nextId < MaxCalls
    /\ \E m \in Methods :
          /\ queue' = [queue EXCEPT ![c] = Append(@, [id |-> nextId + 1, m |-> m])]
          /\ client' = IF m = "hangup" THEN [client EXCEPT ![c] = "hungup"] ELSE client
    /\ nextId' = nextId + 1
    /\ UNCHANGED <<pc, handlerSet, serverReg, serviceReg, fibril, answers, exitCode>>

\* One iteration of the loop of dhcp_client_conn: async_get_call.
GetCall(c) ==
    /\ fibril[c] = "running"
    /\ queue[c] # <<>>
    /\ queue' = [queue EXCEPT ![c] = Tail(@)]

CallOf(c) == Head(queue[c])

Answer(c, rc) == answers' = [answers EXCEPT ![CallOf(c).id] = rc]

\* Mutant: the fibril returns on the hangup without answering it.
HangUpNoAnswer(c) ==
    /\ GetCall(c) /\ CallOf(c).m = "hangup"
    /\ UNCHANGED answers
    /\ fibril' = [fibril EXCEPT ![c] = "done"]

\* Method 0: the other side has hung up; answer EOK and end the fibril.
HangUp(c) ==
    /\ GetCall(c) /\ CallOf(c).m = "hangup"
    /\ Answer(c, "EOK")
    /\ fibril' = [fibril EXCEPT ![c] = "done"]

\* dhcp_link_add_srv, dhcp_link_remove_srv, dhcp_discover_srv: call the
\* dhcpsrv operation and answer its return code.
dhcp_link_add_srv(c) ==
    /\ GetCall(c) /\ CallOf(c).m = "DHCP_LINK_ADD"
    /\ \E rc \in SrvResults : Answer(c, rc)
    /\ UNCHANGED fibril

dhcp_link_remove_srv(c) ==
    /\ GetCall(c) /\ CallOf(c).m = "DHCP_LINK_REMOVE"
    /\ \E rc \in SrvResults : Answer(c, rc)
    /\ UNCHANGED fibril

dhcp_discover_srv(c) ==
    /\ GetCall(c) /\ CallOf(c).m = "DHCP_DISCOVER"
    /\ \E rc \in SrvResults : Answer(c, rc)
    /\ UNCHANGED fibril

\* The default case of the switch: EINVAL.
UnknownMethod(c) ==
    /\ GetCall(c) /\ CallOf(c).m = "other"
    /\ Answer(c, "EINVAL")
    /\ UNCHANGED fibril

\* A step of the fibril of connection c.
dhcp_client_conn(c) ==
    /\ \/ HangUp(c)
       \/ dhcp_link_add_srv(c)
       \/ dhcp_link_remove_srv(c)
       \/ dhcp_discover_srv(c)
       \/ UnknownMethod(c)
    /\ UNCHANGED <<pc, handlerSet, serverReg, serviceReg, client, nextId, exitCode>>

-----------------------------------------------------------------------------

Init ==
    /\ pc = "log_init"
    /\ handlerSet = FALSE
    /\ serverReg = FALSE
    /\ serviceReg = FALSE
    /\ client = [c \in Conns |-> "none"]
    /\ fibril = [c \in Conns |-> "none"]
    /\ queue = [c \in Conns |-> <<>>]
    /\ answers = [id \in CallIds |-> "none"]
    /\ nextId = 0
    /\ exitCode = 0

Next ==
    \/ main_log_init
    \/ dhcp_init
    \/ RegisterServer
    \/ RegisterService
    \/ \E c \in Conns : Connect(c) \/ Send(c) \/ dhcp_client_conn(c)

\* The async framework runs a connection's fibril whenever a call for it
\* is waiting; main runs to async_manager. Clients need not call.
Fairness ==
    /\ WF_dhcpVars(main_log_init \/ dhcp_init \/ RegisterServer \/ RegisterService)
    /\ \A c \in Conns : WF_dhcpVars(dhcp_client_conn(c))

Spec == Init /\ [][Next]_dhcpVars /\ Fairness

-----------------------------------------------------------------------------
(* Properties                                                              *)

\* Every call a client sends is eventually answered, the hangup and
\* unknown methods included: a call left unanswered blocks its sender.
EveryCallAnswered ==
    \A id \in CallIds : id <= nextId ~> answers[id] # "none"

=============================================================================
