---------------------------- MODULE MCIpcServices ----------------------------
(***************************************************************************)
(* Two IPC services side by side: the DHCP service's front end            *)
(* (DhcpMain) and the display server's input path (DisplayInput). They    *)
(* are separate tasks and share no state; a behaviour interleaves the     *)
(* steps of both, and each keeps its own fairness.                        *)
(***************************************************************************)
EXTENDS Integers

CONSTANTS Conns, MaxCalls, DhcpFailures, MaxEvents, InputFailures

VARIABLES pc, handlerSet, serverReg, serviceReg, client, fibril, queue,
          answers, nextId, exitCode,
          dpc, input, sess, active, posted, nev

Dhcp == INSTANCE DhcpMain WITH Failures <- DhcpFailures

Display == INSTANCE DisplayInput WITH Failures <- InputFailures

dhcpVars == <<pc, handlerSet, serverReg, serviceReg, client, fibril, queue,
              answers, nextId, exitCode>>

inputVars == <<dpc, input, sess, active, posted, nev>>

vars == <<dhcpVars, inputVars>>

Init == Dhcp!Init /\ Display!Init

Next ==
    \/ Dhcp!Next /\ UNCHANGED inputVars
    \/ Display!Next /\ UNCHANGED dhcpVars

Spec == Init /\ [][Next]_vars /\ Dhcp!Fairness

\* See DhcpMain: every call sent to dhcp_client_conn is eventually answered.
EveryCallAnswered == Dhcp!EveryCallAnswered

\* See DisplayInput: ds_input_open leaves no session to the input service
\* that display->input does not hold.
NoSessionLeak == Display!NoSessionLeak

=============================================================================
