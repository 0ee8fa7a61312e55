----------------------------- MODULE UsbTransfer -----------------------------
(***************************************************************************)
(* What the batch engine promises a class driver (spec sections 4.5, 7):  *)
(* an accepted request is answered exactly once, through the callback of  *)
(* its direction, with an error code and a byte count that never exceeds  *)
(* the request; an OUT transfer that succeeds moved every byte (only IN   *)
(* transfers can end short).  Requests are serialised, one at a time.     *)
(***************************************************************************)
EXTENDS Naturals

CONSTANTS Ops, DataSizes, ControlSizes

VARIABLES
  request,  \* [op, size] of the accepted request, NoRequest if none
  answer    \* [kind, error, size] of the last callback

vars == <<request, answer>>

NoRequest == [op |-> "none", size |-> 0]
Errors == {"EOK", "EERR"}

(* The callback shape a request is answered through.                      *)
Kind(o) == IF o \in {"control_write", "interrupt_out", "bulk_out"}
           THEN "out" ELSE "in"
SizesOf(o) == IF o \in {"control_write", "control_read"}
              THEN ControlSizes ELSE DataSizes

Init ==
  /\ request = NoRequest
  /\ answer = [kind |-> "none", error |-> "EOK", size |-> 0]

Accept ==
  /\ request = NoRequest
  /\ \E o \in Ops : \E s \in SizesOf(o) : request' = [op |-> o, size |-> s]
  /\ UNCHANGED answer

Answer ==
  /\ request # NoRequest
  /\ \E e \in Errors, n \in 0..request.size :
       /\ (e = "EOK" /\ Kind(request.op) = "out") => n = request.size
       /\ answer' = [kind |-> Kind(request.op), error |-> e, size |-> n]
  /\ request' = NoRequest

Next == Accept \/ Answer

Spec == Init /\ [][Next]_vars /\ WF_vars(Answer)

=============================================================================
