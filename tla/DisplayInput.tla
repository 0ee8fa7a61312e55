----------------------------- MODULE DisplayInput -----------------------------
(***************************************************************************)
(* The display server's input path, uspace/srv/hid/display/input.c.      *)
(* ds_input_open looks up the input service, connects to it, opens an    *)
(* input_t on the session with ds_input_ev_ops as its callbacks (hanging *)
(* up the session when that fails) and activates it; ds_input_close      *)
(* closes the input_t and clears display->input. While the input is      *)
(* open, the input service delivers events; the callback fibril runs the *)
(* callback of each in turn, and the key, move and button callbacks post *)
(* an event to the display. The display server's main, which calls open  *)
(* at start and close at shutdown, is outside the sample and is the      *)
(* environment here.                                                     *)
(***************************************************************************)
EXTENDS Integers, Sequences

CONSTANTS
    MaxEvents,  \* events the input service delivers
    Failures    \* whether the location service and input_open may fail

\* The callbacks of input_ev_ops_t; "press" and "release" are the button
\* callback with bpress true and false.
InputEvents == {"active", "deactive", "key", "move", "abs_move", "press", "release"}

VARIABLES
    dpc,     \* the display server: start, running, failed (open returned an
             \* error) or closed
    input,   \* display->input: "NULL" or "open"
    sess,    \* the session from loc_service_connect: none, connected, hungup
    active,  \* input_activate was called on display->input
    posted,  \* events posted to the display: ds_display_post_kbd_event and
             \* ds_display_post_ptd_event, in order
    nev      \* events delivered

inputVars == <<dpc, input, sess, active, posted, nev>>

Fail == IF Failures THEN BOOLEAN ELSE {FALSE}

-----------------------------------------------------------------------------

\* Mutant: a failing input_open returns without async_hangup.
ds_input_openNoHangup ==
    /\ dpc = "start"
    /\ \E idFails, connFails, openFails \in Fail :
          CASE idFails \/ connFails ->
                 dpc' = "failed" /\ UNCHANGED <<input, sess, active>>
            [] openFails ->
                 dpc' = "failed" /\ sess' = "connected" /\ UNCHANGED <<input, active>>
            [] OTHER ->
                 /\ dpc' = "running"
                 /\ sess' = "connected" /\ input' = "open" /\ active' = TRUE
    /\ UNCHANGED <<posted, nev>>

(* ds_input_open: loc_service_get_id, loc_service_connect (EIO when it     *)
(* returns NULL), input_open (on failure async_hangup of the session),     *)
(* input_activate.                                                         *)
ds_input_open ==
    /\ dpc = "start"
    /\ \E idFails, connFails, openFails \in Fail :
          CASE idFails \/ connFails ->
                 dpc' = "failed" /\ UNCHANGED <<input, sess, active>>
            [] openFails ->
                 dpc' = "failed" /\ sess' = "hungup" /\ UNCHANGED <<input, active>>
            [] OTHER ->
                 /\ dpc' = "running"
                 /\ sess' = "connected" /\ input' = "open" /\ active' = TRUE
    /\ UNCHANGED <<posted, nev>>

\* ds_input_close: input_close, which releases the input's session, then
\* display->input = NULL.
ds_input_close ==
    /\ dpc = "running"
    /\ dpc' = "closed"
    /\ input' = "NULL"
    /\ sess' = "hungup"
    /\ UNCHANGED <<active, posted, nev>>

\* What each callback posts to the display: a keyboard event, a relative
\* PTD_MOVE, PTD_PRESS or PTD_RELEASE with a zero move; the active,
\* deactive and abs_move callbacks post nothing and return EOK.
Post(e) ==
    CASE e = "key"     -> <<[kind |-> "kbd", type |-> "key"]>>
      [] e = "move"    -> <<[kind |-> "ptd", type |-> "PTD_MOVE"]>>
      [] e = "press"   -> <<[kind |-> "ptd", type |-> "PTD_PRESS"]>>
      [] e = "release" -> <<[kind |-> "ptd", type |-> "PTD_RELEASE"]>>
      [] OTHER         -> <<>>

\* The input service delivers an event to the open, activated input and
\* the callback fibril runs the callback of ds_input_ev_ops for it.
InputEvent ==
    /\ input = "open" /\ active
    /\ nev < MaxEvents
    /\ \E e \in InputEvents : posted' = posted \o Post(e)
    /\ nev' = nev + 1
    /\ UNCHANGED <<dpc, input, sess, active>>

-----------------------------------------------------------------------------

Init ==
    /\ dpc = "start"
    /\ input = "NULL"
    /\ sess = "none"
    /\ active = FALSE
    /\ posted = <<>>
    /\ nev = 0

Next ==
    \/ ds_input_open
    \/ ds_input_close
    \/ InputEvent

Spec == Init /\ [][Next]_inputVars

-----------------------------------------------------------------------------
(* Properties                                                              *)

\* ds_input_open leaks no session to the input service: once it has
\* returned, a connected session is one that display->input holds, so
\* every error path after loc_service_connect hangs the session up.
NoSessionLeak == sess = "connected" => input = "open"

=============================================================================
