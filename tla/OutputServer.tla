---------------------------- MODULE OutputServer ----------------------------
(***************************************************************************)
(* The output service of uspace/srv/hid/output/output.c: the list of      *)
(* output devices (outdevs), each with a back buffer and the top_row it   *)
(* last showed, and the list of front buffers (frontbufs) that a client   *)
(* shares with the server, each a character grid with a dirty flag per    *)
(* cell. Every IPC handler of client_connection is one atomic action; the *)
(* client (the console, outside the sample) writes cells, scrolls and     *)
(* moves the cursor of the shared grid between calls.                     *)
(*                                                                         *)
(* A grid is stored as the chargrid library stores it: a flat array of    *)
(* cols * rows cells, and chargrid_charfield_at(buf, x, y) is the cell at *)
(* ((y + top_row) % rows) * cols + x, with no check of x. An index outside *)
(* the array sets memFault.                                                *)
(***************************************************************************)
EXTENDS Integers, Sequences, FiniteSets, Functions

CONSTANTS
    Devs,         \* output devices (EGA, framebuffer, serial consoles)
    InitialDevs,  \* registered by main() before async_manager()
    LateDevs,     \* registered later, from a discovery callback
    DevCols,      \* DevCols[d], DevRows[d]: what ops->get_dimensions reports
    DevRows,
    DevCaps,      \* DevCaps[d]: the capability bits of ops->get_caps
    Handles,      \* addresses malloc may return for a frontbuf_t
    Glyphs,       \* character and attributes of a cell
    Blank,        \* the glyph of a cleared cell
    Cursors,      \* cursor position and visibility of a grid
    Rects,        \* <<col, row, cols, rows>> a client passes to OUTPUT_DAMAGE
    TopRows,      \* values the uninitialised dev->top_row may hold
    AllocFailures \* whether malloc and the share-out may fail

ASSUME InitialDevs \cup LateDevs \subseteq Devs /\ InitialDevs # {}
ASSUME Blank \in Glyphs

NoDev == [top |-> -1, back |-> <<>>, cursor |-> "none", attrs |-> "none"]

NoGrid == [cols |-> 0, rows |-> 0, top |-> 0, cell |-> <<>>, dirty |-> <<>>,
           cursor |-> "none"]

VARIABLES
    phase,      \* "boot" until main() enters async_manager(), then "serving"
    outdevs,    \* the list outdevs, in registration order
    dev,        \* dev[d]: top_row, back buffer, cursor and attrs of device d
    frontbufs,  \* the handles on the list frontbufs
    fb,         \* fb[h]: the shared chargrid behind handle h
    reply,      \* the answer of the last call
    clientDims, \* the dimensions the client last obtained
    memFault    \* a cell outside a grid's array was read or written

vars == <<phase, outdevs, dev, frontbufs, fb, reply, clientDims, memFault>>

Registered == Range(outdevs)

-----------------------------------------------------------------------------
(* chargrid: cell index of (x, y) and the row-major order of a loop        *)

\* chargrid_charfield_at(buf, x, y)
FIdx(F, x, y) == ((y + F.top) % F.rows) * F.cols + x

\* chargrid_charfield_at(dev->backbuf, x, y); a back buffer never scrolls.
BIdx(d, x, y) == (y % DevRows[d]) * DevCols[d] + x

\* The cells visited by "for (y = 0; y < h; y++) for (x = 0; x < w; x++)".
RowMajor(x0, y0, w, h) == [k \in 1..w * h |-> <<x0 + ((k - 1) % w), y0 + ((k - 1) \div w)>>]

(* The cell loop shared by srv_update_scroll (all = TRUE), srv_update      *)
(* (all = FALSE: only dirty cells) and srv_damage (all = TRUE): copy the   *)
(* front cell to the back cell, clear the front cell's dirty flag.         *)
RECURSIVE CopyLoop(_, _, _, _, _, _)
CopyLoop(d, cells, k, F, D, all) ==
    IF k > Len(cells) THEN [F |-> F, D |-> D, fault |-> FALSE]
    ELSE LET i == FIdx(F, cells[k][1], cells[k][2])
             j == BIdx(d, cells[k][1], cells[k][2])
         IN IF i \notin DOMAIN F.cell \/ j \notin DOMAIN D.back
            THEN [F |-> F, D |-> D, fault |-> TRUE]
            ELSE IF all \/ F.dirty[i]
                 THEN CopyLoop(d, cells, k + 1, [F EXCEPT !.dirty[i] = FALSE],
                               [D EXCEPT !.back[j] = F.cell[i]], all)
                 ELSE CopyLoop(d, cells, k + 1, F, D, all)

\* Mutant: srv_update_scroll records the new top_row but does not redraw.
ScrollDevTopOnly(d, F, D) == [F |-> F, D |-> [D EXCEPT !.top = F.top], fault |-> FALSE]

\* srv_update_scroll's full redraw, after it set dev->top_row.
ScrollDev(d, F, D) ==
    CopyLoop(d, RowMajor(0, 0, DevCols[d], DevRows[d]), 1, F, [D EXCEPT !.top = F.top], TRUE)

\* One device of srv_update (rect = <<>>) or of srv_damage.
ServeDev(d, rect, F, D) ==
    CASE D.top # F.top -> ScrollDev(d, F, D)
      [] rect = <<>>     -> CopyLoop(d, RowMajor(0, 0, DevCols[d], DevRows[d]), 1, F, D, FALSE)
      [] OTHER          -> CopyLoop(d, RowMajor(rect[1], rect[2], rect[3], rect[4]), 1, F, D, TRUE)

\* list_foreach(outdevs, ...) of srv_update and srv_damage.
RECURSIVE ForEachDev(_, _, _, _)
ForEachDev(i, rect, F, Ds) ==
    IF i > Len(outdevs) THEN [F |-> F, Ds |-> Ds, fault |-> FALSE]
    ELSE LET r == ServeDev(outdevs[i], rect, F, Ds[outdevs[i]])
         IN IF r.fault THEN [F |-> r.F, Ds |-> Ds, fault |-> TRUE]
            ELSE ForEachDev(i + 1, rect, r.F, [Ds EXCEPT ![outdevs[i]] = r.D])

-----------------------------------------------------------------------------
(* Device registration and the start of the server                         *)

\* outdev_register: malloc, get_dimensions, chargrid_create, list_append.
\* dev->top_row and dev->attrs are never initialised; a failed malloc or
\* chargrid_create returns NULL with nothing changed.
outdev_register(d) ==
    /\ d \notin Registered
    /\ \/ phase = "boot" /\ d \in InitialDevs
       \/ phase = "serving" /\ d \in LateDevs
    /\ \E t \in TopRows :
          dev' = [dev EXCEPT ![d] = [top |-> t,
                                     back |-> [j \in 0..DevCols[d] * DevRows[d] - 1 |-> Blank],
                                     cursor |-> "none", attrs |-> "undefined"]]
    /\ outdevs' = Append(outdevs, d)
    /\ UNCHANGED <<phase, frontbufs, fb, reply, clientDims, memFault>>

\* main: the initial devices are registered, then async_manager() runs.
StartServing ==
    /\ phase = "boot"
    /\ InitialDevs \subseteq Registered
    /\ phase' = "serving"
    /\ UNCHANGED <<outdevs, dev, frontbufs, fb, reply, clientDims, memFault>>

-----------------------------------------------------------------------------
(* IPC handlers                                                            *)

Answer(rc, val) == [rc |-> rc, val |-> val]

\* Calls arrive once main() has entered async_manager(); a call on a grid
\* needs a live handle, which only a call can create.
Serving == phase = "serving"

\* srv_yield and srv_claim: ret is the error of the last failing device.
DeviceOps ==
    /\ Serving
    /\ \E rcs \in [Registered -> {"EOK", "EIO"}] :
          reply' = Answer(IF \E d \in Registered : rcs[d] # "EOK" THEN "EIO" ELSE "EOK", "none")
    /\ UNCHANGED <<phase, outdevs, dev, frontbufs, fb, clientDims, memFault>>

srv_yield == DeviceOps

srv_claim == DeviceOps

MinOf(S) == CHOOSE m \in S : \A n \in S : m <= n

\* srv_get_dimensions: the least cols and rows over the devices, 0 without
\* devices; the client keeps the answer to size its grids.
srv_get_dimensions ==
    /\ Serving
    /\ LET dims == IF Registered = {} THEN [cols |-> 0, rows |-> 0]
                   ELSE [cols |-> MinOf({DevCols[d] : d \in Registered}),
                         rows |-> MinOf({DevRows[d] : d \in Registered})]
       IN /\ reply' = Answer("EOK", dims)
          /\ clientDims' = dims
    /\ UNCHANGED <<phase, outdevs, dev, frontbufs, fb, memFault>>

srv_get_caps ==
    /\ Serving
    /\ reply' = Answer("EOK", UNION {DevCaps[d] : d \in Registered})
    /\ UNCHANGED <<phase, outdevs, dev, frontbufs, fb, clientDims, memFault>>

\* resolve_frontbuf failed: the handle is not on frontbufs.
Unresolved(h) ==
    /\ Serving
    /\ h \notin frontbufs
    /\ reply' = Answer("ENOENT", "none")
    /\ UNCHANGED <<phase, outdevs, dev, frontbufs, fb, clientDims, memFault>>

\* srv_frontbuf_create: the client shares a grid it created (chargrid_create
\* clears every cell and marks it dirty) of the dimensions it obtained.
\* malloc, async_share_out_receive and async_share_out_finalize may fail.
srv_frontbuf_create ==
    /\ Serving
    /\ clientDims.cols > 0 /\ clientDims.rows > 0
    /\ frontbufs = {}
    /\ \/ /\ AllocFailures
          /\ \E rc \in {"ENOMEM", "EINVAL"} : reply' = Answer(rc, "none")
          /\ UNCHANGED <<frontbufs, fb>>
       \/ \E h \in Handles \ frontbufs :
            LET n == clientDims.cols * clientDims.rows IN
            /\ fb' = [fb EXCEPT ![h] = [cols |-> clientDims.cols, rows |-> clientDims.rows,
                                        top |-> 0, cell |-> [i \in 0..n - 1 |-> Blank],
                                        dirty |-> [i \in 0..n - 1 |-> TRUE],
                                        cursor |-> "none"]]
            /\ frontbufs' = frontbufs \cup {h}
            /\ reply' = Answer("EOK", h)
    /\ UNCHANGED <<phase, outdevs, dev, clientDims, memFault>>

\* srv_frontbuf_destroy: list_remove, as_area_destroy (the grid is gone), free.
srv_frontbuf_destroy(h) ==
    \/ Unresolved(h)
    \/ /\ h \in frontbufs
       /\ frontbufs' = frontbufs \ {h}
       /\ fb' = [fb EXCEPT ![h] = NoGrid]
       /\ reply' = Answer("EOK", "none")
       /\ UNCHANGED <<phase, outdevs, dev, clientDims, memFault>>

\* srv_cursor_update: every back buffer takes the grid's cursor.
srv_cursor_update(h) ==
    \/ Unresolved(h)
    \/ /\ h \in frontbufs
       /\ dev' = [d \in Devs |-> IF d \in Registered
                                 THEN [dev[d] EXCEPT !.cursor = fb[h].cursor] ELSE dev[d]]
       /\ reply' = Answer("EOK", "none")
       /\ UNCHANGED <<phase, outdevs, frontbufs, fb, clientDims, memFault>>

\* srv_set_style, srv_set_color, srv_set_rgb_color: the attribute type of
\* every device (the colour arguments are not distinguished).
SetAttrs(kind) ==
    /\ Serving
    /\ dev' = [d \in Devs |-> IF d \in Registered THEN [dev[d] EXCEPT !.attrs = kind] ELSE dev[d]]
    /\ reply' = Answer("EOK", "none")
    /\ UNCHANGED <<phase, outdevs, frontbufs, fb, clientDims, memFault>>

srv_set_style == SetAttrs("CHAR_ATTR_STYLE")

srv_set_color == SetAttrs("CHAR_ATTR_INDEX")

srv_set_rgb_color == SetAttrs("CHAR_ATTR_RGB")

\* srv_update (rect = <<>>) and srv_damage: every device in list order.
Serve(h, rect) ==
    \/ Unresolved(h)
    \/ /\ h \in frontbufs
       /\ LET r == ForEachDev(1, rect, fb[h], dev) IN
          /\ fb' = [fb EXCEPT ![h] = r.F]
          /\ dev' = r.Ds
          /\ memFault' = r.fault
       /\ reply' = Answer("EOK", "none")
       /\ UNCHANGED <<phase, outdevs, frontbufs, clientDims>>

srv_update(h) == Serve(h, <<>>)

srv_damage(h, rect) == Serve(h, rect)

-----------------------------------------------------------------------------
(* The client: the console writes its shared grid through chargrid         *)

\* chargrid_putuchar: a cell takes a glyph and becomes dirty.
PutChar(h) ==
    /\ h \in frontbufs
    /\ \E i \in DOMAIN fb[h].cell, g \in Glyphs :
          fb' = [fb EXCEPT ![h].cell[i] = g, ![h].dirty[i] = TRUE]
    /\ UNCHANGED <<phase, outdevs, dev, frontbufs, reply, clientDims, memFault>>

\* chargrid_newline on the last row: top_row advances and the new last row
\* is cleared, dirty.
Newline(h) ==
    /\ h \in frontbufs
    /\ LET F == [fb[h] EXCEPT !.top = (@ + 1) % fb[h].rows]
           last == {FIdx(F, x, F.rows - 1) : x \in 0..F.cols - 1}
       IN fb' = [fb EXCEPT ![h] = [F EXCEPT
                   !.cell = [i \in DOMAIN F.cell |-> IF i \in last THEN Blank ELSE F.cell[i]],
                   !.dirty = [i \in DOMAIN F.dirty |-> F.dirty[i] \/ i \in last]]]
    /\ UNCHANGED <<phase, outdevs, dev, frontbufs, reply, clientDims, memFault>>

\* chargrid_set_cursor / chargrid_set_cursor_visibility.
MoveCursor(h) ==
    /\ h \in frontbufs
    /\ \E c \in Cursors : fb' = [fb EXCEPT ![h].cursor = c]
    /\ UNCHANGED <<phase, outdevs, dev, frontbufs, reply, clientDims, memFault>>

-----------------------------------------------------------------------------

Init ==
    /\ phase = "boot"
    /\ outdevs = <<>>
    /\ dev = [d \in Devs |-> NoDev]
    /\ frontbufs = {}
    /\ fb = [h \in Handles |-> NoGrid]
    /\ reply = Answer("EOK", "none")
    /\ clientDims = [cols |-> 0, rows |-> 0]
    /\ memFault = FALSE

\* client_connection: one call at a time, dispatched on its method; a
\* handle argument is any address, live or not. The client's own steps on
\* its grid come between calls.
Next ==
    \/ \E d \in Devs : outdev_register(d)
    \/ StartServing
    \/ srv_yield
    \/ srv_claim
    \/ srv_get_dimensions
    \/ srv_get_caps
    \/ srv_frontbuf_create
    \/ \E h \in Handles : srv_frontbuf_destroy(h)
    \/ \E h \in Handles : srv_cursor_update(h)
    \/ srv_set_style
    \/ srv_set_color
    \/ srv_set_rgb_color
    \/ \E h \in Handles : srv_update(h)
    \/ \E h \in Handles, r \in Rects : srv_damage(h, r)
    \/ \E h \in Handles : PutChar(h) \/ Newline(h) \/ MoveCursor(h)

Spec == Init /\ [][Next]_vars

-----------------------------------------------------------------------------
(* Properties                                                              *)

\* No handler reads or writes a cell outside the array of a front or back
\* buffer: srv_update, srv_update_scroll and srv_damage index both grids
\* with chargrid_charfield_at, which does not check the column.
MemorySafe == ~memFault

\* The dirty-flag protocol: a cell of a live front buffer whose dirty flag is
\* clear is shown by every device that shows the buffer's current scroll
\* position (dev->top_row = top_row). srv_update clears a flag once it has
\* copied the cell; srv_update_scroll redraws a device whose top_row lags.
CleanCellsShown ==
    \A h \in frontbufs, d \in Registered :
        dev[d].top = fb[h].top =>
            \A x \in 0..fb[h].cols - 1, y \in 0..fb[h].rows - 1 :
                LET i == FIdx(fb[h], x, y)
                    j == BIdx(d, x, y)
                IN (~fb[h].dirty[i] /\ j \in DOMAIN dev[d].back)
                       => dev[d].back[j] = fb[h].cell[i]

=============================================================================
