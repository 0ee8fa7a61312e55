------------------------------ MODULE InetLink ------------------------------
(***************************************************************************)
(* IP link discovery of uspace/srv/net/inetsrv/inet_link.c. Two fibrils   *)
(* run inet_link_check_new under inet_discovery_lock: the main fibril in  *)
(* inet_link_discovery_start, and the location service's callback fibril *)
(* once per category change. A scan takes the list of iplink services and *)
(* opens every one not yet on inet_link_list; inet_link_open appends the  *)
(* link, then adds its IPv4 and IPv6 address objects, and configures them *)
(* on the link by IPC. Clients look links up under the same lock and send *)
(* datagrams over them in fragments.                                        *)
(***************************************************************************)
EXTENDS Integers, Sequences, SequencesExt, FiniteSets

CONSTANTS
    Services,     \* iplink services the location service may list
    Failures,     \* whether loc and iplink calls and address adds may fail
    DgramSizes,   \* datagram sizes a client sends
    FragPayload   \* payload bytes of one fragment at the link's MTU

Scanners == {"main", "cb"}

NoLink == "none"

VARIABLES
    registered, \* services in the "iplink" category of the location service
    cbOn,       \* loc_register_cat_change_cb succeeded
    pending,    \* category changes not yet delivered to the callback fibril
    lock,       \* holder of inet_discovery_lock, or "none"
    sc,         \* sc[p]: pc, svcs snapshot and index i of scanner fibril p
    links,      \* inet_link_list: [svc, v4, v6, loopback] in list order
    first,      \* the static "first" of inet_link_open
    attempted,  \* ghost: services inet_link_open was called for
    missed,     \* ghost: services a failed scan did not look at
    lookup,     \* last inet_link_get_by_id: the link, and whether its open was running
    sent        \* result of the last inet_link_send_dgram

vars == <<registered, cbOn, pending, lock, sc, links, first, attempted, missed, lookup, sent>>

Known == {links[k].svc : k \in DOMAIN links}

\* A fibril between its inet_link_open IPC calls to iplink_addr_add.
Configuring == {links[Len(links)].svc : p \in {q \in Scanners : sc[q].pc \in {"ip4", "ip6"}}}

SetPc(p, pc) == sc' = [sc EXCEPT ![p].pc = pc]

\* Return from inet_link_check_new: the callback fibril waits for the next
\* change, the main fibril is done.
Finish(p) == IF p = "main" THEN "done" ELSE "idle"

Unlock(p) ==
    /\ lock' = "none"
    /\ SetPc(p, Finish(p))

-----------------------------------------------------------------------------
(* Discovery                                                               *)

\* inet_link_discovery_start: register the callback, then scan.
DiscoveryStart ==
    /\ sc["main"].pc = "start"
    /\ \/ cbOn' = TRUE /\ SetPc("main", "lock")
       \/ Failures /\ SetPc("main", "done") /\ UNCHANGED cbOn
    /\ UNCHANGED <<registered, pending, lock, links, first, attempted, missed, lookup, sent>>

\* inet_link_cat_change_cb, called once per category change.
CatChangeCb ==
    /\ sc["cb"].pc = "idle"
    /\ pending > 0
    /\ pending' = pending - 1
    /\ SetPc("cb", "lock")
    /\ UNCHANGED <<registered, cbOn, lock, links, first, attempted, missed, lookup, sent>>

\* fibril_mutex_lock(&inet_discovery_lock)
Lock(p) ==
    /\ sc[p].pc = "lock"
    /\ lock = "none"
    /\ lock' = p
    /\ SetPc(p, "cat")
    /\ UNCHANGED <<registered, cbOn, pending, links, first, attempted, missed, lookup, sent>>

\* loc_category_get_id and loc_category_get_svcs; on failure the scan
\* unlocks and returns, and the services not yet known are not looked at.
GetSvcs(p) ==
    /\ sc[p].pc = "cat"
    /\ \/ /\ \E svcs \in SetToSeqs(registered) :
                sc' = [sc EXCEPT ![p] = [pc |-> "next", svcs |-> svcs, i |-> 1]]
          /\ UNCHANGED <<lock, missed>>
       \/ /\ Failures
          /\ Unlock(p)
          /\ missed' = missed \cup (registered \ Known)
    /\ UNCHANGED <<registered, cbOn, pending, links, first, attempted, lookup, sent>>

\* Mutant: the already_known walk stops at the head of inet_link_list.
Next_iHeadOnly(p) ==
    /\ sc[p].pc = "next"
    /\ IF sc[p].i > Len(sc[p].svcs)
       THEN Unlock(p) /\ UNCHANGED attempted
       ELSE /\ lock' = lock
            /\ IF links # <<>> /\ sc[p].svcs[sc[p].i] = Head(links).svc
               THEN sc' = [sc EXCEPT ![p].i = @ + 1] /\ UNCHANGED attempted
               ELSE SetPc(p, "open") /\ attempted' = attempted \cup {sc[p].svcs[sc[p].i]}
    /\ UNCHANGED <<registered, cbOn, pending, links, first, missed, lookup, sent>>

\* Mutant: the loop stops one service short of count.
Next_iShort(p) ==
    /\ sc[p].pc = "next"
    /\ IF sc[p].i >= Len(sc[p].svcs)
       THEN Unlock(p) /\ UNCHANGED attempted
       ELSE /\ lock' = lock
            /\ IF sc[p].svcs[sc[p].i] \in Known
               THEN sc' = [sc EXCEPT ![p].i = @ + 1] /\ UNCHANGED attempted
               ELSE SetPc(p, "open") /\ attempted' = attempted \cup {sc[p].svcs[sc[p].i]}
    /\ UNCHANGED <<registered, cbOn, pending, links, first, missed, lookup, sent>>

\* The for loop: a service already on inet_link_list is skipped, any other
\* is opened; after the last one the scan unlocks.
Next_i(p) ==
    /\ sc[p].pc = "next"
    /\ IF sc[p].i > Len(sc[p].svcs)
       THEN Unlock(p) /\ UNCHANGED attempted
       ELSE /\ lock' = lock
            /\ IF sc[p].svcs[sc[p].i] \in Known
               THEN sc' = [sc EXCEPT ![p].i = @ + 1] /\ UNCHANGED attempted
               ELSE SetPc(p, "open") /\ attempted' = attempted \cup {sc[p].svcs[sc[p].i]}
    /\ UNCHANGED <<registered, cbOn, pending, links, first, missed, lookup, sent>>

\* Back from inet_link_open to the loop.
Return(p) == sc' = [sc EXCEPT ![p].pc = "next", ![p].i = @ + 1]

\* Mutant: "first" is never cleared, so every link gets the loopback pair.
LinkOpenFirstKept(p) ==
    /\ sc[p].pc = "open"
    /\ LET new(v4, v6) == [svc |-> sc[p].svcs[sc[p].i], v4 |-> v4, v6 |-> v6, loopback |-> first]
       IN \/ Failures /\ Return(p) /\ UNCHANGED links
          \/ Failures /\ links' = Append(links, new("freed", "leaked")) /\ Return(p)
          \/ Failures /\ links' = Append(links, new("added", "freed")) /\ Return(p)
          \/ links' = Append(links, new("added", "added")) /\ SetPc(p, "ip4")
    /\ UNCHANGED <<registered, cbOn, pending, lock, first, attempted, missed, lookup, sent>>

(* inet_link_open up to its first IPC on the new addresses: inet_link_new, *)
(* loc_service_get_name, loc_service_connect, iplink_open, iplink_get_mtu *)
(* (any failing: close, delete, return); then list_append, two            *)
(* inet_addrobj_new, the address chosen by "first", and inet_addrobj_add  *)
(* of both. A failed add deletes that object and returns, with no roll    *)
(* back: the link stays listed, and after a failed IPv4 add the IPv6      *)
(* object is neither added nor freed.                                      *)
LinkOpen(p) ==
    /\ sc[p].pc = "open"
    /\ LET new(v4, v6) == [svc |-> sc[p].svcs[sc[p].i], v4 |-> v4, v6 |-> v6, loopback |-> first]
       IN \/ Failures /\ Return(p) /\ UNCHANGED <<links, first>>
          \/ Failures /\ links' = Append(links, new("freed", "leaked")) /\ first' = FALSE /\ Return(p)
          \/ Failures /\ links' = Append(links, new("added", "freed")) /\ first' = FALSE /\ Return(p)
          \/ links' = Append(links, new("added", "added")) /\ first' = FALSE /\ SetPc(p, "ip4")
    /\ UNCHANGED <<registered, cbOn, pending, lock, attempted, missed, lookup, sent>>

\* iplink_addr_add of the IPv4, then of the IPv6 address; a failure removes
\* and deletes that address object and returns.
IplinkAddrAdd(p) ==
    /\ sc[p].pc \in {"ip4", "ip6"}
    /\ LET fam == IF sc[p].pc = "ip4" THEN "v4" ELSE "v6"
           k == Len(links)
       IN \/ /\ Failures
             /\ links' = [links EXCEPT ![k] = [@ EXCEPT ![fam] = "freed"]]
             /\ Return(p)
          \/ /\ UNCHANGED links
             /\ IF fam = "v4" THEN SetPc(p, "ip6") ELSE Return(p)
    /\ UNCHANGED <<registered, cbOn, pending, lock, first, attempted, missed, lookup, sent>>

-----------------------------------------------------------------------------
(* The environment and the clients                                         *)

\* A new iplink service appears; the location service notifies the
\* registered callback.
ServiceAppear ==
    /\ \E s \in Services \ registered : registered' = registered \cup {s}
    /\ pending' = IF cbOn THEN pending + 1 ELSE pending
    /\ UNCHANGED <<cbOn, lock, sc, links, first, attempted, missed, lookup, sent>>

\* Mutant: the lookup walks the list without taking the mutex.
GetByIdUnlocked ==
    /\ \E id \in Services :
          lookup' = [link |-> IF id \in Known THEN id ELSE NoLink,
                     busy |-> id \in Configuring]
    /\ UNCHANGED <<registered, cbOn, pending, lock, sc, links, first, attempted, missed, sent>>

\* inet_link_get_by_id: under the mutex, the link with svc_id = id or NULL.
inet_link_get_by_id ==
    /\ lock = "none"
    /\ \E id \in Services :
          lookup' = [link |-> IF id \in Known THEN id ELSE NoLink,
                     busy |-> id \in Configuring]
    /\ UNCHANGED <<registered, cbOn, pending, lock, sc, links, first, attempted, missed, sent>>

\* inet_link_send_dgram: inet_pdu_encode one fragment (may fail: return),
\* iplink_send it, continue while offs < size; the result is the rc of the
\* last iplink_send. "lost" records whether an earlier fragment failed.
inet_link_send_dgram ==
    /\ Known # {}
    /\ \E size \in DgramSizes :
         LET n == (size + FragPayload - 1) \div FragPayload IN
         \/ Failures /\ sent' = [rc |-> "EENCODE", lost |-> FALSE]
         \/ \E rcs \in [1..n -> IF Failures THEN {"EOK", "EIO"} ELSE {"EOK"}] :
               sent' = [rc |-> rcs[n], lost |-> \E k \in 1..n - 1 : rcs[k] # "EOK"]
    /\ UNCHANGED <<registered, cbOn, pending, lock, sc, links, first, attempted, missed, lookup>>

-----------------------------------------------------------------------------

Init ==
    /\ registered = {}
    /\ cbOn = FALSE
    /\ pending = 0
    /\ lock = "none"
    /\ sc = [p \in Scanners |-> [pc |-> IF p = "main" THEN "start" ELSE "idle",
                                 svcs |-> <<>>, i |-> 1]]
    /\ links = <<>>
    /\ first = TRUE
    /\ attempted = {}
    /\ missed = {}
    /\ lookup = [link |-> NoLink, busy |-> FALSE]
    /\ sent = [rc |-> "none", lost |-> FALSE]

Scan(p) == Lock(p) \/ GetSvcs(p) \/ Next_i(p) \/ LinkOpen(p) \/ IplinkAddrAdd(p)

Next ==
    \/ DiscoveryStart
    \/ CatChangeCb
    \/ \E p \in Scanners : Scan(p)
    \/ ServiceAppear
    \/ inet_link_get_by_id
    \/ inet_link_send_dgram

\* Fibrils that can run are scheduled, and every IPC they wait on is
\* answered; the location service and the clients need not act.
Fairness ==
    /\ WF_vars(DiscoveryStart)
    /\ WF_vars(CatChangeCb)
    /\ \A p \in Scanners : WF_vars(Scan(p))

Spec == Init /\ [][Next]_vars /\ Fairness

-----------------------------------------------------------------------------
(* Properties                                                              *)

\* No iplink service is opened twice: the already_known check of one scan
\* and the list_append of another are never interleaved, since both run
\* under inet_discovery_lock across the IPC calls of inet_link_open.
NoDuplicateLinks == IsInjective([k \in DOMAIN links |-> links[k].svc])

\* inet_link_get_by_id never hands out a link whose inet_link_open is still
\* waiting on iplink_addr_add for its addresses.
LookupNotConfiguring == ~lookup.busy

\* The static first of inet_link_open gives 127.0.0.1/24 and ::1/128 to one
\* link only, the first one appended to inet_link_list by either scan,
\* whichever service that is and whether or not its addresses were added;
\* every later link gets the fixed 10.0.2.15 and fd19:1680::4 addresses.
LoopbackOnFirstLink ==
    \A k \in DOMAIN links : links[k].loopback <=> k = 1

\* Once the category change callback is registered, every iplink service
\* that appears is eventually opened by a scan, unless a scan that should
\* have seen it failed in loc_category_get_id or loc_category_get_svcs.
EveryServiceTried ==
    \A s \in Services : (cbOn /\ s \in registered) ~> (s \in attempted \cup missed)

=============================================================================
