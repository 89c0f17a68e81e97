-------------------------------- MODULE DhcpLink --------------------------------
(* The network interface: how the cable, the DHCP state machine of               *)
(* app_ethernet.c, lwIP's DHCP client (dhcp.c), the settings tab's check box and *)
(* the address shown on the display follow each other.                           *)
(*                                                                               *)
(* All of it runs in the main loop: lv_fm_non_task_process takes packets in, runs*)
(* lwIP's timers, looks at the link and runs the DHCP state machine, and then    *)
(* main calls lv_task_handler, which may stay away for as long as a task wants.  *)
(* pc is the part of the pass that comes next.  (A pass in which lv_task_handler *)
(* is skipped, because the last one ended within 5 ms, is taken as one with the  *)
(* pass after it.)                                                               *)
(*                                                                               *)
(* Time is counted in units of 500 ms, which lwIP's fine timer marks.  elapsed   *)
(* has the marks since each periodic handler last ran; with n marks passed, the  *)
(* time passed lies between n - 1 and n + 1 units, so a handler of period k runs *)
(* only if n >= k, and is passed over only if n <= k.                            *)
(*                                                                               *)
(* Operators whose comment starts with "Variant" are used by no action: each is  *)
(* the operator after it with a slip the code could have had.                    *)
EXTENDS Integers

CONSTANTS
  MaxTries,      \* where dhcp->tries is cut off, above any value it is compared with
  Patience,      \* fine timer ticks that a DHCP request waits (4 to 64 in the code)
  MaxRefusals,   \* bound: NAKs, address conflicts and leases that run out
  Toggles        \* whether the user uses the check box

ASSUME DhcpAssumption ==
  /\ MaxTries \in Nat /\ MaxTries > 5
  /\ Patience \in Nat /\ Patience > 0
  /\ MaxRefusals \in Nat
  /\ Toggles \in BOOLEAN

VARIABLES
  pc,
  elapsed,     \* marks since the last run: link and dhcp handles, net task, fine timer
  plugged,     \* the PHY has a link
  up,          \* NETIF_FLAG_LINK_UP and NETIF_FLAG_UP, which follow each other
  net,         \* app_netif: use_dhcp, link_up, link_down
  DHCP_state,
  addr,        \* the interface's address: "zero", "static", "lease"
  client,      \* lwIP's struct dhcp: state, tries, request_timeout, and whether
               \* the lease timers run
  shown,       \* the address is displayed in green
  refusals

vars == <<pc, elapsed, plugged, up, net, DHCP_state, addr, client, shown, refusals>>
iface == <<up, net, DHCP_state, addr, client>>

DhcpStates == {"OFF", "START", "WAIT_ADDRESS", "ADDRESS_ASSIGNED", "TIMEOUT", "LINK_DOWN"}
ClientStates == {"none", "OFF", "SELECTING", "REQUESTING", "CHECKING", "BACKING_OFF",
                 "BOUND", "RENEWING", "REBINDING", "REBOOTING"}

TypeOK ==
  /\ pc \in {"timeouts", "link", "dhcp", "lvgl"}
  /\ elapsed \in [link: 0..3, dhcp: 0..2, task: 0..2, fine: 0..1]
  /\ plugged \in BOOLEAN /\ up \in BOOLEAN /\ shown \in BOOLEAN
  /\ net \in [use_dhcp: BOOLEAN, link_up: BOOLEAN, link_down: BOOLEAN]
  /\ DHCP_state \in DhcpStates
  /\ addr \in {"zero", "static", "lease"}
  /\ client \in [state: ClientStates, tries: 0..MaxTries, timer: 0..Patience, timed: BOOLEAN]
  /\ refusals \in 0..MaxRefusals

NoClient == [state |-> "none", tries |-> 0, timer |-> 0, timed |-> FALSE]

\* Netif_Config, with the cable in or not.
Init ==
  /\ pc = "timeouts"
  /\ elapsed = [link |-> 0, dhcp |-> 0, task |-> 0, fine |-> 0]
  /\ plugged \in BOOLEAN /\ up = plugged
  /\ net = [use_dhcp |-> TRUE, link_up |-> FALSE, link_down |-> ~plugged]
  /\ DHCP_state = IF plugged THEN "START" ELSE "LINK_DOWN"
  /\ addr = "zero" /\ client = NoClient
  /\ shown = FALSE /\ refusals = 0

Least(m, n) == IF m <= n THEN m ELSE n

--------------------------------------------------------------------------------
(* lwIP's DHCP client.                                                          *)

Off == [NoClient EXCEPT !.state = "OFF"]

\* dhcp_set_state
SetState(c, s) ==
  IF s = c.state THEN c ELSE [c EXCEPT !.state = s, !.tries = 0, !.timer = 0]

\* Variant: nothing keeps tries from running over.
AskUnbounded(c, s, ticks) ==
  LET n == SetState(c, s) IN [n EXCEPT !.tries = @ + 1, !.timer = ticks]

\* A message is sent in state s, for the first time or again.
Ask(c, s, ticks) ==
  LET n == SetState(c, s)
  IN [n EXCEPT !.tries = Least(@ + 1, MaxTries), !.timer = ticks]

Discover(c) == Ask(c, "SELECTING", Patience)
Select(c) == Ask(c, "REQUESTING", Patience)
Reboot(c) == Ask(c, "REBOOTING", Patience)
Renew(c) == Ask(c, "RENEWING", Patience)
Rebind(c) == Ask(c, "REBINDING", Patience)
Check(c) == Ask(c, "CHECKING", 1)
Decline(c) == Ask(c, "BACKING_OFF", Patience)

Bound(c) == [SetState(c, "BOUND") EXCEPT !.timed = TRUE]

\* dhcp_supplied_address
Supplied(c) == c.state \in {"BOUND", "RENEWING", "REBINDING"}

\* dhcp_start, which refuses an interface that is down
Started(c) == IF up THEN Discover(Off) ELSE c

\* dhcp_bind
Bind == client' = Bound(client) /\ addr' = "lease"

\* dhcp_release_and_stop, then dhcp_start
Restart == client' = Started(Off) /\ addr' = "zero"

\* dhcp_release_and_stop
Stop == IF client.state \in {"none", "OFF"} THEN UNCHANGED <<client, addr>>
        ELSE client' = Off /\ addr' = "zero"

\* dhcp_network_changed
NetworkChanged(c) ==
  CASE c.state \in {"none", "OFF"} -> c
    [] Supplied(c) \/ c.state = "REBOOTING" -> Reboot([c EXCEPT !.tries = 0])
    [] OTHER -> Discover([c EXCEPT !.tries = 0])

\* dhcp_timeout
RequestTimeout(c) ==
  CASE c.state \in {"BACKING_OFF", "SELECTING"} -> client' = Discover(c) /\ UNCHANGED addr
    [] c.state = "REQUESTING" /\ c.tries <= 5 -> client' = Select(c) /\ UNCHANGED addr
    [] c.state = "REQUESTING" /\ c.tries > 5 -> Restart
    [] c.state = "CHECKING" /\ c.tries <= 1 -> client' = Check(c) /\ UNCHANGED addr
    [] c.state = "CHECKING" /\ c.tries > 1 -> client' = Bound(c) /\ addr' = "lease"
    [] c.state = "REBOOTING" /\ c.tries < 2 -> client' = Reboot(c) /\ UNCHANGED addr
    [] c.state = "REBOOTING" /\ c.tries >= 2 -> client' = Discover(c) /\ UNCHANGED addr
    [] OTHER -> client' = c /\ UNCHANGED addr

--------------------------------------------------------------------------------
(* ethernetif_input: a server's answer, or another host's, is received by lwIP  *)
(* (dhcp_recv, dhcp_arp_reply).                                                 *)

Receives == pc = "timeouts" /\ plugged /\ up

Others == <<pc, elapsed, plugged, up, net, DHCP_state, shown>>

Offer ==
  /\ Receives /\ client.state = "SELECTING"
  /\ client' = Select(client)
  /\ UNCHANGED <<addr, refusals>> /\ UNCHANGED Others

Ack ==
  /\ Receives
  /\ \/ /\ client.state = "REQUESTING"
        /\ client' = Check(client) /\ UNCHANGED addr
     \/ /\ client.state \in {"REBOOTING", "REBINDING", "RENEWING"}
        /\ Bind
  /\ UNCHANGED refusals /\ UNCHANGED Others

Refused == refusals < MaxRefusals /\ refusals' = refusals + 1

Nak ==
  /\ Receives /\ Refused
  /\ client.state \in {"REBOOTING", "REQUESTING", "REBINDING", "RENEWING"}
  /\ client' = Discover(Decline(client)) /\ addr' = "zero"
  /\ UNCHANGED Others

Conflict ==
  /\ Receives /\ Refused
  /\ client.state = "CHECKING"
  /\ client' = Decline(client)
  /\ UNCHANGED addr /\ UNCHANGED Others

--------------------------------------------------------------------------------
(* sys_check_timeouts                                                           *)

\* dhcp_coarse_tmr: the lease runs out, or it is time to rebind or renew it.
CoarseTmr ==
  /\ pc = "timeouts" /\ client.timed
  /\ \/ Refused /\ Restart
     \/ /\ client.state \in {"REQUESTING", "BOUND", "RENEWING", "REBINDING"}
        /\ client' = Rebind(client) /\ UNCHANGED <<addr, refusals>>
     \/ /\ client.state \in {"REQUESTING", "BOUND", "RENEWING"}
        /\ client' = Renew(client) /\ UNCHANGED <<addr, refusals>>
  /\ UNCHANGED Others

\* dhcp_fine_tmr
FineTmr ==
  CASE client.timer > 1 -> client' = [client EXCEPT !.timer = @ - 1] /\ UNCHANGED addr
    [] client.timer = 1 -> RequestTimeout([client EXCEPT !.timer = 0])
    [] OTHER -> UNCHANGED <<client, addr>>

Timeouts ==
  /\ pc = "timeouts" /\ pc' = "link"
  /\ IF elapsed.fine = 1 THEN FineTmr ELSE UNCHANGED <<client, addr>>
  /\ elapsed' = [elapsed EXCEPT !.fine = 0]
  /\ UNCHANGED <<plugged, up, net, DHCP_state, shown, refusals>>

--------------------------------------------------------------------------------
(* Ethernet_Link_Periodic_Handle                                                *)

LinkDown ==
  /\ up /\ ~plugged
  /\ up' = FALSE
  /\ DHCP_state' = IF net.use_dhcp THEN "LINK_DOWN" ELSE DHCP_state
  /\ net' = [net EXCEPT !.link_down = TRUE]
  /\ UNCHANGED <<addr, client>>

LinkUp ==
  /\ ~up /\ plugged
  /\ up' = TRUE
  /\ client' = NetworkChanged(client)
  /\ IF net.use_dhcp THEN DHCP_state' = "START" /\ UNCHANGED addr
                     ELSE addr' = "static" /\ UNCHANGED DHCP_state
  /\ UNCHANGED net

\* ethernet_link_check_state
CheckState ==
  \/ LinkDown
  \/ LinkUp
  \/ up = plugged /\ UNCHANGED iface

Link ==
  /\ pc = "link" /\ pc' = "dhcp"
  /\ \/ /\ elapsed.link >= 2
        /\ CheckState
        /\ elapsed' = [elapsed EXCEPT !.link = 0]
     \/ elapsed.link <= 2 /\ UNCHANGED <<elapsed, iface>>
  /\ UNCHANGED <<plugged, shown, refusals>>

--------------------------------------------------------------------------------
(* DHCP_Periodic_Handle: one step of DHCP_Process, by its state.                *)

\* Variant: the old address is kept until there is a new one.
ProcessStartKeeps ==
  /\ DHCP_state = "START" /\ DHCP_state' = "WAIT_ADDRESS"
  /\ client' = Started(client)
  /\ UNCHANGED <<net, addr>>

\* Variant: a client that runs is not started again.
ProcessStartOnce ==
  /\ DHCP_state = "START" /\ DHCP_state' = "WAIT_ADDRESS"
  /\ addr' = "zero" /\ client' = IF client.state \in {"none", "OFF"} THEN Started(client) ELSE client
  /\ UNCHANGED net

ProcessStart ==
  /\ DHCP_state = "START" /\ DHCP_state' = "WAIT_ADDRESS"
  /\ addr' = "zero" /\ client' = Started(client)
  /\ UNCHANGED net

ProcessSupplied ==
  /\ DHCP_state = "WAIT_ADDRESS" /\ Supplied(client)
  /\ DHCP_state' = "ADDRESS_ASSIGNED"
  /\ net' = [net EXCEPT !.link_up = TRUE]
  /\ UNCHANGED <<addr, client>>

\* dhcp->tries > MAX_DHCP_TRIES; without a client, what lies at address 0 is read.
GivesUp == client.tries > 4 \/ client.state = "none"

\* Variant: the client is left to itself.
ProcessGiveUpRuns ==
  /\ DHCP_state = "WAIT_ADDRESS" /\ ~Supplied(client) /\ GivesUp
  /\ DHCP_state' = "TIMEOUT"
  /\ addr' = "static"
  /\ UNCHANGED <<net, client>>

ProcessGiveUp ==
  /\ DHCP_state = "WAIT_ADDRESS" /\ ~Supplied(client) /\ GivesUp
  /\ DHCP_state' = "TIMEOUT"
  /\ client' = IF client.state = "none" THEN client ELSE Off
  /\ addr' = "static"
  /\ UNCHANGED net

\* Variant: a request is waited for without limit.
ProcessWaitAlways ==
  /\ DHCP_state = "WAIT_ADDRESS" /\ ~Supplied(client)
  /\ UNCHANGED <<net, DHCP_state, addr, client>>

ProcessWait ==
  /\ DHCP_state = "WAIT_ADDRESS" /\ ~Supplied(client) /\ client.tries <= 4
  /\ UNCHANGED <<net, DHCP_state, addr, client>>

ProcessLinkDown ==
  /\ DHCP_state = "LINK_DOWN" /\ DHCP_state' = "OFF"
  /\ Stop
  /\ UNCHANGED net

ProcessElse ==
  /\ DHCP_state \in {"OFF", "ADDRESS_ASSIGNED", "TIMEOUT"}
  /\ UNCHANGED <<net, DHCP_state, addr, client>>

DHCP_Process ==
  \/ ProcessStart
  \/ ProcessSupplied
  \/ ProcessGiveUp
  \/ ProcessWait
  \/ ProcessLinkDown
  \/ ProcessElse

Dhcp ==
  /\ pc = "dhcp" /\ pc' = "lvgl"
  /\ \/ /\ net.use_dhcp /\ elapsed.dhcp >= 1
        /\ DHCP_Process /\ UNCHANGED up
        /\ elapsed' = [elapsed EXCEPT !.dhcp = 0]
     \/ ~net.use_dhcp /\ UNCHANGED <<elapsed, iface>>
     \/ elapsed.dhcp <= 1 /\ UNCHANGED <<elapsed, iface>>
  /\ UNCHANGED <<plugged, shown, refusals>>

--------------------------------------------------------------------------------
(* lv_task_handler                                                              *)

\* Variant: the link that went is shown before the one that came.
NetTaskDownFirst ==
  CASE net.link_down -> shown' = FALSE /\ net' = [net EXCEPT !.link_down = FALSE]
    [] ~net.link_down /\ net.link_up -> shown' = TRUE /\ net' = [net EXCEPT !.link_up = FALSE]
    [] OTHER -> UNCHANGED <<shown, net>>

\* lv_fm_net_task
NetTask ==
  CASE net.link_up -> shown' = TRUE /\ net' = [net EXCEPT !.link_up = FALSE]
    [] ~net.link_up /\ net.link_down -> shown' = FALSE /\ net' = [net EXCEPT !.link_down = FALSE]
    [] OTHER -> UNCHANGED <<shown, net>>

\* The time until the next pass: d marks.
After(d, e) == [link |-> Least(e.link + d, 3), dhcp |-> Least(e.dhcp + d, 2),
                task |-> Least(e.task + d, 2), fine |-> Least(e.fine + d, 1)]

Lvgl(d) ==
  /\ pc = "lvgl" /\ pc' = "timeouts"
  /\ \/ /\ elapsed.task >= 1
        /\ NetTask
        /\ elapsed' = After(d, [elapsed EXCEPT !.task = 0])
     \/ /\ elapsed.task <= 1
        /\ elapsed' = After(d, elapsed)
        /\ UNCHANGED <<shown, net>>
  /\ UNCHANGED <<plugged, up, DHCP_state, addr, client, refusals>>

\* lv_fm_checkbox_event_cb: the box only sets the flag.
Checkbox ==
  /\ Toggles /\ pc = "lvgl"
  /\ net' = [net EXCEPT !.use_dhcp = ~@]
  /\ UNCHANGED <<pc, elapsed, plugged, up, DHCP_state, addr, client, shown, refusals>>

\* The cable is pulled or plugged in.
Cable ==
  /\ plugged' = ~plugged
  /\ UNCHANGED <<pc, elapsed, up, net, DHCP_state, addr, client, shown, refusals>>

Pass == Timeouts \/ Link \/ Dhcp \/ \E d \in 0..2 : Lvgl(d)

Next ==
  \/ Pass
  \/ Offer \/ Ack \/ Nak \/ Conflict
  \/ CoarseTmr
  \/ Checkbox
  \/ Cable

Spec == Init /\ [][Next]_vars

\* The main loop goes on, and time does.
FairSpec == Spec /\ WF_vars(Pass) /\ SF_vars(\E d \in 1..2 : Lvgl(d))

--------------------------------------------------------------------------------
(* What makes it correct                                                        *)

\* An address that lwIP's client no longer holds a lease for is in use only until
\* the next step of DHCP_Process, which is then due to clear it: after a replug
\* (START) or an unplugging (LINK_DOWN).  It holds although the client lives on in
\* every state while the link goes and comes, while the box is unticked, and when
\* several handlers have become due during one long call of lv_task_handler.
NoStaleLease ==
  addr = "lease" /\ ~Supplied(client) => DHCP_state \in {"START", "LINK_DOWN"}

\* Once DHCP has been given up nothing takes the static address away again but a
\* change of the link: the client is off, and stays off when the network changes.
FallbackStays ==
  DHCP_state = "TIMEOUT" => addr = "static" /\ client.state \in {"none", "OFF"}

\* Once DHCP_Process has been told that the link is gone (LINK_DOWN, OFF), the address
\* is not shown in green, but for a notice that is still pending: link_up and link_down
\* never reach lv_fm_net_task in the wrong order, however long lv_task_handler stays
\* away.  Of the other states it says nothing: DHCP_Process is not told of a link that
\* goes while the box is clear, and may then show the old lease as present for good.
GoneIsNotShown ==
  DHCP_state \in {"LINK_DOWN", "OFF"} => ~shown \/ net.link_down

\* An address was refused or ran out (refusals), and the client has not been bound again:
\* DHCP_Process does not look at it any more, and the interface has no address, and no
\* fallback, until the client gets a lease by itself.  The client may be in REBINDING or
\* RENEWING: a NAK leaves the timers of the old lease running.
LeaseLost ==
  /\ DHCP_state = "ADDRESS_ASSIGNED" /\ addr = "zero"
  /\ refusals > 0 /\ client.state # "BOUND"

\* While the box stays ticked and the cable in, the interface comes to a lease or to
\* the static address, and stays with it unless the lease is lost: whatever the server
\* answers or leaves out, DHCP_Process does not wait for ever, and before anything was
\* refused it does not take an interface without an address for one that has a lease.
AddressComes ==
  []net.use_dhcp /\ <>[]plugged =>
    <>[](\/ DHCP_state = "ADDRESS_ASSIGNED" /\ addr = "lease"
         \/ DHCP_state = "TIMEOUT" /\ addr = "static"
         \/ LeaseLost)
================================================================================
