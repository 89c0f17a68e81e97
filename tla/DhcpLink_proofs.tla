----------------------------- MODULE DhcpLink_proofs -----------------------------
(* Proofs about DhcpLink: its type correctness and its safety properties, for    *)
(* any patience, any number of refusals, and a user who uses the check box or    *)
(* does not.                                                                     *)
EXTENDS DhcpLink, TLAPS

Ticks == 0..Patience
Clients == [state: ClientStates, tries: 0..MaxTries, timer: Ticks, timed: BOOLEAN]
Nets == [use_dhcp: BOOLEAN, link_up: BOOLEAN, link_down: BOOLEAN]

\* A client that is not there, or off, holds no address and runs no timers of a lease.
Idle == client.state \in {"none", "OFF"} => addr # "lease" /\ ~client.timed

\* While the link is gone for DHCP_Process, a rise that lv_fm_net_task has still to
\* show is followed by a fall.
RiseThenFall == DHCP_state \in {"LINK_DOWN", "OFF"} => ~net.link_up \/ net.link_down

IInv ==
  /\ TypeOK
  /\ Idle
  /\ NoStaleLease
  /\ FallbackStays
  /\ RiseThenFall
  /\ GoneIsNotShown

--------------------------------------------------------------------------------
(* The client's operators.                                                      *)

LEMMA Ranges ==
  /\ 0 \in 0..MaxTries
  /\ 0 \in Ticks /\ 1 \in Ticks /\ Patience \in Ticks
  BY DhcpAssumption DEF Ticks

LEMMA SetStateFacts ==
  ASSUME NEW c \in Clients, NEW s \in ClientStates
  PROVE  /\ SetState(c, s) \in Clients
         /\ SetState(c, s).state = s
         /\ SetState(c, s).timed = c.timed
<1>1. CASE s = c.state
  BY <1>1 DEF SetState
<1>2. CASE s # c.state
  <2> DEFINE n == [c EXCEPT !.state = s, !.tries = 0, !.timer = 0]
  <2>1. SetState(c, s) = n
    BY <1>2 DEF SetState
  <2>2. n.state = s /\ n.timed = c.timed
    BY DEF Clients
  <2>3. n \in Clients
    BY Ranges DEF Clients
  <2> QED
    BY <2>1, <2>2, <2>3
<1> QED
  BY <1>1, <1>2

LEMMA AskFacts ==
  ASSUME NEW c \in Clients, NEW s \in ClientStates, NEW t \in Ticks
  PROVE  /\ Ask(c, s, t) \in Clients
         /\ Ask(c, s, t).state = s
         /\ Ask(c, s, t).timed = c.timed
<1> DEFINE n == SetState(c, s)
           a == [n EXCEPT !.tries = Least(@ + 1, MaxTries), !.timer = t]
<1>1. n \in Clients /\ n.state = s /\ n.timed = c.timed
  BY SetStateFacts
<1>2. Ask(c, s, t) = a
  BY DEF Ask
<1> HIDE DEF n
<1>3. Least(n.tries + 1, MaxTries) \in 0..MaxTries
  <2>1. n.tries \in 0..MaxTries
    BY <1>1 DEF Clients
  <2> QED
    BY <2>1, DhcpAssumption DEF Least
<1>4. a \in Clients
  BY <1>1, <1>3 DEF Clients
<1>5. a.state = n.state /\ a.timed = n.timed
  BY <1>1 DEF Clients
<1> QED
  BY <1>1, <1>2, <1>4, <1>5

LEMMA BoundFacts ==
  ASSUME NEW c \in Clients
  PROVE  Bound(c) \in Clients /\ Bound(c).state = "BOUND"
<1>1. SetState(c, "BOUND") \in Clients /\ SetState(c, "BOUND").state = "BOUND"
  BY SetStateFacts DEF ClientStates
<1> QED
  BY <1>1 DEF Bound, Clients

LEMMA OffFacts == Off \in Clients /\ Off.state = "OFF" /\ ~Off.timed
<1>1. Off.state = "OFF" /\ ~Off.timed
  BY DEF Off, NoClient
<1>2. NoClient \in Clients
  BY Ranges DEF NoClient, Clients, ClientStates
<1>3. Off \in Clients
  BY <1>2 DEF Off, Clients, ClientStates
<1> QED
  BY <1>1, <1>3

\* The messages, each in its state.
LEMMA MessageFacts ==
  ASSUME NEW c \in Clients
  PROVE  /\ Discover(c) \in Clients /\ Discover(c).state = "SELECTING"
         /\ Select(c) \in Clients /\ Select(c).state = "REQUESTING"
         /\ Reboot(c) \in Clients /\ Reboot(c).state = "REBOOTING"
         /\ Renew(c) \in Clients /\ Renew(c).state = "RENEWING"
         /\ Rebind(c) \in Clients /\ Rebind(c).state = "REBINDING"
         /\ Check(c) \in Clients /\ Check(c).state = "CHECKING"
         /\ Decline(c) \in Clients /\ Decline(c).state = "BACKING_OFF"
<1>1. /\ "SELECTING" \in ClientStates /\ "REQUESTING" \in ClientStates
      /\ "REBOOTING" \in ClientStates /\ "RENEWING" \in ClientStates
      /\ "REBINDING" \in ClientStates /\ "CHECKING" \in ClientStates
      /\ "BACKING_OFF" \in ClientStates
  BY DEF ClientStates
<1>2. Discover(c) \in Clients /\ Discover(c).state = "SELECTING"
  BY <1>1, Ranges, AskFacts DEF Discover
<1>3. Select(c) \in Clients /\ Select(c).state = "REQUESTING"
  BY <1>1, Ranges, AskFacts DEF Select
<1>4. Reboot(c) \in Clients /\ Reboot(c).state = "REBOOTING"
  BY <1>1, Ranges, AskFacts DEF Reboot
<1>5. Renew(c) \in Clients /\ Renew(c).state = "RENEWING"
  BY <1>1, Ranges, AskFacts DEF Renew
<1>6. Rebind(c) \in Clients /\ Rebind(c).state = "REBINDING"
  BY <1>1, Ranges, AskFacts DEF Rebind
<1>7. Check(c) \in Clients /\ Check(c).state = "CHECKING"
  BY <1>1, Ranges, AskFacts DEF Check
<1>8. Decline(c) \in Clients /\ Decline(c).state = "BACKING_OFF"
  BY <1>1, Ranges, AskFacts DEF Decline
<1> QED
  BY <1>2, <1>3, <1>4, <1>5, <1>6, <1>7, <1>8

--------------------------------------------------------------------------------
(* The client's steps.                                                          *)

Addrs == {"zero", "static", "lease"}
Stale == addr = "lease" /\ ~Supplied(client)

\* A step of the client by itself: it makes no lease stale, and lets go of the address
\* and of the timers when it goes off.
Keeps == client' \in Clients /\ addr' \in Addrs /\ Idle' /\ (Stale' => Stale)

\* A client that is not there, or off, stays as it is.
Rests == client.state \in {"none", "OFF"} => client'.state = client.state /\ addr' = addr

LEMMA BindKeeps ==
  ASSUME client \in Clients, Bind
  PROVE  Keeps
<1>1. client' \in Clients /\ client'.state = "BOUND" /\ addr' = "lease"
  BY BoundFacts DEF Bind
<1> QED
  BY <1>1 DEF Keeps, Idle, Stale, Supplied, Addrs

LEMMA RestartKeeps ==
  ASSUME Restart
  PROVE  Keeps
<1>1. client' = IF up THEN Discover(Off) ELSE Off
  BY DEF Restart, Started
<1>2. client' \in Clients /\ addr' = "zero"
  BY <1>1, OffFacts, MessageFacts DEF Restart
<1>3. client'.state = "SELECTING" \/ (client'.state = "OFF" /\ ~client'.timed)
  BY <1>1, OffFacts, MessageFacts
<1> QED
  BY <1>2, <1>3 DEF Keeps, Idle, Stale, Addrs

\* A message is sent: the client is in another state, none of those that hold a lease
\* for DHCP_Process unless it was in one before.
LEMMA MessageKeeps ==
  ASSUME addr \in Addrs, client' \in Clients, UNCHANGED addr,
         client'.state \notin {"none", "OFF"},
         Supplied(client) => Supplied(client')
  PROVE  Keeps
  BY DEF Keeps, Idle, Stale

LEMMA RequestTimeoutKeeps ==
  ASSUME client \in Clients, addr \in Addrs, Idle,
         NEW c \in Clients, c.state = client.state, c.timed = client.timed,
         RequestTimeout(c)
  PROVE  Keeps /\ Rests
<1>0. c.tries \in Nat
  BY DhcpAssumption DEF Clients
<1>1. CASE c.state \in {"BACKING_OFF", "SELECTING"}
  <2>1. client' = Discover(c) /\ UNCHANGED addr
    BY <1>1 DEF RequestTimeout
  <2> QED
    BY <1>1, <2>1, MessageFacts, MessageKeeps DEF Supplied, Rests
<1>2. CASE c.state = "REQUESTING" /\ c.tries <= 5
  <2>1. client' = Select(c) /\ UNCHANGED addr
    BY <1>2, <1>0 DEF RequestTimeout
  <2> QED
    BY <1>2, <2>1, MessageFacts, MessageKeeps DEF Supplied, Rests
<1>3. CASE c.state = "REQUESTING" /\ c.tries > 5
  <2>1. Restart
    BY <1>3, <1>0 DEF RequestTimeout
  <2> QED
    BY <1>3, <2>1, RestartKeeps DEF Rests
<1>4. CASE c.state = "CHECKING" /\ c.tries <= 1
  <2>1. client' = Check(c) /\ UNCHANGED addr
    BY <1>4, <1>0 DEF RequestTimeout
  <2> QED
    BY <1>4, <2>1, MessageFacts, MessageKeeps DEF Supplied, Rests
<1>5. CASE c.state = "CHECKING" /\ c.tries > 1
  <2>1. client' = Bound(c) /\ addr' = "lease"
    BY <1>5, <1>0 DEF RequestTimeout
  <2> QED
    BY <1>5, <2>1, BoundFacts DEF Keeps, Idle, Stale, Supplied, Addrs, Rests
<1>6. CASE c.state = "REBOOTING" /\ c.tries < 2
  <2>1. client' = Reboot(c) /\ UNCHANGED addr
    BY <1>6, <1>0 DEF RequestTimeout
  <2> QED
    BY <1>6, <2>1, MessageFacts, MessageKeeps DEF Supplied, Rests
<1>7. CASE c.state = "REBOOTING" /\ c.tries >= 2
  <2>1. client' = Discover(c) /\ UNCHANGED addr
    BY <1>7, <1>0 DEF RequestTimeout
  <2> QED
    BY <1>7, <2>1, MessageFacts, MessageKeeps DEF Supplied, Rests
<1>8. CASE c.state \notin {"BACKING_OFF", "SELECTING", "REQUESTING", "CHECKING", "REBOOTING"}
  <2>1. client' = c /\ UNCHANGED addr
    BY <1>8 DEF RequestTimeout
  <2> QED
    BY <1>8, <2>1 DEF Keeps, Idle, Stale, Supplied, Rests
<1> QED
  BY <1>0, <1>1, <1>2, <1>3, <1>4, <1>5, <1>6, <1>7, <1>8

LEMMA FineTmrKeeps ==
  ASSUME client \in Clients, addr \in Addrs, Idle, FineTmr
  PROVE  Keeps /\ Rests
<1>0. client.timer \in 0..Patience /\ Patience \in Nat
  BY DhcpAssumption DEF Clients, Ticks
<1>1. CASE client.timer > 1
  <2> DEFINE c == [client EXCEPT !.timer = @ - 1]
  <2>1. client' = c /\ UNCHANGED addr
    BY <1>1 DEF FineTmr
  <2>2. client.timer - 1 \in Ticks
    BY <1>0, <1>1 DEF Ticks
  <2>3. c \in Clients
    BY <2>2 DEF Clients
  <2>4. c.state = client.state /\ c.timed = client.timed
    BY DEF Clients
  <2> QED
    BY <2>1, <2>3, <2>4 DEF Keeps, Idle, Stale, Supplied, Rests
<1>2. CASE client.timer = 1
  <2> DEFINE c == [client EXCEPT !.timer = 0]
  <2>1. RequestTimeout(c)
    BY <1>2 DEF FineTmr
  <2>2. c \in Clients /\ c.state = client.state /\ c.timed = client.timed
    BY Ranges DEF Clients
  <2> HIDE DEF c
  <2> QED
    BY <2>1, <2>2, RequestTimeoutKeeps
<1>3. CASE client.timer = 0
  <2>1. UNCHANGED <<client, addr>>
    BY <1>3 DEF FineTmr
  <2> QED
    BY <2>1 DEF Keeps, Idle, Stale, Supplied, Rests
<1> QED
  BY <1>0, <1>1, <1>2, <1>3

--------------------------------------------------------------------------------
(* The steps of the pass.                                                       *)

Pcs == {"timeouts", "link", "dhcp", "lvgl"}
Marks == [link: 0..3, dhcp: 0..2, task: 0..2, fine: 0..1]

Shape ==
  /\ pc \in Pcs /\ elapsed \in Marks
  /\ plugged \in BOOLEAN /\ up \in BOOLEAN /\ shown \in BOOLEAN
  /\ net \in Nets /\ DHCP_state \in DhcpStates /\ addr \in Addrs
  /\ client \in Clients /\ refusals \in 0..MaxRefusals

LEMMA Typed == (TypeOK <=> Shape) /\ (TypeOK' <=> Shape')
  BY DEF TypeOK, Shape, Pcs, Marks, Nets, Addrs, Clients, Ticks

\* lwIP's client moves and nothing else does.
LEMMA ClientMoves ==
  ASSUME IInv, Keeps, Rests, UNCHANGED <<plugged, up, net, DHCP_state, shown>>,
         pc' \in Pcs, elapsed' \in Marks, refusals' \in 0..MaxRefusals
  PROVE  IInv'
<1>1. TypeOK'
  BY Typed DEF IInv, Keeps, Shape
<1>2. Idle'
  BY DEF Keeps
<1>3. NoStaleLease'
  BY DEF IInv, Keeps, NoStaleLease, Stale
<1>4. FallbackStays'
  BY DEF IInv, FallbackStays, Rests
<1>5. RiseThenFall' /\ GoneIsNotShown'
  BY DEF IInv, RiseThenFall, GoneIsNotShown
<1> QED
  BY <1>1, <1>2, <1>3, <1>4, <1>5 DEF IInv

LEMMA ReceivedPreserves ==
  ASSUME IInv, Offer \/ Ack \/ Nak \/ Conflict
  PROVE  IInv'
<1>1. client \in Clients /\ addr \in Addrs
  BY Typed DEF IInv, Shape
<1>2. UNCHANGED <<pc, elapsed, plugged, up, net, DHCP_state, shown>>
  BY DEF Offer, Ack, Nak, Conflict, Others
<1>3. refusals' \in 0..MaxRefusals
  BY Typed, DhcpAssumption DEF IInv, Offer, Ack, Nak, Conflict, Refused, Shape
<1>4. client.state \notin {"none", "OFF"}
  BY DEF Offer, Ack, Nak, Conflict
<1>5. Keeps
  <2>1. CASE Offer
    BY <1>1, <2>1, MessageFacts, MessageKeeps DEF Offer, Supplied
  <2>2. CASE Conflict
    BY <1>1, <2>2, MessageFacts, MessageKeeps DEF Conflict, Supplied
  <2>3. CASE Ack
    <3>1. CASE client.state = "REQUESTING"
      BY <1>1, <2>3, <3>1, MessageFacts, MessageKeeps DEF Ack, Supplied
    <3>2. CASE client.state # "REQUESTING"
      BY <1>1, <2>3, <3>2, BindKeeps DEF Ack
    <3> QED
      BY <3>1, <3>2
  <2>4. CASE Nak
    <3>1. client' = Discover(Decline(client)) /\ addr' = "zero"
      BY <2>4 DEF Nak
    <3>2. client' \in Clients /\ client'.state = "SELECTING"
      BY <1>1, <3>1, MessageFacts
    <3> QED
      BY <3>1, <3>2 DEF Keeps, Idle, Stale, Addrs
  <2> QED
    BY <2>1, <2>2, <2>3, <2>4
<1> QED
  BY <1>2, <1>3, <1>4, <1>5, ClientMoves, Typed DEF Rests, IInv, Shape

LEMMA CoarseTmrPreserves ==
  ASSUME IInv, CoarseTmr
  PROVE  IInv'
<1>1. client \in Clients /\ addr \in Addrs
  BY Typed DEF IInv, Shape
<1>2. UNCHANGED <<pc, elapsed, plugged, up, net, DHCP_state, shown>>
  BY DEF CoarseTmr, Others
<1>3. refusals' \in 0..MaxRefusals
  BY Typed, DhcpAssumption DEF IInv, CoarseTmr, Refused, Shape
<1>4. client.state \notin {"none", "OFF"}
  BY DEF IInv, Idle, CoarseTmr
<1>5. Keeps
  <2>1. CASE Restart
    BY <2>1, RestartKeeps
  <2>2. CASE client' = Rebind(client) /\ UNCHANGED addr
    BY <1>1, <2>2, MessageFacts, MessageKeeps DEF Supplied
  <2>3. CASE client' = Renew(client) /\ UNCHANGED addr
    BY <1>1, <2>3, MessageFacts, MessageKeeps DEF Supplied
  <2> QED
    BY <2>1, <2>2, <2>3 DEF CoarseTmr
<1> QED
  BY <1>2, <1>3, <1>4, <1>5, ClientMoves, Typed DEF Rests, IInv, Shape

LEMMA TimeoutsPreserves ==
  ASSUME IInv, Timeouts
  PROVE  IInv'
<1>1. client \in Clients /\ addr \in Addrs /\ elapsed \in Marks
  BY Typed DEF IInv, Shape
<1>2. pc' \in Pcs /\ elapsed' \in Marks /\ refusals' \in 0..MaxRefusals
  BY <1>1, Typed DEF IInv, Timeouts, Pcs, Marks, Shape
<1>3. Keeps /\ Rests
  <2>1. CASE elapsed.fine = 1
    BY <1>1, <2>1, FineTmrKeeps DEF Timeouts, IInv
  <2>2. CASE elapsed.fine # 1
    BY <1>1, <2>2 DEF Timeouts, IInv, Keeps, Rests, Idle, Stale, Supplied
  <2> QED
    BY <2>1, <2>2
<1> QED
  BY <1>2, <1>3, ClientMoves DEF Timeouts

LEMMA NetworkChangedFacts ==
  ASSUME NEW c \in Clients
  PROVE  /\ NetworkChanged(c) \in Clients
         /\ c.state \in {"none", "OFF"} => NetworkChanged(c) = c
         /\ c.state \notin {"none", "OFF"} =>
              NetworkChanged(c).state \notin {"none", "OFF"}
<1> DEFINE r == [c EXCEPT !.tries = 0]
<1>1. r \in Clients
  BY Ranges DEF Clients
<1> HIDE DEF r
<1>2. CASE c.state \in {"none", "OFF"}
  <2>1. NetworkChanged(c) = c
    BY <1>2 DEF NetworkChanged, Supplied
  <2> QED
    BY <1>2, <2>1
<1>3. CASE Supplied(c) \/ c.state = "REBOOTING"
  <2>1. NetworkChanged(c) = Reboot(r)
    BY <1>3 DEF NetworkChanged, Supplied, r
  <2> QED
    BY <1>1, <1>3, <2>1, MessageFacts DEF Supplied
<1>4. CASE ~(c.state \in {"none", "OFF"}) /\ ~(Supplied(c) \/ c.state = "REBOOTING")
  <2>1. NetworkChanged(c) = Discover(r)
    BY <1>4 DEF NetworkChanged, r
  <2> QED
    BY <1>1, <1>4, <2>1, MessageFacts
<1> QED
  BY <1>2, <1>3, <1>4

LEMMA NetFacts ==
  ASSUME net \in Nets
  PROVE  /\ \A b \in BOOLEAN : /\ [net EXCEPT !.link_up = b] \in Nets
                               /\ [net EXCEPT !.link_up = b].link_up = b
                               /\ [net EXCEPT !.link_up = b].link_down = net.link_down
                               /\ [net EXCEPT !.link_down = b] \in Nets
                               /\ [net EXCEPT !.link_down = b].link_down = b
                               /\ [net EXCEPT !.link_down = b].link_up = net.link_up
         /\ [net EXCEPT !.use_dhcp = ~@] \in Nets
         /\ [net EXCEPT !.use_dhcp = ~@].link_up = net.link_up
         /\ [net EXCEPT !.use_dhcp = ~@].link_down = net.link_down
  BY DEF Nets

LEMMA LinkPreserves ==
  ASSUME IInv, Link
  PROVE  IInv'
<1>0. Shape
  BY Typed DEF IInv
<1>1. pc' \in Pcs /\ elapsed' \in Marks /\ UNCHANGED <<plugged, shown, refusals>>
  BY <1>0 DEF Link, Shape, Pcs, Marks, CheckState
<1>2. CASE LinkDown
  <2>1. net' \in Nets /\ net'.link_down /\ net'.link_up = net.link_up
    BY <1>0, <1>2, NetFacts DEF LinkDown, Shape
  <2>2. up' = FALSE /\ UNCHANGED <<addr, client>> /\ DHCP_state' \in {DHCP_state, "LINK_DOWN"}
    BY <1>2 DEF LinkDown
  <2>3. TypeOK'
    BY <1>0, <1>1, <2>1, <2>2, Typed DEF Shape, DhcpStates
  <2>4. Idle' /\ NoStaleLease'
    BY <2>2 DEF IInv, Idle, NoStaleLease, Supplied
  <2>5. FallbackStays' /\ RiseThenFall' /\ GoneIsNotShown'
    BY <2>1, <2>2 DEF IInv, FallbackStays, RiseThenFall, GoneIsNotShown
  <2> QED
    BY <2>3, <2>4, <2>5 DEF IInv
<1>3. CASE LinkUp
  <2>1. up' = TRUE /\ client' = NetworkChanged(client) /\ UNCHANGED net
    BY <1>3 DEF LinkUp
  <2>2. \/ DHCP_state' = "START" /\ UNCHANGED addr
        \/ addr' = "static" /\ UNCHANGED DHCP_state
    BY <1>3 DEF LinkUp
  <2>3. client' \in Clients
    BY <1>0, <2>1, NetworkChangedFacts DEF Shape
  <2>4. TypeOK'
    BY <1>0, <1>1, <2>1, <2>2, <2>3, Typed DEF Shape, DhcpStates, Addrs
  <2>5. \/ client.state \in {"none", "OFF"} /\ client' = client
        \/ client.state \notin {"none", "OFF"} /\ client'.state \notin {"none", "OFF"}
    BY <1>0, <2>1, NetworkChangedFacts DEF Shape
  <2>6. Idle'
    BY <2>2, <2>5 DEF IInv, Idle
  <2>7. NoStaleLease'
    BY <2>2 DEF NoStaleLease
  <2>8. FallbackStays'
    BY <2>2, <2>5 DEF IInv, FallbackStays
  <2>9. RiseThenFall' /\ GoneIsNotShown'
    BY <1>1, <2>1, <2>2 DEF IInv, RiseThenFall, GoneIsNotShown
  <2> QED
    BY <2>4, <2>6, <2>7, <2>8, <2>9 DEF IInv
<1>4. CASE UNCHANGED iface
  <2>1. UNCHANGED <<plugged, up, net, DHCP_state, addr, client, shown, refusals>>
    BY <1>1, <1>4 DEF iface
  <2>2. TypeOK'
    BY <1>0, <1>1, <2>1, Typed DEF Shape
  <2>3. Idle' /\ NoStaleLease' /\ FallbackStays' /\ RiseThenFall' /\ GoneIsNotShown'
    BY <2>1 DEF IInv, Idle, NoStaleLease, Supplied, FallbackStays, RiseThenFall,
                GoneIsNotShown
  <2> QED
    BY <2>2, <2>3 DEF IInv
<1> QED
  BY <1>2, <1>3, <1>4 DEF Link, CheckState

LEMMA StartPreserves ==
  ASSUME IInv, ProcessStart, UNCHANGED <<plugged, up, shown, refusals>>,
         pc' \in Pcs, elapsed' \in Marks
  PROVE  IInv'
<1>0. Shape
  BY Typed DEF IInv
<1>1. client' \in Clients
  BY <1>0, OffFacts, MessageFacts DEF ProcessStart, Started, Shape
<1>2. TypeOK'
  BY <1>0, <1>1, Typed DEF Shape, ProcessStart, DhcpStates, Addrs
<1>3. client' = client \/ client'.state = "SELECTING"
  BY OffFacts, MessageFacts DEF ProcessStart, Started
<1>4. Idle'
  BY <1>3 DEF IInv, Idle, ProcessStart
<1>5. NoStaleLease' /\ FallbackStays' /\ RiseThenFall' /\ GoneIsNotShown'
  BY DEF ProcessStart, NoStaleLease, FallbackStays, RiseThenFall, GoneIsNotShown
<1> QED
  BY <1>2, <1>4, <1>5 DEF IInv

LEMMA GiveUpPreserves ==
  ASSUME IInv, ProcessGiveUp, UNCHANGED <<plugged, up, shown, refusals>>,
         pc' \in Pcs, elapsed' \in Marks
  PROVE  IInv'
<1>0. Shape
  BY Typed DEF IInv
<1>1. client' \in Clients
  BY <1>0, OffFacts DEF ProcessGiveUp, Shape
<1>2. TypeOK'
  BY <1>0, <1>1, Typed DEF Shape, ProcessGiveUp, DhcpStates, Addrs
<1>3. client'.state \in {"none", "OFF"} /\ ~client'.timed
  BY OffFacts DEF IInv, Idle, ProcessGiveUp
<1>4. Idle' /\ FallbackStays'
  BY <1>3 DEF Idle, FallbackStays, ProcessGiveUp
<1>5. NoStaleLease' /\ RiseThenFall' /\ GoneIsNotShown'
  BY DEF ProcessGiveUp, NoStaleLease, RiseThenFall, GoneIsNotShown
<1> QED
  BY <1>2, <1>4, <1>5 DEF IInv

LEMMA LinkDownStopPreserves ==
  ASSUME IInv, ProcessLinkDown, UNCHANGED <<plugged, up, shown, refusals>>,
         pc' \in Pcs, elapsed' \in Marks
  PROVE  IInv'
<1>0. Shape
  BY Typed DEF IInv
<1>1. client' \in Clients /\ addr' \in Addrs
  BY <1>0, OffFacts DEF ProcessLinkDown, Stop, Shape, Addrs
<1>2. TypeOK'
  BY <1>0, <1>1, Typed DEF Shape, ProcessLinkDown, DhcpStates
<1>3. client'.state \in {"none", "OFF"} /\ ~client'.timed /\ addr' # "lease"
  BY OffFacts DEF IInv, Idle, ProcessLinkDown, Stop
<1>4. Idle' /\ NoStaleLease'
  BY <1>3 DEF Idle, NoStaleLease
<1>5. FallbackStays' /\ RiseThenFall' /\ GoneIsNotShown'
  BY DEF IInv, ProcessLinkDown, FallbackStays, RiseThenFall, GoneIsNotShown
<1> QED
  BY <1>2, <1>4, <1>5 DEF IInv

LEMMA SuppliedPreserves ==
  ASSUME IInv, ProcessSupplied, UNCHANGED <<plugged, up, shown, refusals>>,
         pc' \in Pcs, elapsed' \in Marks
  PROVE  IInv'
<1>0. Shape
  BY Typed DEF IInv
<1>1. net' \in Nets
  BY <1>0, NetFacts DEF ProcessSupplied, Shape
<1>2. TypeOK'
  BY <1>0, <1>1, Typed DEF Shape, ProcessSupplied, DhcpStates
<1>3. Idle' /\ NoStaleLease'
  BY DEF IInv, Idle, NoStaleLease, Supplied, ProcessSupplied
<1>4. FallbackStays' /\ RiseThenFall' /\ GoneIsNotShown'
  BY DEF ProcessSupplied, FallbackStays, RiseThenFall, GoneIsNotShown
<1> QED
  BY <1>2, <1>3, <1>4 DEF IInv

\* Only the time and the program counter move.
LEMMA QuietPreserves ==
  ASSUME IInv, UNCHANGED iface, UNCHANGED <<shown, refusals>>,
         plugged' \in BOOLEAN, pc' \in Pcs, elapsed' \in Marks
  PROVE  IInv'
<1>1. TypeOK'
  BY Typed DEF IInv, Shape, iface
<1>2. Idle' /\ NoStaleLease' /\ FallbackStays' /\ RiseThenFall' /\ GoneIsNotShown'
  BY DEF IInv, iface, Idle, NoStaleLease, Supplied, FallbackStays, RiseThenFall,
         GoneIsNotShown
<1> QED
  BY <1>1, <1>2 DEF IInv

LEMMA DhcpPreserves ==
  ASSUME IInv, Dhcp
  PROVE  IInv'
<1>0. Shape
  BY Typed DEF IInv
<1>1. pc' \in Pcs /\ elapsed' \in Marks /\ UNCHANGED <<plugged, shown, refusals>>
  BY <1>0 DEF Dhcp, Shape, Pcs, Marks
<1>2. CASE UNCHANGED iface
  BY <1>0, <1>1, <1>2, QuietPreserves DEF Shape
<1>3. CASE DHCP_Process /\ UNCHANGED up
  <2>1. CASE ProcessStart
    BY <1>1, <1>3, <2>1, StartPreserves
  <2>2. CASE ProcessSupplied
    BY <1>1, <1>3, <2>2, SuppliedPreserves
  <2>3. CASE ProcessGiveUp
    BY <1>1, <1>3, <2>3, GiveUpPreserves
  <2>4. CASE ProcessLinkDown
    BY <1>1, <1>3, <2>4, LinkDownStopPreserves
  <2>5. CASE ProcessWait \/ ProcessElse
    <3>1. UNCHANGED iface
      BY <1>3, <2>5 DEF ProcessWait, ProcessElse, iface
    <3> QED
      BY <1>0, <1>1, <3>1, QuietPreserves DEF Shape
  <2> QED
    BY <1>3, <2>1, <2>2, <2>3, <2>4, <2>5 DEF DHCP_Process
<1> QED
  BY <1>2, <1>3 DEF Dhcp

LEMMA AfterMarks ==
  ASSUME NEW d \in 0..2, NEW e \in Marks
  PROVE  After(d, e) \in Marks
  BY DEF After, Marks, Least

LEMMA LvglPreserves ==
  ASSUME IInv, NEW d \in 0..2, Lvgl(d)
  PROVE  IInv'
<1>0. Shape
  BY Typed DEF IInv
<1>1. elapsed' \in Marks
  <2>1. [elapsed EXCEPT !.task = 0] \in Marks
    BY <1>0 DEF Shape, Marks
  <2> QED
    BY <1>0, <2>1, AfterMarks DEF Lvgl, Shape
<1>2. pc' \in Pcs /\ UNCHANGED <<plugged, up, DHCP_state, addr, client, refusals>>
  BY DEF Lvgl, Pcs
<1>3. \/ net.link_up /\ shown' = TRUE /\ net' = [net EXCEPT !.link_up = FALSE]
      \/ ~net.link_up /\ net.link_down /\ shown' = FALSE
           /\ net' = [net EXCEPT !.link_down = FALSE]
      \/ UNCHANGED <<shown, net>>
  BY DEF Lvgl, NetTask
<1>4. net' \in Nets /\ shown' \in BOOLEAN
  BY <1>0, <1>3, NetFacts DEF Shape
<1>5. TypeOK'
  BY <1>0, <1>1, <1>2, <1>4, Typed DEF Shape
<1>6. Idle' /\ NoStaleLease' /\ FallbackStays'
  BY <1>2 DEF IInv, Idle, NoStaleLease, Supplied, FallbackStays
<1>7. RiseThenFall' /\ GoneIsNotShown'
  <2>1. CASE net.link_up /\ shown' = TRUE /\ net' = [net EXCEPT !.link_up = FALSE]
    BY <1>0, <1>2, <2>1, NetFacts DEF Shape, IInv, RiseThenFall, GoneIsNotShown
  <2>2. CASE /\ ~net.link_up /\ net.link_down /\ shown' = FALSE
             /\ net' = [net EXCEPT !.link_down = FALSE]
    BY <1>0, <1>2, <2>2, NetFacts DEF Shape, IInv, RiseThenFall, GoneIsNotShown
  <2>3. CASE UNCHANGED <<shown, net>>
    BY <1>2, <2>3 DEF IInv, RiseThenFall, GoneIsNotShown
  <2> QED
    BY <1>3, <2>1, <2>2, <2>3
<1> QED
  BY <1>5, <1>6, <1>7 DEF IInv

LEMMA CheckboxPreserves ==
  ASSUME IInv, Checkbox
  PROVE  IInv'
<1>0. Shape
  BY Typed DEF IInv
<1>1. net' \in Nets /\ net'.link_up = net.link_up /\ net'.link_down = net.link_down
  BY <1>0, NetFacts DEF Checkbox, Shape
<1>2. UNCHANGED <<pc, elapsed, plugged, up, DHCP_state, addr, client, shown, refusals>>
  BY DEF Checkbox
<1>3. TypeOK'
  BY <1>0, <1>1, <1>2, Typed DEF Shape
<1>4. Idle' /\ NoStaleLease' /\ FallbackStays' /\ RiseThenFall' /\ GoneIsNotShown'
  BY <1>1, <1>2 DEF IInv, Idle, NoStaleLease, Supplied, FallbackStays, RiseThenFall,
                    GoneIsNotShown
<1> QED
  BY <1>3, <1>4 DEF IInv

--------------------------------------------------------------------------------
(* The theorems.                                                                *)

LEMMA Initially == Init => IInv
<1> SUFFICES ASSUME Init PROVE IInv
  OBVIOUS
<1>1. NoClient \in Clients /\ NoClient.state = "none" /\ ~NoClient.timed
  <2>1. "none" \in ClientStates
    BY DEF ClientStates
  <2>2. NoClient.state = "none" /\ ~NoClient.timed
    BY DEF NoClient
  <2>3. NoClient \in Clients
    BY <2>1, Ranges DEF NoClient, Clients
  <2> QED
    BY <2>2, <2>3
<1>2. net \in Nets /\ net.link_up = FALSE
  BY DEF Init, Nets
<1>3. elapsed \in Marks /\ 0 \in 0..MaxRefusals
  BY DhcpAssumption DEF Init, Marks
<1>4. TypeOK
  BY <1>1, <1>2, <1>3, Typed DEF Init, Shape, Pcs, DhcpStates, Addrs
<1>5. Idle /\ NoStaleLease /\ FallbackStays
  BY <1>1 DEF Init, Idle, NoStaleLease, FallbackStays
<1>6. RiseThenFall /\ GoneIsNotShown
  BY <1>2 DEF Init, RiseThenFall, GoneIsNotShown
<1> QED
  BY <1>4, <1>5, <1>6 DEF IInv

LEMMA Preserved == IInv /\ [Next]_vars => IInv'
<1> SUFFICES ASSUME IInv, [Next]_vars PROVE IInv'
  OBVIOUS
<1>0. Shape
  BY Typed DEF IInv
<1>1. CASE Pass
  BY <1>1, TimeoutsPreserves, LinkPreserves, DhcpPreserves, LvglPreserves DEF Pass
<1>2. CASE Offer \/ Ack \/ Nak \/ Conflict
  BY <1>2, ReceivedPreserves
<1>3. CASE CoarseTmr
  BY <1>3, CoarseTmrPreserves
<1>4. CASE Checkbox
  BY <1>4, CheckboxPreserves
<1>5. CASE Cable
  BY <1>0, <1>5, QuietPreserves DEF Cable, iface, Shape
<1>6. CASE UNCHANGED vars
  BY <1>0, <1>6, QuietPreserves DEF vars, iface, Shape
<1> QED
  BY <1>1, <1>2, <1>3, <1>4, <1>5, <1>6 DEF Next

LEMMA Invariant == Spec => []IInv
<1>1. Init => IInv
  BY Initially
<1>2. IInv /\ [Next]_vars => IInv'
  BY Preserved
<1> QED
  BY <1>1, <1>2, PTL DEF Spec

\* Type correctness of the interface, its client and the display: the retry counter and
\* the timers stay in their ranges, and the state machine in its states.
THEOREM TypeCorrect == Spec => []TypeOK
<1>1. IInv => TypeOK
  BY DEF IInv
<1> QED
  BY <1>1, Invariant, PTL

\* DHCP_Process and lwIP's client go on independently of each other; an address whose
\* lease is gone is in use only in START and LINK_DOWN, from which the next step of
\* DHCP_Process clears it.
THEOREM LeasesAreHeld == Spec => []NoStaleLease
<1>1. IInv => NoStaleLease
  BY DEF IInv
<1> QED
  BY <1>1, Invariant, PTL

\* After DHCP_TIMEOUT no late answer and no timer of the client replaces the static
\* address.
THEOREM FallbackIsFinal == Spec => []FallbackStays
<1>1. IInv => FallbackStays
  BY DEF IInv
<1> QED
  BY <1>1, Invariant, PTL

\* Once DHCP_Process has been told that the link is gone (LINK_DOWN, OFF), no address stays
\* in green on the display without a notice pending that lv_fm_net_task, however late it
\* runs, will clear it for.
THEOREM DisplayFollows == Spec => []GoneIsNotShown
<1>1. IInv => GoneIsNotShown
  BY DEF IInv
<1> QED
  BY <1>1, Invariant, PTL
================================================================================
