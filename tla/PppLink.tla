------------------------------- MODULE PppLink -------------------------------
(***************************************************************************)
(* antimony's network driver (net.rs, run) with its two control automata,  *)
(* the peer, and the line between them.                                    *)
(*                                                                         *)
(* Frames are whole packets; how bytes become frames is PppFrames.  What   *)
(* matters here of phy.rs is when frames leave: XmitChannel::push only     *)
(* queues, and the queue is served by the interrupt of a received byte, at *)
(* most one frame each time.  So a frame antimony sends goes out with a    *)
(* later arrival, or not at all.                                           *)
(***************************************************************************)
EXTENDS PppPeer

CONSTANTS
  MaxRestarts,   \* how often the peer is started again, losing its state
  MaxUpsets,     \* how often it ends a session by Terminate-Request, its timer
                 \* runs out with frames still on the line, or it sends a packet
                 \* of a protocol antimony does not know
  MaxLost,       \* frames lost between the two
  MaxTroubles,   \* restarts, upsets and losses together
  MaxAhead       \* frames on their way, or not yet with smoltcp, when the
                 \* peer still sends IP or an echo

ASSUME BoundsAssumption ==
  /\ MaxRestarts \in Nat /\ MaxUpsets \in Nat
  /\ MaxLost \in Nat /\ MaxTroubles \in Nat /\ MaxAhead \in Nat

VARIABLES
  lcp, ipcp,     \* PppInner's automata
  ip_xmit,       \* number of packets in ip_xmit_queue
  ip_recv,       \* number of packets in ip_recv_queue
  addrs,         \* the interface's addresses
  lcp_rej_id,
  panicked,
  xmit,          \* CHANNEL2_TX: frames pushed and not yet written
  rx,            \* CHANNEL2_RX: finished frames
  plcp, pipcp,   \* the peer's automata
  assign,        \* the address it assigns
  p2h, h2p,      \* frames on the line
  restarts, upsets, lost,   \* counted against the bounds
  orphaned       \* history: a request of antimony's, or its answer, was lost or ignored

hostVars == <<lcp, ipcp, ip_xmit, ip_recv, addrs, lcp_rej_id, panicked>>
peerVars == <<plcp, pipcp, assign>>
losses == <<lost, orphaned>>
counters == <<restarts, upsets>>
vars == <<hostVars, xmit, rx, peerVars, p2h, h2p, counters, losses>>

(* The peer dials: it asks first; antimony is already running. *)
Init ==
  /\ lcp = NewAutomaton("LCP") /\ ipcp = NewAutomaton("IPCP")
  /\ ip_xmit = 0 /\ ip_recv = 0
  /\ addrs = {}
  /\ lcp_rej_id = 0
  /\ panicked = FALSE
  /\ xmit = <<>> /\ rx = <<>>
  /\ plcp = PeerRequest(NewPeer("LCP"), "ReqSent", <<>>).a
  /\ pipcp = NewPeer("IPCP")
  /\ assign \in Addr
  /\ p2h = PeerRequest(NewPeer("LCP"), "ReqSent", <<>>).sent
  /\ h2p = <<>>
  /\ restarts = 0 /\ upsets = 0 /\ lost = 0 /\ orphaned = FALSE

-----------------------------------------------------------------------------
(* The line and the interrupt. *)

MoreTrouble == restarts + upsets + lost < MaxTroubles

(***************************************************************************)
(* A frame that does not pass try_from_hdlc_frame: too short, not HDLC, or *)
(* with a bad FCS.                                                         *)
(***************************************************************************)
Damaged == Pkt("damaged", "Data", 0, <<>>)

(***************************************************************************)
(* Frames are lost both ways.  A request of antimony's, and the answer to  *)
(* one, are what nobody sends again (control.rs has no Restart timer).     *)
(***************************************************************************)
Loses(orphan) ==
  /\ lost < MaxLost /\ MoreTrouble /\ lost' = lost + 1
  /\ orphaned' = (orphaned \/ orphan)

(***************************************************************************)
(* A frame of the peer arrives.  Its interrupts (mei_uart) put it in the   *)
(* receive ring and write out frames of xmit: one per interrupt, and a     *)
(* frame may take one interrupt or two to arrive.  It may arrive damaged,  *)
(* or be dropped because no buffer is free (drain_uart_buffer).            *)
(***************************************************************************)
Arrive ==
  /\ p2h # <<>> /\ ~panicked
  /\ \/ rx' = Append(rx, Head(p2h)) /\ UNCHANGED losses
     \/ /\ rx' \in {rx, Append(rx, Damaged)}
        /\ Loses(Head(p2h).code \in {"ConfAck", "ConfNak", "ConfRej"})
  /\ p2h' = Tail(p2h)
  /\ \E n \in 1 .. 2 :
       LET k == IF n <= Len(xmit) THEN n ELSE Len(xmit)
       IN /\ h2p' = h2p \o SubSeq(xmit, 1, k)
          /\ xmit' = SubSeq(xmit, k + 1, Len(xmit))
  /\ UNCHANGED <<hostVars, peerVars, counters>>

(* A frame of antimony's does not reach the peer. *)
Lose ==
  /\ h2p # <<>>
  /\ h2p' = Tail(h2p)
  /\ Loses(Head(h2p).code = "ConfReq")
  /\ UNCHANGED <<hostVars, xmit, rx, peerVars, p2h, counters>>

-----------------------------------------------------------------------------
(* antimony's loop. *)

IpFrame == Pkt("IP", "Data", 0, <<>>)

(***************************************************************************)
(* A pass without a finished frame: PppInner::poll, then the update of the *)
(* interface's address, then iface.poll and the socket, which may take the *)
(* packets received and leave one to send.                                 *)
(***************************************************************************)
PollLcp == IF is_closed(lcp) THEN open(lcp) ELSE Done(lcp, <<>>)

(* Mutant: IPCP is not closed when LCP leaves Opened. *)
PollIpcpKept ==
  IF is_layer_up(PollLcp.a) /\ is_closed(ipcp) THEN open(ipcp) ELSE Done(ipcp, <<>>)

PollIpcp ==
  LET up == is_layer_up(PollLcp.a)
      b  == IF ~up /\ ~is_closed(ipcp) THEN close(ipcp) ELSE ipcp
  IN IF up /\ is_closed(b) THEN open(b) ELSE Done(b, <<>>)

DrainedIp ==
  [i \in 1 .. (IF is_layer_up(PollIpcp.a) THEN ip_xmit ELSE 0) |-> IpFrame]

AddressUpdate ==
  /\ is_layer_up(PollIpcp.a)
  /\ PollIpcp.a.prev_host_address # NoUpdate

(* update_ip_addrs: the old address must be there to be replaced. *)
UpdatePanics ==
  LET old == PollIpcp.a.prev_host_address
  IN AddressUpdate /\ old # Unset /\ old \notin addrs

(* get_host_addr_update takes the update. *)
Updated(a) == IF AddressUpdate THEN [a EXCEPT !.prev_host_address = NoUpdate] ELSE a

Poll ==
  /\ rx = <<>> /\ ~panicked
  /\ lcp' = PollLcp.a
  /\ ipcp' = Updated(PollIpcp.a)
  /\ xmit' = xmit \o PollLcp.sent \o PollIpcp.sent \o DrainedIp
  /\ panicked' = UpdatePanics
  /\ addrs' = IF AddressUpdate /\ ~UpdatePanics
                THEN (addrs \ {PollIpcp.a.prev_host_address})
                       \cup {PollIpcp.a.host_address}
                ELSE addrs
  /\ IF is_layer_up(PollIpcp.a) /\ ~UpdatePanics
       THEN /\ ip_recv' = 0
            /\ ip_xmit' \in IF xmit = <<>> THEN {0, 1} ELSE {0}
       ELSE UNCHANGED <<ip_recv, ip_xmit>>
  /\ UNCHANGED <<lcp_rej_id, rx, peerVars, p2h, h2p, counters, losses>>

(* A pass with a finished frame: a damaged one is dropped, any other is     *)
(* dispatched by protocol, then discard().                                 *)
RecvLcp(p) ==
  LET r == Received(lcp, p)
  IN /\ p.proto = "LCP"
     /\ lcp' = r.a /\ xmit' = xmit \o r.sent
     /\ UNCHANGED <<ipcp, ip_recv, lcp_rej_id>>

RecvIpcp(p) ==
  LET r == Received(ipcp, p)
  IN /\ p.proto = "IPCP" /\ is_layer_up(lcp)
     /\ ipcp' = r.a /\ xmit' = xmit \o r.sent
     /\ UNCHANGED <<lcp, ip_recv, lcp_rej_id>>

RecvIp(p) ==
  /\ p.proto = "IP" /\ is_layer_up(ipcp)
  /\ ip_recv' = ip_recv + 1
  /\ UNCHANGED <<lcp, ipcp, xmit, lcp_rej_id>>

ProtocolReject(p) ==
  /\ \/ p.proto = "OTHER"
     \/ p.proto = "IPCP" /\ ~is_layer_up(lcp)
     \/ p.proto = "IP" /\ ~is_layer_up(ipcp)
  /\ IF is_layer_up(lcp)
       THEN /\ xmit' = Append(xmit, Pkt("LCP", "ProtRej", lcp_rej_id,
                                       <<[ty |-> "Unknown", val |-> p.proto]>>))
            /\ lcp_rej_id' = (lcp_rej_id + 1) % IdSpace
       ELSE UNCHANGED <<xmit, lcp_rej_id>>
  /\ UNCHANGED <<lcp, ipcp, ip_recv>>

HandleFrame ==
  /\ rx # <<>> /\ ~panicked
  /\ rx' = Tail(rx)
  /\ LET p == Head(rx)
     IN \/ p = Damaged /\ UNCHANGED <<lcp, ipcp, xmit, ip_recv, lcp_rej_id>>
        \/ /\ p # Damaged
           /\ RecvLcp(p) \/ RecvIpcp(p) \/ RecvIp(p) \/ ProtocolReject(p)
  /\ UNCHANGED <<ip_xmit, addrs, panicked, peerVars, p2h, h2p, counters, losses>>

-----------------------------------------------------------------------------
(* The peer (external). *)

(* IPCP follows LCP: it starts when LCP opens and falls when LCP leaves. *)
PeerLcpStep(r) ==
  /\ plcp' = r.a
  /\ LET up == r.a.state = "Opened" /\ plcp.state # "Opened"
         start == PeerRequest(pipcp, "ReqSent", <<>>)
     IN IF up THEN /\ pipcp' = start.a
                   /\ p2h' = p2h \o r.sent \o start.sent
        ELSE /\ pipcp' = IF r.a.state = "Opened" THEN pipcp
                         ELSE [pipcp EXCEPT !.state = "Initial"]
             /\ p2h' = p2h \o r.sent

PeerIpcpStep(r) == pipcp' = r.a /\ p2h' = p2h \o r.sent /\ UNCHANGED plcp

(* A request that comes before its layer is up is dropped unanswered. *)
Unheard(p) ==
  /\ p.code = "ConfReq"
  /\ (IF p.proto = "LCP" THEN plcp ELSE pipcp).state \in {"Initial", "Closing"}

PeerHandle ==
  /\ h2p # <<>>
  /\ h2p' = Tail(h2p)
  /\ LET p == Head(h2p)
     IN /\ \/ p.proto = "LCP" /\ PeerLcpStep(PeerReceived(plcp, p, assign))
           \/ /\ p.proto = "IPCP" /\ pipcp.state # "Initial"
              /\ PeerIpcpStep(PeerReceived(pipcp, p, assign))
           \/ /\ (p.proto = "IPCP" /\ pipcp.state = "Initial") \/ p.proto = "IP"
              /\ UNCHANGED <<plcp, pipcp, p2h>>
        /\ orphaned' = (orphaned \/ Unheard(p))
  /\ UNCHANGED <<hostVars, xmit, rx, assign, counters, lost>>

(***************************************************************************)
(* No packet of a negotiation on its way to be handled, and nothing left   *)
(* to do for either end but to wait for a timer.                           *)
(***************************************************************************)
Settled(q) == \A i \in DOMAIN q : q[i].code \in {"EchoReq", "EchoReply", "ProtRej", "Data"}

Quiet ==
  /\ Settled(p2h) /\ Settled(h2p) /\ Settled(rx)
  /\ PollLcp = Done(lcp, <<>>) /\ PollIpcp = Done(ipcp, <<>>) /\ ~AddressUpdate

(* The Restart timer is long against the line, but it may be early. *)
PeerTimeout ==
  /\ ~panicked
  /\ \/ Quiet /\ UNCHANGED upsets
     \/ ~Quiet /\ upsets < MaxUpsets /\ MoreTrouble /\ upsets' = upsets + 1
  /\ \/ /\ plcp.state \in PeerState \ {"Initial", "Opened"}
        /\ PeerLcpStep(PeerExpires(plcp))
     \/ /\ pipcp.state \in PeerState \ {"Initial", "Opened"}
        /\ PeerIpcpStep(PeerExpires(pipcp))
  /\ UNCHANGED <<hostVars, xmit, rx, assign, h2p, restarts, losses>>

(***************************************************************************)
(* A peer with an open layer sends when it likes, also behind frames that  *)
(* are still on their way, or while antimony is changing its mind.         *)
(***************************************************************************)
PeerSend(p) ==
  /\ ~panicked
  /\ Len(p2h) + Len(rx) + ip_recv + Len(h2p) < MaxAhead
  /\ p2h' = Append(p2h, p)
  /\ UNCHANGED <<hostVars, xmit, rx, peerVars, h2p, restarts, losses>>

(* Echo requests are seconds apart: the last one was handled long ago. *)
Echo == Pkt("LCP", "EchoReq", 0, <<>>)

PeerEcho ==
  /\ plcp.state = "Opened"
  /\ \A q \in {p2h, rx} : \A i \in DOMAIN q : q[i] # Echo
  /\ PeerSend(Echo) /\ UNCHANGED upsets

PeerIp == pipcp.state = "Opened" /\ PeerSend(IpFrame) /\ UNCHANGED upsets

PeerOther ==
  /\ plcp.state = "Opened" /\ upsets < MaxUpsets /\ MoreTrouble /\ upsets' = upsets + 1
  /\ PeerSend(Pkt("OTHER", "ConfReq", 1, <<>>))

PeerClose ==
  /\ plcp.state = "Opened" /\ upsets < MaxUpsets /\ MoreTrouble /\ ~panicked
  /\ upsets' = upsets + 1
  /\ PeerLcpStep(PeerTerminate(plcp))
  /\ UNCHANGED <<hostVars, xmit, rx, assign, h2p, restarts, losses>>

(* A new process: unread input is flushed, ids start again. *)
PeerRestart ==
  /\ restarts < MaxRestarts /\ MoreTrouble /\ ~panicked
  /\ restarts' = restarts + 1
  /\ plcp' = PeerRequest(NewPeer("LCP"), "ReqSent", <<>>).a
  /\ p2h' = p2h \o PeerRequest(NewPeer("LCP"), "ReqSent", <<>>).sent
  /\ pipcp' = NewPeer("IPCP")
  /\ assign' \in Addr
  /\ h2p' = <<>>
  /\ orphaned' = (orphaned \/ \E i \in DOMAIN h2p : h2p[i].code = "ConfReq")
  /\ UNCHANGED <<hostVars, xmit, rx, upsets, lost>>

-----------------------------------------------------------------------------
Next ==
  \/ Arrive \/ Lose \/ Poll \/ HandleFrame
  \/ PeerHandle \/ PeerTimeout \/ PeerEcho \/ PeerIp \/ PeerOther
  \/ PeerClose \/ PeerRestart

Spec == Init /\ [][Next]_vars

-----------------------------------------------------------------------------
(* Properties *)

(* Ids stay bytes (scr_id, lcp_rej_id) and queues hold well-formed packets. *)
TypeOK ==
  /\ lcp \in Automaton /\ ipcp \in Automaton
  /\ ip_xmit \in Nat /\ ip_recv \in Nat
  /\ addrs \subseteq Addr
  /\ lcp_rej_id \in Id
  /\ panicked \in BOOLEAN
  /\ xmit \in Seq(Packet) /\ rx \in Seq(Packet \cup {Damaged})
  /\ p2h \in Seq(Packet) /\ h2p \in Seq(Packet)
  /\ plcp \in Peer /\ pipcp \in Peer /\ assign \in Addr
  /\ restarts \in 0 .. MaxRestarts /\ upsets \in 0 .. MaxUpsets
  /\ lost \in 0 .. MaxLost /\ orphaned \in BOOLEAN

BothUp == ~panicked /\ is_layer_up(ipcp) /\ pipcp.state = "Opened"

(***************************************************************************)
(* When both ends have opened IPCP and nothing is on its way, antimony's   *)
(* interface has exactly the address the peer assigns now, although        *)
(* ConfAck is taken without looking at its id (received, ConfAck), Naks    *)
(* and requests wait in xmit for the next interrupt, and the peer may have *)
(* been restarted with another address.                                    *)
(***************************************************************************)
AddressAgreed == BothUp /\ Quiet => addrs = {assign}

(***************************************************************************)
(* An IP packet of the peer, which sends one whenever its IPCP is open,    *)
(* finds both of antimony's layers up and is taken, or both down.  It is   *)
(* never taken while LCP is down, although LCP falls by a packet and IPCP  *)
(* only at the next poll (net.rs), with frames still in the ring.  And it  *)
(* is answered by Protocol-Reject (run, the last arm of the match), which  *)
(* makes a peer give up IP, only after the loss of a request of antimony's *)
(* or of its answer, which leaves IPCP open at one end alone.              *)
(***************************************************************************)
IpMeetsOpenLink ==
  [][HandleFrame /\ Head(rx).proto = "IP" =>
       \/ is_layer_up(lcp) <=> is_layer_up(ipcp)
       \/ orphaned /\ ~is_layer_up(ipcp)]_vars

(***************************************************************************)
(* No IP packet is sent while LCP is down: the code asks only for IPCP,    *)
(* and poll closes it before it drains ip_xmit_queue.                      *)
(***************************************************************************)
IpSentOnOpenLink ==
  [][\A i \in DOMAIN xmit' \ DOMAIN xmit :
       xmit'[i].proto = "IP" => is_layer_up(lcp')]_vars

(***************************************************************************)
(* update_ip_addrs finds the address it is to replace (the unwrap in run), *)
(* through every renegotiation with one peer: only a peer that was started *)
(* again, and assigns another address, can make the driver panic.          *)
(***************************************************************************)
PanicsOnlyAfterRestart == panicked => restarts > 0

(***************************************************************************)
(* antimony sends no request twice (control.rs has no Restart timer), so   *)
(* an automaton that waits for an answer does so because its request is on *)
(* the way to the peer or the answer is on the way back: else it waits for *)
(* ever, the peer's own timer notwithstanding.  Only a request or answer   *)
(* that was lost, or came to a peer that was not listening, leaves it so.  *)
(***************************************************************************)
Awaited(a) ==
  /\ a.state \in {"ReqSent", "AckSent"}
  /\ a.proto = "IPCP" => is_layer_up(lcp)

Coming(proto) ==
  \/ \E q \in {xmit, h2p} : \E i \in DOMAIN q :
       q[i].proto = proto /\ q[i].code = "ConfReq"
  \/ \E q \in {p2h, rx} : \E i \in DOMAIN q :
       q[i].proto = proto /\ q[i].code \in {"ConfAck", "ConfNak", "ConfRej"}

=============================================================================
