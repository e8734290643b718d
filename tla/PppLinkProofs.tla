---------------------------- MODULE PppLinkProofs ----------------------------
(***************************************************************************)
(* antimony's driver asks only whether IPCP is up when it sends an IP      *)
(* packet.  Proved here for every number of ids, options, addresses, lost  *)
(* frames, restarts of the peer and early timers, and whatever the peer    *)
(* sends: it does so only while LCP is up too.                             *)
(*                                                                         *)
(* What the options of a packet are does not matter for this, so packets   *)
(* are left untyped but for the names of their fields.                     *)
(***************************************************************************)
EXTENDS PppLink, TLAPS

-----------------------------------------------------------------------------
(* Automata, peers, packets and queues, as far as the argument needs them. *)

PacketFields == {"proto", "code", "id", "opts"}

AutomatonFields == {"proto", "state", "scr_id", "last_req_id", "host_address",
                    "prev_host_address", "peer_address"}

PeerFields == {"proto", "state", "id", "seen", "opts"}

OfLayer(a, fields, layer) == DOMAIN a = fields /\ a.proto = layer

IsFrame(p) == DOMAIN p = PacketFields

(* A sequence, of whatever. *)
IsQueue(s) == s \in Seq({s[i] : i \in DOMAIN s})

Frames(s) == IsQueue(s) /\ \A i \in DOMAIN s : IsFrame(s[i])

HasIp(s) == \E i \in DOMAIN s : s[i].proto = "IP"

(* Frames of the two automata, and Protocol-Rejects. *)
Control(s) == Frames(s) /\ ~HasIp(s)

(***************************************************************************)
(* The inductive invariant: the automata keep the fields and the layer     *)
(* they were made with, and the queues hold packets.                       *)
(***************************************************************************)
Layers ==
  /\ OfLayer(lcp, AutomatonFields, "LCP") /\ OfLayer(ipcp, AutomatonFields, "IPCP")
  /\ OfLayer(plcp, PeerFields, "LCP") /\ OfLayer(pipcp, PeerFields, "IPCP")

Queues == Frames(xmit) /\ Frames(rx) /\ Frames(p2h) /\ Frames(h2p)

IInv == Layers /\ Queues /\ ip_recv \in Nat /\ ip_xmit \in Nat

-----------------------------------------------------------------------------
(* Queues. *)

(* A sequence over some set is one over its own elements. *)
LEMMA QueueOver ==
  ASSUME NEW T, NEW s \in Seq(T)
  PROVE  IsQueue(s)
<1> DEFINE R == {s[i] : i \in DOMAIN s}
<1>1. s \in [1 .. Len(s) -> R] /\ Len(s) \in Nat
  OBVIOUS
<1> HIDE DEF R
<1>2. s \in Seq(R)
  BY <1>1
<1> QED
  BY <1>2 DEF IsQueue, R

(* Two queues are sequences over one set. *)
LEMMA CommonSet ==
  ASSUME NEW s, NEW t, IsQueue(s), IsQueue(t)
  PROVE  \E T : s \in Seq(T) /\ t \in Seq(T)
<1> DEFINE A == {s[i] : i \in DOMAIN s}
           B == {t[i] : i \in DOMAIN t}
<1>1. s \in Seq(A) /\ t \in Seq(B)
  BY DEF IsQueue
<1> HIDE DEF A, B
<1>2. s \in Seq(A \cup B) /\ t \in Seq(A \cup B)
  BY <1>1
<1> QED
  BY <1>2

(* What is behind a queue is what was put there. *)
LEMMA Joined ==
  ASSUME NEW s, NEW t, IsQueue(s), IsQueue(t)
  PROVE  /\ IsQueue(s \o t)
         /\ Len(s) \in Nat /\ Len(t) \in Nat
         /\ DOMAIN s = 1 .. Len(s) /\ DOMAIN t = 1 .. Len(t)
         /\ DOMAIN (s \o t) = 1 .. Len(s) + Len(t)
         /\ \A i \in 1 .. Len(s) : (s \o t)[i] = s[i]
         /\ \A i \in 1 .. Len(t) : (s \o t)[Len(s) + i] = t[i]
         /\ \A i \in 1 .. Len(s) + Len(t) :
              i > Len(s) => i - Len(s) \in 1 .. Len(t) /\ (s \o t)[i] = t[i - Len(s)]
<1>1. PICK T : s \in Seq(T) /\ t \in Seq(T)
  BY CommonSet
<1>2. s \o t \in Seq(T)
  BY <1>1
<1>3. IsQueue(s \o t)
  BY <1>2, QueueOver, Zenon
<1> QED
  BY <1>1, <1>2, <1>3

(* Frames put behind frames are frames. *)
LEMMA JoinedFrames ==
  ASSUME NEW s, NEW t, Frames(s), Frames(t)
  PROVE  Frames(s \o t)
<1>1. IsQueue(s) /\ IsQueue(t)
  BY DEF Frames
<1> HIDE DEF IsQueue, IsFrame
<1> QED
  BY <1>1, Joined, Z3 DEF Frames

(* A queue has become another, and no IP packet was put into it. *)
NoNewIp(s, t) ==
  /\ Frames(t)
  /\ \A i \in DOMAIN t : t[i].proto = "IP" => i \in DOMAIN s /\ s[i].proto = "IP"

(* Putting control frames behind a queue puts no IP packet there. *)
LEMMA ControlBehind ==
  ASSUME NEW s, NEW t, Frames(s), Control(t)
  PROVE  NoNewIp(s, s \o t)
<1>1. IsQueue(s) /\ IsQueue(t) /\ Frames(t)
  BY DEF Frames, Control
<1>2. Frames(s \o t)
  BY <1>1, JoinedFrames
<1>3. ASSUME NEW i \in DOMAIN (s \o t), (s \o t)[i].proto = "IP"
      PROVE  i \in DOMAIN s /\ s[i].proto = "IP"
  <2>1. CASE i \in 1 .. Len(s)
    BY <1>1, <1>3, <2>1, Joined
  <2>2. CASE i \notin 1 .. Len(s)
    <3>1. i - Len(s) \in DOMAIN t /\ (s \o t)[i] = t[i - Len(s)]
      BY <1>1, <1>3, <2>2, Joined
    <3> QED
      BY <1>3, <3>1 DEF Control, HasIp
  <2> QED
    BY <2>1, <2>2
<1> QED
  BY <1>2, <1>3 DEF NoNewIp

(* Control frames behind control frames. *)
LEMMA JoinedControl ==
  ASSUME NEW s, NEW t, Control(s), Control(t)
  PROVE  Control(s \o t)
  BY ControlBehind DEF Control, HasIp, NoNewIp

(* The empty queue. *)
LEMMA EmptyQueue == Control(<<>>)
<1>1. <<>> \in Seq({})
  OBVIOUS
<1>2. IsQueue(<<>>)
  BY <1>1, QueueOver, Zenon
<1> QED
  BY <1>2 DEF Control, Frames, HasIp

(* A queue of one. *)
LEMMA QueueOfOne ==
  ASSUME NEW p, IsFrame(p)
  PROVE  /\ Frames(<<p>>) /\ DOMAIN <<p>> = {1} /\ <<p>>[1] = p
         /\ p.proto # "IP" => Control(<<p>>)
<1>1. <<p>> \in Seq({p}) /\ DOMAIN <<p>> = {1} /\ <<p>>[1] = p
  OBVIOUS
<1>2. IsQueue(<<p>>)
  BY <1>1, QueueOver, Zenon
<1> QED
  BY <1>1, <1>2 DEF Control, Frames, HasIp

(* Appending is putting a queue of one behind. *)
LEMMA AppendIs ==
  ASSUME NEW s, NEW p, IsQueue(s)
  PROVE  Append(s, p) = s \o <<p>>
<1> DEFINE A == {s[i] : i \in DOMAIN s}
<1>1. s \in Seq(A)
  BY DEF IsQueue
<1> HIDE DEF A
<1>2. s \in Seq(A \cup {p}) /\ p \in A \cup {p}
  BY <1>1
<1> QED
  BY <1>2

(* Part of a queue of frames is one, and shorter. *)
LEMMA PartOf ==
  ASSUME NEW s, Frames(s), NEW m \in Nat, NEW n \in Nat, 1 <= m, n <= Len(s)
  PROVE  /\ Frames(SubSeq(s, m, n))
         /\ DOMAIN SubSeq(s, m, n) \subseteq DOMAIN s
<1> DEFINE A == {s[i] : i \in DOMAIN s}
<1>1. s \in Seq(A)
  BY DEF Frames, IsQueue
<1> HIDE DEF A
<1>2. /\ SubSeq(s, m, n) \in Seq(A)
      /\ DOMAIN SubSeq(s, m, n) = 1 .. (IF m <= n THEN n - m + 1 ELSE 0)
      /\ \A i \in 1 .. (IF m <= n THEN n - m + 1 ELSE 0) : SubSeq(s, m, n)[i] = s[m + i - 1]
      /\ DOMAIN s = 1 .. Len(s) /\ Len(s) \in Nat
  BY <1>1
<1>3. IsQueue(SubSeq(s, m, n))
  BY <1>2, QueueOver, Zenon
<1> QED
  BY <1>2, <1>3 DEF Frames

(* The first frame of a queue, and the others. *)
LEMMA HeadAndTail ==
  ASSUME NEW s, Frames(s), s # <<>>
  PROVE  /\ 1 \in DOMAIN s /\ Head(s) = s[1] /\ IsFrame(Head(s))
         /\ Frames(Tail(s))
         /\ \A i \in DOMAIN Tail(s) : i + 1 \in DOMAIN s /\ Tail(s)[i] = s[i + 1] /\ i \in Nat \ {0}
<1> DEFINE A == {s[i] : i \in DOMAIN s}
<1>1. s \in Seq(A)
  BY DEF Frames, IsQueue
<1> HIDE DEF A
<1>2. /\ 1 \in DOMAIN s /\ Head(s) = s[1] /\ Tail(s) \in Seq(A)
      /\ \A i \in DOMAIN Tail(s) : i + 1 \in DOMAIN s /\ Tail(s)[i] = s[i + 1] /\ i \in Nat \ {0}
  BY <1>1
<1>3. IsQueue(Tail(s))
  BY <1>2, QueueOver, Zenon
<1> QED
  BY <1>2, <1>3 DEF Frames

-----------------------------------------------------------------------------
(* The automata: they stay of their layer, and send only frames of it. *)

(* What an operation of a layer returns. *)
Sound(r, fields, layer) == OfLayer(r.a, fields, layer) /\ Control(r.sent)

(* A new packet is a frame of its protocol. *)
LEMMA NewPacket ==
  ASSUME NEW proto, NEW code, NEW id, NEW opts
  PROVE  /\ IsFrame(Pkt(proto, code, id, opts))
         /\ Pkt(proto, code, id, opts).proto = proto
         /\ Pkt(proto, code, id, opts).code = code
  BY DEF IsFrame, PacketFields, Pkt

(* A packet sent back under another code. *)
LEMMA SentBack ==
  ASSUME NEW p, IsFrame(p), NEW code
  PROVE  IsFrame([p EXCEPT !.code = code]) /\ [p EXCEPT !.code = code].proto = p.proto
  BY DEF IsFrame, PacketFields

(* One frame of the layer sent. *)
LEMMA OneSent ==
  ASSUME NEW a, NEW fields, NEW layer, layer # "IP", OfLayer(a, fields, layer),
         NEW p, IsFrame(p), p.proto = layer
  PROVE  Sound(Done(a, <<p>>), fields, layer)
<1>1. Control(<<p>>)
  BY QueueOfOne
<1>2. Done(a, <<p>>).a = a /\ Done(a, <<p>>).sent = <<p>>
  BY DEF Done
<1> QED
  BY <1>1, <1>2, Zenon DEF Sound

(* Nothing sent. *)
LEMMA NoneSent ==
  ASSUME NEW a, NEW fields, NEW layer, OfLayer(a, fields, layer)
  PROVE  Sound(Done(a, <<>>), fields, layer)
<1>1. Done(a, <<>>).a = a /\ Done(a, <<>>).sent = <<>>
  BY DEF Done
<1> QED
  BY <1>1, EmptyQueue, Zenon DEF Sound

(* A change of state. *)
LEMMA StateSet ==
  ASSUME NEW a, NEW fields, NEW layer, OfLayer(a, fields, layer), NEW s, "state" \in fields
  PROVE  /\ OfLayer([a EXCEPT !.state = s], fields, layer)
         /\ [a EXCEPT !.state = s].state = s
  BY DEF OfLayer

(* send_configure_request *)
LEMMA RequestSound ==
  ASSUME NEW a, NEW layer \in {"LCP", "IPCP"}, OfLayer(a, AutomatonFields, layer),
         NEW sent, Control(sent)
  PROVE  /\ Sound(send_configure_request(a, sent), AutomatonFields, layer)
         /\ send_configure_request(a, sent).a.state = a.state
<1> DEFINE b == [a EXCEPT !.scr_id = (@ + 1) % IdSpace]
           p == Pkt(a.proto, "ConfReq", a.scr_id, get_opts(a))
<1>1. /\ send_configure_request(a, sent).a = b
      /\ send_configure_request(a, sent).sent = Append(sent, p)
  BY DEF send_configure_request, Done
<1>2. OfLayer(b, AutomatonFields, layer) /\ b.state = a.state
  BY DEF OfLayer, AutomatonFields
<1>3. IsFrame(p) /\ p.proto = layer
  BY NewPacket DEF OfLayer
<1> HIDE DEF p, b
<1>4. Control(<<p>>)
  BY <1>3, QueueOfOne
<1>5. IsQueue(sent)
  BY DEF Control, Frames
<1>6. Control(Append(sent, p))
  BY <1>4, <1>5, AppendIs, JoinedControl
<1> QED
  BY <1>1, <1>2, <1>6 DEF Sound

(* open *)
LEMMA OpenSound ==
  ASSUME NEW a, NEW layer \in {"LCP", "IPCP"}, OfLayer(a, AutomatonFields, layer)
  PROVE  Sound(open(a), AutomatonFields, layer) /\ open(a).a.state = "ReqSent"
<1> DEFINE b == [a EXCEPT !.state = "ReqSent"]
<1>1. OfLayer(b, AutomatonFields, layer) /\ b.state = "ReqSent"
  BY StateSet DEF AutomatonFields
<1> HIDE DEF b
<1>2. Sound(send_configure_request(b, <<>>), AutomatonFields, layer)
      /\ send_configure_request(b, <<>>).a.state = "ReqSent"
  BY <1>1, RequestSound, EmptyQueue
<1> QED
  BY <1>2 DEF open, b

(* received_configure_request answers in the layer's name. *)
LEMMA AnswerSound ==
  ASSUME NEW a, NEW layer \in {"LCP", "IPCP"}, OfLayer(a, AutomatonFields, layer),
         NEW p, IsFrame(p), p.proto = layer
  PROVE  IsFrame(Answer(a, p)) /\ Answer(a, p).proto = layer
<1> DEFINE verdicts == [i \in DOMAIN p.opts |-> judge(a, p.opts[i])]
           Is(v)    == \E i \in DOMAIN verdicts : verdicts[i].verdict = v
           Those(v) == LET sel(x) == x.verdict = v
                           vs == SelectSeq(verdicts, sel)
                       IN [i \in DOMAIN vs |-> vs[i].opt]
<1>1. Answer(a, p) =
        CASE Is("Rej") -> Pkt(a.proto, "ConfRej", p.id, Those("Rej"))
          [] ~Is("Rej") /\ Is("Nak") -> Pkt(a.proto, "ConfNak", p.id, Those("Nak"))
          [] OTHER -> [p EXCEPT !.code = "ConfAck"]
  BY Zenon DEF Answer
<1> HIDE DEF Is, Those
<1>2. \/ Answer(a, p) = Pkt(a.proto, "ConfRej", p.id, Those("Rej"))
      \/ Answer(a, p) = Pkt(a.proto, "ConfNak", p.id, Those("Nak"))
      \/ Answer(a, p) = [p EXCEPT !.code = "ConfAck"]
  BY <1>1
<1>3. a.proto = layer
  BY DEF OfLayer
<1>4. \A code, opts : /\ IsFrame(Pkt(a.proto, code, p.id, opts))
                      /\ Pkt(a.proto, code, p.id, opts).proto = layer
  BY <1>3, NewPacket
<1>5. IsFrame([p EXCEPT !.code = "ConfAck"]) /\ [p EXCEPT !.code = "ConfAck"].proto = layer
  BY SentBack
<1> QED
  BY <1>2, <1>4, <1>5, Zenon

(* received, ConfReq *)
LEMMA ConfReqSound ==
  ASSUME NEW a, NEW layer \in {"LCP", "IPCP"}, OfLayer(a, AutomatonFields, layer),
         NEW p, IsFrame(p), p.proto = layer
  PROVE  Sound(ReceivedConfReq(a, p), AutomatonFields, layer)
<1> DEFINE answer == Answer(a, p)
           b == [a EXCEPT !.last_req_id = p.id, !.peer_address = PeerAddress(a, p.opts)]
           In(s) == [b EXCEPT !.state = s]
<1>1. IsFrame(answer) /\ answer.proto = layer
  BY AnswerSound
<1>2. OfLayer(b, AutomatonFields, layer)
  BY DEF OfLayer, AutomatonFields
<1>3. \/ \E s : ReceivedConfReq(a, p) = Done(In(s), <<answer>>)
      \/ \E s : ReceivedConfReq(a, p) = send_configure_request(In(s), <<answer>>)
  <2> HIDE DEF answer, b
  <2> DEFINE ack == answer.code = "ConfAck"
  <2>1. ReceivedConfReq(a, p) =
          CASE a.state = "ReqSent" /\ ack -> Done(In("AckSent"), <<answer>>)
            [] a.state = "AckReceived" /\ ack -> Done(In("Opened"), <<answer>>)
            [] a.state = "AckSent" /\ ~ack -> Done(In("ReqSent"), <<answer>>)
            [] a.state = "Opened" /\ a.last_req_id # p.id ->
                 send_configure_request(In(IF ack THEN "AckSent" ELSE "ReqSent"), <<answer>>)
            [] OTHER -> Done(In(a.state), <<answer>>)
    BY Zenon DEF ReceivedConfReq, answer, b
  <2> HIDE DEF ack, In
  <2> QED
    BY <2>1
<1> HIDE DEF answer, b
<1>4. \A s : OfLayer(In(s), AutomatonFields, layer)
  BY <1>2, StateSet DEF AutomatonFields
<1>5. Control(<<answer>>)
  BY <1>1, QueueOfOne
<1>6. \A s : Sound(Done(In(s), <<answer>>), AutomatonFields, layer)
  BY <1>1, <1>4, OneSent
<1>7. \A s : Sound(send_configure_request(In(s), <<answer>>), AutomatonFields, layer)
  BY <1>4, <1>5, RequestSound
<1> QED
  BY <1>3, <1>6, <1>7

(* received: every packet leaves the layer what it is. *)
LEMMA ReceivedSound ==
  ASSUME NEW a, NEW layer \in {"LCP", "IPCP"}, OfLayer(a, AutomatonFields, layer),
         NEW p, IsFrame(p), p.proto = layer
  PROVE  Sound(Received(a, p), AutomatonFields, layer)
<1>0. a.proto = layer /\ layer # "IP"
  BY DEF OfLayer
<1>s. \A s : OfLayer([a EXCEPT !.state = s], AutomatonFields, layer)
  BY StateSet DEF AutomatonFields
<1>1. Sound(ReceivedUnknownCode(a, p), AutomatonFields, layer)
  <2> DEFINE q == [p EXCEPT !.code = "EchoReply"]
  <2>1. IsFrame(q) /\ q.proto = layer
    BY SentBack
  <2>2. \/ ReceivedUnknownCode(a, p) = Done(a, <<q>>)
        \/ ReceivedUnknownCode(a, p) = Done(a, <<>>)
    BY DEF ReceivedUnknownCode
  <2> HIDE DEF q
  <2> QED
    BY <1>0, <2>1, <2>2, OneSent, NoneSent
<1> DEFINE t == Pkt(a.proto, "TermAck", p.id, <<>>)
<1>t. IsFrame(t) /\ t.proto = layer
  BY <1>0, NewPacket
<1>2. Sound(Done(a, <<t>>), AutomatonFields, layer)
  <2> HIDE DEF t
  <2> QED
    BY <1>0, <1>t, OneSent
<1>3. Sound(ReceivedConfReq(a, p), AutomatonFields, layer)
  BY ConfReqSound
<1>4. Sound(ReceivedConfAck(a), AutomatonFields, layer)
  <2> DEFINE In(s) == [a EXCEPT !.state = s]
  <2>1. \/ ReceivedConfAck(a) = Done(In("AckReceived"), <<>>)
        \/ ReceivedConfAck(a) = Done(In("Opened"), <<>>)
        \/ ReceivedConfAck(a) = send_configure_request(In("ReqSent"), <<>>)
    BY DEF ReceivedConfAck
  <2>2. \A s : OfLayer(In(s), AutomatonFields, layer)
    BY <1>s
  <2> HIDE DEF In
  <2>3. \A s : Sound(Done(In(s), <<>>), AutomatonFields, layer)
    BY <2>2, NoneSent
  <2>4. Sound(send_configure_request(In("ReqSent"), <<>>), AutomatonFields, layer)
    BY <2>2, RequestSound, EmptyQueue
  <2> QED
    BY <2>1, <2>3, <2>4, Zenon
<1>5. Sound(ReceivedTermReq(a, p), AutomatonFields, layer)
  <2> DEFINE b == IF is_layer_up(a)
                    THEN [a EXCEPT !.state = "Closed", !.last_req_id = NoId]
                    ELSE [a EXCEPT !.state = "ReqSent"]
  <2>1. ReceivedTermReq(a, p) = Done(b, <<t>>)
    BY DEF ReceivedTermReq
  <2>2. OfLayer(b, AutomatonFields, layer)
    BY DEF OfLayer, AutomatonFields
  <2> HIDE DEF b, t
  <2> QED
    BY <1>0, <1>t, <2>1, <2>2, OneSent
<1>6. Sound(ReceivedConfNak(a, p), AutomatonFields, layer)
  <2> DEFINE b == NakTaken(a, p.opts)
  <2>1. OfLayer(b, AutomatonFields, layer)
    <3> DEFINE s == SelectSeq(p.opts, IsAddress)
    <3>1. b = IF a.proto = "LCP" THEN a ELSE set_host_ips(a, s)
      BY DEF NakTaken
    <3> HIDE DEF s
    <3>2. OfLayer(set_host_ips(a, s), AutomatonFields, layer)
      BY DEF set_host_ips, OfLayer, AutomatonFields
    <3> QED
      BY <3>1, <3>2
  <2>2. \/ ReceivedConfNak(a, p) = send_configure_request(b, <<>>)
        \/ ReceivedConfNak(a, p) = Done(b, <<>>)
    BY DEF ReceivedConfNak
  <2> HIDE DEF b
  <2> QED
    BY <2>1, <2>2, RequestSound, NoneSent, EmptyQueue
<1>7. Sound(Done(a, <<>>), AutomatonFields, layer)
  BY NoneSent
<1>8. \/ Received(a, p) = ReceivedUnknownCode(a, p)
      \/ Received(a, p) = Done(a, <<t>>)
      \/ Received(a, p) = ReceivedConfReq(a, p)
      \/ Received(a, p) = ReceivedConfAck(a)
      \/ Received(a, p) = ReceivedTermReq(a, p)
      \/ Received(a, p) = ReceivedConfNak(a, p)
      \/ Received(a, p) = Done(a, <<>>)
  <2> HIDE DEF t
  <2> QED
    BY DEF Received, t
<1> QED
  BY <1>1, <1>2, <1>3, <1>4, <1>5, <1>6, <1>7, <1>8, Zenon

-----------------------------------------------------------------------------
(* The peer: likewise. *)

(* Send-Configure-Request *)
LEMMA PeerRequestSound ==
  ASSUME NEW q, NEW layer \in {"LCP", "IPCP"}, OfLayer(q, PeerFields, layer), NEW s
  PROVE  Sound(PeerRequest(q, s, <<>>), PeerFields, layer)
<1> DEFINE id == (q.id + 1) % IdSpace
           r == [q EXCEPT !.state = s, !.id = id, !.seen = FALSE]
           p == Pkt(q.proto, "ConfReq", id, q.opts)
<1>1. PeerRequest(q, s, <<>>) = Done(r, Append(<<>>, p))
  BY DEF PeerRequest
<1>2. OfLayer(r, PeerFields, layer)
  BY DEF OfLayer, PeerFields
<1>3. IsFrame(p) /\ p.proto = layer
  BY NewPacket DEF OfLayer
<1> HIDE DEF r, p
<1>4. Append(<<>>, p) = <<p>>
  OBVIOUS
<1> QED
  BY <1>1, <1>2, <1>3, <1>4, OneSent

(* A new peer, and its first request. *)
LEMMA NewPeerSound ==
  ASSUME NEW layer \in {"LCP", "IPCP"}
  PROVE  /\ OfLayer(NewPeer(layer), PeerFields, layer)
         /\ Sound(PeerRequest(NewPeer(layer), "ReqSent", <<>>), PeerFields, layer)
<1>1. OfLayer(NewPeer(layer), PeerFields, layer)
  BY DEF OfLayer, NewPeer, PeerFields
<1> QED
  BY <1>1, PeerRequestSound

(* PeerConfReq *)
LEMMA PeerConfReqSound ==
  ASSUME NEW q, NEW layer \in {"LCP", "IPCP"}, OfLayer(q, PeerFields, layer),
         NEW p, IsFrame(p), p.proto = layer, NEW to_assign
  PROVE  Sound(PeerConfReq(q, p, to_assign), PeerFields, layer)
<1> DEFINE answer == PeerAnswer(q, p, to_assign)
           In(s) == [q EXCEPT !.state = s]
           Again(s) == PeerRequest(q, s, <<>>)
<1>1. IsFrame(answer) /\ answer.proto = layer
  <2>1. \/ answer = [p EXCEPT !.code = "ConfAck"]
        \/ answer = Pkt(q.proto, "ConfNak", p.id, <<IpAddress(to_assign)>>)
    BY DEF PeerAnswer
  <2>2. q.proto = layer
    BY DEF OfLayer
  <2>3. IsFrame([p EXCEPT !.code = "ConfAck"]) /\ [p EXCEPT !.code = "ConfAck"].proto = layer
    BY SentBack
  <2>4. \A opts : /\ IsFrame(Pkt(q.proto, "ConfNak", p.id, opts))
                  /\ Pkt(q.proto, "ConfNak", p.id, opts).proto = layer
    BY <2>2, NewPacket
  <2> QED
    BY <2>1, <2>3, <2>4, Zenon
<1>2. \/ \E s : PeerConfReq(q, p, to_assign) = Done(In(s), <<answer>>)
      \/ \E s : PeerConfReq(q, p, to_assign)
                  = Done(Again(s).a, Append(Again(s).sent, answer))
      \/ PeerConfReq(q, p, to_assign) = Done(q, <<>>)
  <2> HIDE DEF answer
  <2> DEFINE ack == answer.code = "ConfAck"
  <2>1. PeerConfReq(q, p, to_assign) =
          CASE q.state = "ReqSent" -> Done(In(IF ack THEN "AckSent" ELSE "ReqSent"), <<answer>>)
            [] q.state = "AckReceived" ->
                 Done(In(IF ack THEN "Opened" ELSE "AckReceived"), <<answer>>)
            [] q.state = "AckSent" -> Done(In(IF ack THEN "AckSent" ELSE "ReqSent"), <<answer>>)
            [] q.state = "Opened" ->
                 Done(Again(IF ack THEN "AckSent" ELSE "ReqSent").a,
                      Append(Again(IF ack THEN "AckSent" ELSE "ReqSent").sent, answer))
            [] OTHER -> Done(q, <<>>)
    BY Zenon DEF PeerConfReq, PeerStay, answer
  <2> HIDE DEF ack, In, Again
  <2> QED
    BY <2>1
<1> HIDE DEF answer
<1>3. \A s : OfLayer(In(s), PeerFields, layer)
  BY StateSet DEF PeerFields
<1>4. Control(<<answer>>)
  BY <1>1, QueueOfOne
<1>5. \A s : Sound(Done(In(s), <<answer>>), PeerFields, layer)
  BY <1>1, <1>3, OneSent
<1>6. ASSUME NEW s
      PROVE  Sound(Done(Again(s).a, Append(Again(s).sent, answer)), PeerFields, layer)
  <2> HIDE DEF Again
  <2>1. OfLayer(Again(s).a, PeerFields, layer) /\ Control(Again(s).sent)
    BY PeerRequestSound DEF Sound, Again
  <2>2. IsQueue(Again(s).sent)
    BY <2>1 DEF Control, Frames
  <2>3. Control(Append(Again(s).sent, answer))
    BY <1>4, <2>1, <2>2, AppendIs, JoinedControl
  <2> QED
    BY <2>1, <2>3 DEF Sound, Done
<1>7. Sound(Done(q, <<>>), PeerFields, layer)
  BY NoneSent
<1> QED
  BY <1>2, <1>5, <1>6, <1>7, Zenon

(* PeerReceived *)
LEMMA PeerReceivedSound ==
  ASSUME NEW q, NEW layer \in {"LCP", "IPCP"}, OfLayer(q, PeerFields, layer),
         NEW p, IsFrame(p), p.proto = layer, NEW to_assign
  PROVE  Sound(PeerReceived(q, p, to_assign), PeerFields, layer)
<1>1. Sound(PeerConfReq(q, p, to_assign), PeerFields, layer)
  BY PeerConfReqSound
<1>2. Sound(PeerConfAck([q EXCEPT !.seen = TRUE]), PeerFields, layer)
  <2> DEFINE r == [q EXCEPT !.seen = TRUE]
             In(s) == [r EXCEPT !.state = s]
  <2>1. OfLayer(r, PeerFields, layer)
    BY DEF OfLayer, PeerFields
  <2> HIDE DEF r
  <2>2. \/ PeerConfAck(r) = Done(In("AckReceived"), <<>>)
        \/ PeerConfAck(r) = Done(In("Opened"), <<>>)
        \/ PeerConfAck(r) = PeerRequest(r, "ReqSent", <<>>)
        \/ PeerConfAck(r) = Done(r, <<>>)
    BY DEF PeerConfAck, PeerStay
  <2>3. \A s : OfLayer(In(s), PeerFields, layer)
    BY <2>1, StateSet DEF PeerFields
  <2> HIDE DEF In
  <2>4. \A s : Sound(Done(In(s), <<>>), PeerFields, layer)
    BY <2>3, NoneSent
  <2>5. Sound(PeerRequest(r, "ReqSent", <<>>), PeerFields, layer)
    BY <2>1, PeerRequestSound
  <2>6. Sound(Done(r, <<>>), PeerFields, layer)
    BY <2>1, NoneSent
  <2>7. Sound(PeerConfAck(r), PeerFields, layer)
    BY <2>2, <2>4, <2>5, <2>6, Zenon
  <2> QED
    BY <2>7 DEF r
<1>3. Sound(PeerConfNak(q, p), PeerFields, layer)
  <2> DEFINE r == [q EXCEPT !.opts = Amended(q, p)]
             s == IF q.state = "AckSent" THEN "AckSent" ELSE "ReqSent"
  <2>1. OfLayer(r, PeerFields, layer)
    <3> DEFINE o == Amended(q, p)
    <3> HIDE DEF o
    <3>1. OfLayer([q EXCEPT !.opts = o], PeerFields, layer)
      BY DEF OfLayer, PeerFields
    <3> QED
      BY <3>1 DEF o
  <2>2. PeerConfNak(q, p) = Done(q, <<>>) \/ PeerConfNak(q, p) = PeerRequest(r, s, <<>>)
    BY DEF PeerConfNak, PeerStay
  <2> HIDE DEF r, s
  <2>3. Sound(PeerRequest(r, s, <<>>), PeerFields, layer)
    BY <2>1, PeerRequestSound
  <2> QED
    BY <2>2, <2>3, NoneSent
<1>4. Sound(PeerTermAck(q), PeerFields, layer)
  <2> DEFINE r == [q EXCEPT !.state = "ReqSent"]
  <2>1. OfLayer(r, PeerFields, layer)
    BY StateSet DEF PeerFields
  <2>2. \/ PeerTermAck(q) = Done(r, <<>>)
        \/ PeerTermAck(q) = PeerRequest(q, "ReqSent", <<>>)
        \/ PeerTermAck(q) = Done(q, <<>>)
    BY DEF PeerTermAck, PeerStay
  <2> HIDE DEF r
  <2>3. Sound(PeerRequest(q, "ReqSent", <<>>), PeerFields, layer)
    BY PeerRequestSound
  <2> QED
    BY <2>1, <2>2, <2>3, NoneSent
<1>5. Sound(Done(q, <<>>), PeerFields, layer)
  BY NoneSent
<1>6. \/ PeerReceived(q, p, to_assign) = PeerConfReq(q, p, to_assign)
      \/ PeerReceived(q, p, to_assign) = PeerConfAck([q EXCEPT !.seen = TRUE])
      \/ PeerReceived(q, p, to_assign) = PeerConfNak(q, p)
      \/ PeerReceived(q, p, to_assign) = PeerTermAck(q)
      \/ PeerReceived(q, p, to_assign) = Done(q, <<>>)
  <2> DEFINE r == [q EXCEPT !.seen = TRUE]
  <2>1. PeerReceived(q, p, to_assign) =
          CASE p.code = "ConfReq" -> PeerConfReq(q, p, to_assign)
            [] p.code = "ConfAck" /\ p.id = q.id /\ ~q.seen -> PeerConfAck(r)
            [] p.code \in {"ConfNak", "ConfRej"} /\ p.id = q.id /\ ~q.seen -> PeerConfNak(q, p)
            [] p.code = "TermAck" -> PeerTermAck(q)
            [] OTHER -> Done(q, <<>>)
    BY Zenon DEF PeerReceived, PeerStay
  <2> HIDE DEF r
  <2>2. \/ PeerReceived(q, p, to_assign) = PeerConfReq(q, p, to_assign)
        \/ PeerReceived(q, p, to_assign) = PeerConfAck(r)
        \/ PeerReceived(q, p, to_assign) = PeerConfNak(q, p)
        \/ PeerReceived(q, p, to_assign) = PeerTermAck(q)
        \/ PeerReceived(q, p, to_assign) = Done(q, <<>>)
    BY <2>1
  <2> QED
    BY <2>2, Zenon DEF r
<1> QED
  BY <1>1, <1>2, <1>3, <1>4, <1>5, <1>6, Zenon

(* The Restart timer and Terminate-Request. *)
LEMMA PeerTimerSound ==
  ASSUME NEW q, NEW layer \in {"LCP", "IPCP"}, OfLayer(q, PeerFields, layer)
  PROVE  /\ Sound(PeerExpires(q), PeerFields, layer)
         /\ Sound(PeerTerminate(q), PeerFields, layer)
<1>0. q.proto = layer /\ layer # "IP"
  BY DEF OfLayer
<1>1. Sound(PeerExpires(q), PeerFields, layer)
  <2> DEFINE r == [q EXCEPT !.state = IF @ = "AckReceived" THEN "ReqSent" ELSE @,
                            !.seen = FALSE]
             p == Pkt(q.proto, IF q.state = "Closing" THEN "TermReq" ELSE "ConfReq", q.id,
                      IF q.state = "Closing" THEN <<>> ELSE q.opts)
  <2>1. PeerExpires(q) = Done(r, <<p>>)
    BY DEF PeerExpires
  <2>2. OfLayer(r, PeerFields, layer)
    BY DEF OfLayer, PeerFields
  <2>3. IsFrame(p) /\ p.proto = layer
    BY <1>0, NewPacket
  <2> HIDE DEF r, p
  <2> QED
    BY <1>0, <2>1, <2>2, <2>3, OneSent
<1>2. Sound(PeerTerminate(q), PeerFields, layer)
  <2> DEFINE id == (q.id + 1) % IdSpace
             r == [q EXCEPT !.state = "Closing", !.id = id]
             p == Pkt(q.proto, "TermReq", id, <<>>)
  <2>1. PeerTerminate(q) = Done(r, <<p>>)
    BY DEF PeerTerminate
  <2>2. OfLayer(r, PeerFields, layer)
    BY DEF OfLayer, PeerFields
  <2>3. IsFrame(p) /\ p.proto = layer
    BY <1>0, NewPacket
  <2> HIDE DEF r, p
  <2> QED
    BY <1>0, <2>1, <2>2, <2>3, OneSent
<1> QED
  BY <1>1, <1>2

-----------------------------------------------------------------------------
(* The steps. *)

SendsIpUp == \A i \in DOMAIN xmit' \ DOMAIN xmit : xmit'[i].proto = "IP" => is_layer_up(lcp')

Keeps == IInv' /\ SendsIpUp

(* The invariant holds at first. *)
LEMMA IInvInit == Init => IInv
<1> SUFFICES ASSUME Init PROVE IInv
  OBVIOUS
<1>1. /\ Sound(PeerRequest(NewPeer("LCP"), "ReqSent", <<>>), PeerFields, "LCP")
      /\ OfLayer(NewPeer("IPCP"), PeerFields, "IPCP")
  BY NewPeerSound
<1>2. Layers
  <2>1. OfLayer(lcp, AutomatonFields, "LCP") /\ OfLayer(ipcp, AutomatonFields, "IPCP")
    BY DEF Init, OfLayer, NewAutomaton, AutomatonFields
  <2> QED
    BY <1>1, <2>1, Zenon DEF Init, Layers, Sound
<1>3. Control(p2h) /\ xmit = <<>> /\ rx = <<>> /\ h2p = <<>>
  BY <1>1, Zenon DEF Init, Sound
<1>4. Queues
  BY <1>3, EmptyQueue DEF Queues, Control
<1> QED
  BY <1>2, <1>4 DEF IInv, Init

(* Frames come and go on the line, and the driver does nothing. *)
LEMMA PeerAdds ==
  ASSUME IInv, Frames(p2h'), Frames(h2p'),
         OfLayer(plcp', PeerFields, "LCP"), OfLayer(pipcp', PeerFields, "IPCP"),
         UNCHANGED <<hostVars, xmit, rx>>
  PROVE  Keeps
<1>1. Queues'
  BY DEF IInv, Queues
<1>2. Layers'
  BY DEF IInv, Layers, hostVars
<1>3. ip_recv' \in Nat /\ ip_xmit' \in Nat
  BY DEF IInv, hostVars
<1> QED
  BY <1>1, <1>2, <1>3 DEF Keeps, IInv, SendsIpUp

(* PeerLcpStep: IPCP starts and falls with LCP. *)
LEMMA PeerLcpStepKeeps ==
  ASSUME IInv, NEW r, Sound(r, PeerFields, "LCP"), PeerLcpStep(r), Frames(h2p'),
         UNCHANGED <<hostVars, xmit, rx>>
  PROVE  Keeps
<1> DEFINE start == PeerRequest(pipcp, "ReqSent", <<>>)
<1>1. OfLayer(pipcp, PeerFields, "IPCP") /\ Frames(p2h)
  BY DEF IInv, Layers, Queues
<1>2. OfLayer(start.a, PeerFields, "IPCP") /\ Control(start.sent)
  BY <1>1, PeerRequestSound DEF Sound
<1>3. OfLayer(r.a, PeerFields, "LCP") /\ Control(r.sent)
  BY DEF Sound
<1>4. OfLayer([pipcp EXCEPT !.state = "Initial"], PeerFields, "IPCP")
  BY <1>1, StateSet DEF PeerFields
<1> HIDE DEF start
<1>5. /\ plcp' = r.a
      /\ \/ pipcp' = start.a /\ p2h' = p2h \o r.sent \o start.sent
         \/ p2h' = p2h \o r.sent /\ (pipcp' = pipcp \/ pipcp' = [pipcp EXCEPT !.state = "Initial"])
  BY DEF PeerLcpStep, start
<1>6. CASE pipcp' = start.a /\ p2h' = p2h \o r.sent \o start.sent
  <2>1. Frames(p2h \o r.sent)
    BY <1>1, <1>3, JoinedFrames DEF Control
  <2>2. Frames(p2h \o r.sent \o start.sent)
    BY <1>2, <2>1, JoinedFrames DEF Control
  <2> QED
    BY <1>2, <1>3, <1>5, <1>6, <2>2, PeerAdds
<1>7. CASE p2h' = p2h \o r.sent /\ (pipcp' = pipcp \/ pipcp' = [pipcp EXCEPT !.state = "Initial"])
  <2>1. OfLayer(pipcp', PeerFields, "IPCP")
    BY <1>1, <1>4, <1>7
  <2>2. Frames(p2h')
    BY <1>1, <1>3, <1>7, JoinedFrames DEF Control
  <2> QED
    BY <1>3, <1>5, <2>1, <2>2, PeerAdds
<1> QED
  BY <1>5, <1>6, <1>7

(* PeerIpcpStep *)
LEMMA PeerIpcpStepKeeps ==
  ASSUME IInv, NEW r, Sound(r, PeerFields, "IPCP"), PeerIpcpStep(r), Frames(h2p'),
         UNCHANGED <<hostVars, xmit, rx>>
  PROVE  Keeps
<1>1. OfLayer(r.a, PeerFields, "IPCP") /\ Control(r.sent)
  BY DEF Sound
<1>2. pipcp' = r.a /\ p2h' = p2h \o r.sent /\ plcp' = plcp /\ OfLayer(plcp, PeerFields, "LCP")
  BY DEF PeerIpcpStep, IInv, Layers
<1>3. Frames(p2h')
  BY <1>1, <1>2, JoinedFrames DEF IInv, Queues, Control
<1> QED
  BY <1>1, <1>2, <1>3, PeerAdds

(* The peer handles a frame. *)
LEMMA PeerHandleKeeps == ASSUME IInv, PeerHandle PROVE Keeps
<1> DEFINE p == Head(h2p)
<1>1. /\ h2p # <<>> /\ h2p' = Tail(h2p)
      /\ UNCHANGED <<hostVars, xmit, rx>>
      /\ \/ p.proto = "LCP" /\ PeerLcpStep(PeerReceived(plcp, p, assign))
         \/ p.proto = "IPCP" /\ PeerIpcpStep(PeerReceived(pipcp, p, assign))
         \/ UNCHANGED <<plcp, pipcp, p2h>>
  BY DEF PeerHandle
<1>2. Frames(h2p') /\ IsFrame(p)
  BY <1>1, HeadAndTail DEF IInv, Queues
<1>3. OfLayer(plcp, PeerFields, "LCP") /\ OfLayer(pipcp, PeerFields, "IPCP") /\ Frames(p2h)
  BY DEF IInv, Layers, Queues
<1> HIDE DEF p
<1>4. CASE p.proto = "LCP" /\ PeerLcpStep(PeerReceived(plcp, p, assign))
  <2>1. Sound(PeerReceived(plcp, p, assign), PeerFields, "LCP")
    BY <1>2, <1>3, <1>4, PeerReceivedSound
  <2> QED
    BY <1>1, <1>2, <1>4, <2>1, PeerLcpStepKeeps
<1>5. CASE p.proto = "IPCP" /\ PeerIpcpStep(PeerReceived(pipcp, p, assign))
  <2>1. Sound(PeerReceived(pipcp, p, assign), PeerFields, "IPCP")
    BY <1>2, <1>3, <1>5, PeerReceivedSound
  <2> QED
    BY <1>1, <1>2, <1>5, <2>1, PeerIpcpStepKeeps
<1>6. CASE UNCHANGED <<plcp, pipcp, p2h>>
  BY <1>1, <1>2, <1>3, <1>6, PeerAdds
<1> QED
  BY <1>1, <1>4, <1>5, <1>6

(* The peer's timer, its Terminate-Request and its restart. *)
LEMMA PeerOwnStepsKeep ==
  ASSUME IInv, PeerTimeout \/ PeerClose \/ PeerRestart
  PROVE  Keeps
<1>1. /\ OfLayer(plcp, PeerFields, "LCP") /\ OfLayer(pipcp, PeerFields, "IPCP")
      /\ Frames(h2p) /\ Frames(p2h)
  BY DEF IInv, Layers, Queues
<1>2. CASE PeerTimeout
  <2>1. /\ Frames(h2p') /\ UNCHANGED <<hostVars, xmit, rx>>
        /\ PeerLcpStep(PeerExpires(plcp)) \/ PeerIpcpStep(PeerExpires(pipcp))
    BY <1>1, <1>2 DEF PeerTimeout
  <2>2. Sound(PeerExpires(plcp), PeerFields, "LCP") /\ Sound(PeerExpires(pipcp), PeerFields, "IPCP")
    BY <1>1, PeerTimerSound
  <2> QED
    BY <2>1, <2>2, PeerLcpStepKeeps, PeerIpcpStepKeeps
<1>3. CASE PeerClose
  <2>1. /\ Frames(h2p') /\ UNCHANGED <<hostVars, xmit, rx>>
        /\ PeerLcpStep(PeerTerminate(plcp))
    BY <1>1, <1>3 DEF PeerClose
  <2>2. Sound(PeerTerminate(plcp), PeerFields, "LCP")
    BY <1>1, PeerTimerSound
  <2> QED
    BY <2>1, <2>2, PeerLcpStepKeeps
<1>4. CASE PeerRestart
  <2> DEFINE start == PeerRequest(NewPeer("LCP"), "ReqSent", <<>>)
  <2>1. /\ plcp' = start.a /\ p2h' = p2h \o start.sent
        /\ pipcp' = NewPeer("IPCP") /\ h2p' = <<>> /\ UNCHANGED <<hostVars, xmit, rx>>
    BY <1>4 DEF PeerRestart
  <2>2. /\ OfLayer(start.a, PeerFields, "LCP") /\ Control(start.sent)
        /\ OfLayer(NewPeer("IPCP"), PeerFields, "IPCP")
    BY NewPeerSound DEF Sound
  <2>3. Frames(<<>>)
    BY EmptyQueue DEF Control
  <2> HIDE DEF start
  <2>4. Frames(p2h')
    BY <1>1, <2>1, <2>2, JoinedFrames DEF Control
  <2> QED
    BY <2>1, <2>2, <2>3, <2>4, PeerAdds
<1> QED
  BY <1>2, <1>3, <1>4

(* The peer sends a frame of its own. *)
LEMMA PeerSendKeeps ==
  ASSUME IInv, NEW p, IsFrame(p), PeerSend(p)
  PROVE  Keeps
<1>1. /\ p2h' = Append(p2h, p) /\ UNCHANGED <<hostVars, xmit, rx, plcp, pipcp, h2p>>
  BY DEF PeerSend, peerVars
<1>2. /\ Frames(p2h) /\ Frames(h2p) /\ IsQueue(p2h)
      /\ OfLayer(plcp, PeerFields, "LCP") /\ OfLayer(pipcp, PeerFields, "IPCP")
  BY DEF IInv, Queues, Layers, Frames
<1>3. Frames(<<p>>) /\ p2h' = p2h \o <<p>>
  BY <1>1, <1>2, QueueOfOne, AppendIs
<1>4. Frames(p2h') /\ Frames(h2p')
  BY <1>1, <1>2, <1>3, JoinedFrames
<1> QED
  BY <1>1, <1>2, <1>4, PeerAdds

(* A frame of antimony's is lost. *)
LEMMA LoseKeeps == ASSUME IInv, Lose PROVE Keeps
<1>1. /\ h2p # <<>> /\ h2p' = Tail(h2p)
      /\ UNCHANGED <<hostVars, xmit, rx, plcp, pipcp, p2h>>
  BY DEF Lose, peerVars
<1>2. /\ Frames(p2h) /\ Frames(h2p)
      /\ OfLayer(plcp, PeerFields, "LCP") /\ OfLayer(pipcp, PeerFields, "IPCP")
  BY DEF IInv, Queues, Layers
<1>3. Frames(h2p') /\ Frames(p2h')
  BY <1>1, <1>2, HeadAndTail
<1> QED
  BY <1>1, <1>2, <1>3, PeerAdds

(* The three frames it sends so. *)
LEMMA PeerSendsKeep ==
  ASSUME IInv, PeerEcho \/ PeerIp \/ PeerOther
  PROVE  Keeps
<1>1. \E p : IsFrame(p) /\ PeerSend(p)
  BY NewPacket DEF PeerEcho, PeerIp, PeerOther, IpFrame, Echo
<1> QED
  BY <1>1, PeerSendKeeps

(* A frame arrives, whole, damaged or not at all, and one or two leave. *)
LEMMA ArriveKeeps == ASSUME IInv, Arrive PROVE Keeps
<1>0. Frames(xmit) /\ Frames(rx) /\ Frames(p2h) /\ Frames(h2p)
  BY DEF IInv, Queues
<1>1. PICK n \in 1 .. 2 :
        LET k == IF n <= Len(xmit) THEN n ELSE Len(xmit)
        IN /\ h2p' = h2p \o SubSeq(xmit, 1, k)
           /\ xmit' = SubSeq(xmit, k + 1, Len(xmit))
  BY DEF Arrive
<1> DEFINE k == IF n <= Len(xmit) THEN n ELSE Len(xmit)
<1>2. /\ p2h # <<>> /\ p2h' = Tail(p2h) /\ UNCHANGED <<hostVars, peerVars>>
      /\ rx' = rx \/ (\E f \in {Head(p2h), Damaged} : rx' = Append(rx, f))
  BY DEF Arrive
<1>3. Len(xmit) \in Nat /\ DOMAIN xmit = 1 .. Len(xmit)
  BY <1>0 DEF Frames, IsQueue
<1>4. k \in Nat /\ k <= Len(xmit)
  BY <1>3
<1>5. h2p' = h2p \o SubSeq(xmit, 1, k) /\ xmit' = SubSeq(xmit, k + 1, Len(xmit))
  BY <1>1
<1> HIDE DEF k
<1>6. Frames(SubSeq(xmit, 1, k))
  BY <1>0, <1>4, PartOf
<1>7. Frames(xmit') /\ DOMAIN xmit' \subseteq DOMAIN xmit
  BY <1>0, <1>3, <1>4, <1>5, PartOf
<1>8. Frames(h2p')
  BY <1>0, <1>5, <1>6, JoinedFrames
<1>9. IsFrame(Head(p2h)) /\ Frames(p2h')
  BY <1>0, <1>2, HeadAndTail
<1>10. IsFrame(Damaged)
  BY NewPacket DEF Damaged
<1>11. Frames(rx')
  <2>1. ASSUME NEW f, IsFrame(f), rx' = Append(rx, f) PROVE Frames(rx')
    <3>1. Frames(<<f>>) /\ rx' = rx \o <<f>>
      BY <1>0, <2>1, QueueOfOne, AppendIs DEF Frames
    <3> QED
      BY <1>0, <3>1, JoinedFrames
  <2> QED
    BY <1>0, <1>2, <1>9, <1>10, <2>1
<1>12. Queues'
  BY <1>7, <1>8, <1>9, <1>11 DEF Queues
<1>13. Layers' /\ ip_recv' \in Nat /\ ip_xmit' \in Nat
  BY <1>2 DEF IInv, Layers, hostVars, peerVars
<1> QED
  BY <1>7, <1>12, <1>13 DEF Keeps, IInv, SendsIpUp

(* PppInner::poll opens and closes; afterwards IPCP is up only if LCP is. *)
LEMMA PollSound ==
  ASSUME Layers
  PROVE  /\ Sound(PollLcp, AutomatonFields, "LCP")
         /\ Sound(PollIpcp, AutomatonFields, "IPCP")
         /\ is_layer_up(PollIpcp.a) => is_layer_up(PollLcp.a)
<1>0. OfLayer(lcp, AutomatonFields, "LCP") /\ OfLayer(ipcp, AutomatonFields, "IPCP")
  BY DEF Layers
<1>1. Sound(PollLcp, AutomatonFields, "LCP")
  <2>1. Sound(open(lcp), AutomatonFields, "LCP")
    BY <1>0, OpenSound
  <2>2. Sound(Done(lcp, <<>>), AutomatonFields, "LCP")
    BY <1>0, NoneSent
  <2> QED
    BY <2>1, <2>2 DEF PollLcp
<1> DEFINE up == is_layer_up(PollLcp.a)
           b  == IF ~up /\ ~is_closed(ipcp) THEN close(ipcp) ELSE ipcp
<1>2. OfLayer(b, AutomatonFields, "IPCP") /\ (~up => is_closed(b))
  BY <1>0 DEF OfLayer, close, is_closed, AutomatonFields
<1>3. PollIpcp = IF up /\ is_closed(b) THEN open(b) ELSE Done(b, <<>>)
  BY DEF PollIpcp
<1> HIDE DEF b, up
<1>4. Sound(open(b), AutomatonFields, "IPCP") /\ ~is_layer_up(open(b).a)
  BY <1>2, OpenSound DEF is_layer_up
<1>5. Sound(Done(b, <<>>), AutomatonFields, "IPCP") /\ Done(b, <<>>).a = b
  BY <1>2, NoneSent DEF Done
<1>6. Sound(PollIpcp, AutomatonFields, "IPCP")
  BY <1>3, <1>4, <1>5
<1>7. is_layer_up(PollIpcp.a) => up
  <2>1. CASE PollIpcp = open(b)
    BY <1>4, <2>1
  <2>2. CASE PollIpcp = Done(b, <<>>)
    BY <1>2, <1>5, <2>2 DEF is_layer_up, is_closed
  <2> QED
    BY <1>3, <2>1, <2>2
<1> QED
  BY <1>1, <1>6, <1>7 DEF up

(* What is drained of ip_xmit_queue is a queue of IP packets. *)
LEMMA DrainedFrames ==
  ASSUME ip_xmit \in Nat
  PROVE  Frames(DrainedIp) /\ (~is_layer_up(PollIpcp.a) => DrainedIp = <<>>)
<1> DEFINE n == IF is_layer_up(PollIpcp.a) THEN ip_xmit ELSE 0
<1>0. n \in Nat /\ DrainedIp = [i \in 1 .. n |-> IpFrame]
  BY DEF DrainedIp
<1>1. ~is_layer_up(PollIpcp.a) => n = 0
  OBVIOUS
<1> HIDE DEF n
<1>2. IsFrame(IpFrame)
  BY NewPacket DEF IpFrame
<1>3. DrainedIp \in Seq({IpFrame}) /\ DOMAIN DrainedIp = 1 .. n
      /\ \A i \in 1 .. n : DrainedIp[i] = IpFrame
  BY <1>0
<1>4. IsQueue(DrainedIp)
  BY <1>3, QueueOver, Zenon
<1>5. Frames(DrainedIp)
  BY <1>2, <1>3, <1>4 DEF Frames
<1>6. n = 0 => DrainedIp = <<>>
  BY <1>3
<1> QED
  BY <1>1, <1>5, <1>6

(* A pass without a frame. *)
LEMMA PollKeeps == ASSUME IInv, Poll PROVE Keeps
<1> DEFINE A == xmit \o PollLcp.sent
           B == A \o PollIpcp.sent
<1>0. /\ rx = <<>> /\ rx' = rx /\ p2h' = p2h /\ h2p' = h2p /\ plcp' = plcp /\ pipcp' = pipcp
      /\ lcp' = PollLcp.a /\ ipcp' = Updated(PollIpcp.a) /\ xmit' = B \o DrainedIp
      /\ ip_recv' = 0 \/ ip_recv' = ip_recv
      /\ ip_xmit' \in {0, 1} \/ ip_xmit' = ip_xmit
  BY DEF Poll, peerVars
<1>1. Layers /\ Queues /\ ip_recv \in Nat /\ ip_xmit \in Nat
  BY DEF IInv
<1>2. /\ Sound(PollLcp, AutomatonFields, "LCP")
      /\ Sound(PollIpcp, AutomatonFields, "IPCP")
      /\ is_layer_up(PollIpcp.a) => is_layer_up(PollLcp.a)
  BY <1>1, PollSound
<1>3. OfLayer(ipcp', AutomatonFields, "IPCP") /\ (is_layer_up(ipcp') => is_layer_up(PollIpcp.a))
  <2> DEFINE c == PollIpcp.a
  <2>1. OfLayer(c, AutomatonFields, "IPCP")
    BY <1>2 DEF Sound
  <2>2. ipcp' = c \/ ipcp' = [c EXCEPT !.prev_host_address = NoUpdate]
    BY <1>0 DEF Updated
  <2> HIDE DEF c
  <2>3. OfLayer(ipcp', AutomatonFields, "IPCP") /\ (is_layer_up(ipcp') => is_layer_up(c))
    BY <2>1, <2>2 DEF OfLayer, AutomatonFields, is_layer_up
  <2> QED
    BY <2>3 DEF c
<1>4. is_layer_up(PollIpcp.a) => is_layer_up(lcp')
  BY <1>0, <1>2
<1>5. Layers'
  BY <1>0, <1>1, <1>2, <1>3 DEF Layers, Sound
<1>6. Control(PollLcp.sent) /\ Control(PollIpcp.sent) /\ Frames(xmit)
  BY <1>1, <1>2 DEF Sound, Queues
<1>7. NoNewIp(xmit, A)
  BY <1>6, ControlBehind
<1>8. NoNewIp(A, B)
  BY <1>6, <1>7, ControlBehind DEF NoNewIp
<1> HIDE DEF A, B
<1>9. NoNewIp(xmit, B)
  BY <1>7, <1>8 DEF NoNewIp
<1>10. Frames(DrainedIp) /\ (~is_layer_up(PollIpcp.a) => DrainedIp = <<>>)
  BY <1>1, DrainedFrames
<1>11. Frames(xmit')
  BY <1>0, <1>9, <1>10, JoinedFrames DEF NoNewIp
<1>12. SendsIpUp
  <2>1. CASE is_layer_up(PollIpcp.a)
    BY <1>4, <2>1 DEF SendsIpUp
  <2>2. CASE ~is_layer_up(PollIpcp.a)
    <3>1. NoNewIp(B, B \o <<>>)
      BY <1>9, EmptyQueue, ControlBehind DEF NoNewIp
    <3>2. NoNewIp(xmit, xmit')
      BY <1>0, <1>9, <1>10, <2>2, <3>1 DEF NoNewIp
    <3> QED
      BY <3>2 DEF SendsIpUp, NoNewIp
  <2> QED
    BY <2>1, <2>2
<1>13. Queues'
  BY <1>0, <1>1, <1>11 DEF Queues
<1>14. ip_recv' \in Nat /\ ip_xmit' \in Nat
  BY <1>0, <1>1
<1> QED
  BY <1>5, <1>12, <1>13, <1>14 DEF Keeps, IInv

(* A pass with a frame. *)
LEMMA HandleFrameKeeps == ASSUME IInv, HandleFrame PROVE Keeps
<1> DEFINE p == Head(rx)
<1>0. /\ rx # <<>> /\ rx' = Tail(rx) /\ p2h' = p2h /\ h2p' = h2p
      /\ plcp' = plcp /\ pipcp' = pipcp /\ ip_xmit' = ip_xmit
      /\ \/ RecvLcp(p) \/ RecvIpcp(p) \/ RecvIp(p) \/ ProtocolReject(p)
         \/ UNCHANGED <<lcp, ipcp, xmit, ip_recv>>
  BY DEF HandleFrame, peerVars
<1>1. Layers /\ Queues /\ ip_recv \in Nat /\ ip_xmit \in Nat
  BY DEF IInv
<1>2. IsFrame(p) /\ Frames(rx')
  BY <1>0, <1>1, HeadAndTail DEF Queues
<1> HIDE DEF p
<1>5. Frames(xmit) /\ OfLayer(lcp, AutomatonFields, "LCP") /\ OfLayer(ipcp, AutomatonFields, "IPCP")
  BY <1>1 DEF Queues, Layers
<1> DEFINE Good == /\ OfLayer(lcp', AutomatonFields, "LCP")
                   /\ OfLayer(ipcp', AutomatonFields, "IPCP")
                   /\ NoNewIp(xmit, xmit')
                   /\ ip_recv' \in Nat
<1>6. ASSUME RecvLcp(p) PROVE Good
  <2> DEFINE r == Received(lcp, p)
  <2>1. Sound(r, AutomatonFields, "LCP")
    BY <1>2, <1>5, <1>6, ReceivedSound DEF RecvLcp
  <2>2. lcp' = r.a /\ ipcp' = ipcp /\ xmit' = xmit \o r.sent /\ ip_recv' = ip_recv
    BY <1>6 DEF RecvLcp
  <2> HIDE DEF r
  <2>3. NoNewIp(xmit, xmit')
    BY <1>5, <2>1, <2>2, ControlBehind DEF Sound
  <2>4. OfLayer(lcp', AutomatonFields, "LCP")
    BY <2>1, <2>2 DEF Sound
  <2> QED
    BY <1>1, <1>5, <2>2, <2>3, <2>4
<1>7. ASSUME RecvIpcp(p) PROVE Good
  <2> DEFINE r == Received(ipcp, p)
  <2>1. Sound(r, AutomatonFields, "IPCP")
    BY <1>2, <1>5, <1>7, ReceivedSound DEF RecvIpcp
  <2>2. ipcp' = r.a /\ lcp' = lcp /\ xmit' = xmit \o r.sent /\ ip_recv' = ip_recv
    BY <1>7 DEF RecvIpcp
  <2> HIDE DEF r
  <2>3. NoNewIp(xmit, xmit')
    BY <1>5, <2>1, <2>2, ControlBehind DEF Sound
  <2>4. OfLayer(ipcp', AutomatonFields, "IPCP")
    BY <2>1, <2>2 DEF Sound
  <2> QED
    BY <1>1, <1>5, <2>2, <2>3, <2>4
<1>8. ASSUME RecvIp(p) PROVE Good
  <2>1. /\ p.proto = "IP" /\ is_layer_up(ipcp) /\ ip_recv' = ip_recv + 1
        /\ lcp' = lcp /\ ipcp' = ipcp /\ xmit' = xmit
    BY <1>8 DEF RecvIp
  <2> QED
    BY <1>1, <1>5, <2>1 DEF NoNewIp
<1>9. ASSUME ProtocolReject(p) PROVE Good
  <2> DEFINE q == Pkt("LCP", "ProtRej", lcp_rej_id, <<[ty |-> "Unknown", val |-> p.proto]>>)
  <2>1. /\ lcp' = lcp /\ ipcp' = ipcp /\ ip_recv' = ip_recv
        /\ xmit' = Append(xmit, q) \/ xmit' = xmit
    BY <1>9 DEF ProtocolReject
  <2>2. IsFrame(q) /\ q.proto = "LCP"
    BY NewPacket
  <2> HIDE DEF q
  <2>3. Control(<<q>>) /\ Append(xmit, q) = xmit \o <<q>>
    BY <1>5, <2>2, QueueOfOne, AppendIs DEF Frames
  <2>4. NoNewIp(xmit, xmit')
    <3>1. CASE xmit' = Append(xmit, q)
      BY <1>5, <2>3, <3>1, ControlBehind
    <3>2. CASE xmit' = xmit
      BY <1>5, <3>2 DEF NoNewIp
    <3> QED
      BY <2>1, <3>1, <3>2
  <2> QED
    BY <1>1, <1>5, <2>1, <2>4
<1>10. ASSUME UNCHANGED <<lcp, ipcp, xmit, ip_recv>> PROVE Good
  BY <1>1, <1>5, <1>10 DEF NoNewIp
<1>11. Good
  BY <1>0, <1>6, <1>7, <1>8, <1>9, <1>10
<1>12. SendsIpUp
  BY <1>11 DEF SendsIpUp, NoNewIp
<1>13. Queues' /\ Layers'
  BY <1>0, <1>1, <1>2, <1>11 DEF Queues, Layers, NoNewIp
<1> QED
  BY <1>0, <1>1, <1>11, <1>12, <1>13 DEF Keeps, IInv

(* Every step. *)
LEMMA IInvStep == ASSUME IInv, [Next]_vars PROVE IInv' /\ [SendsIpUp]_vars
<1>1. CASE UNCHANGED vars
  BY <1>1 DEF vars, hostVars, peerVars, IInv, Layers, Queues
<1>2. CASE Next
  <2>1. Keeps
    BY <1>2, ArriveKeeps, LoseKeeps, PollKeeps, HandleFrameKeeps, PeerHandleKeeps,
       PeerOwnStepsKeep, PeerSendsKeep DEF Next
  <2> QED
    BY <2>1 DEF Keeps
<1> QED
  BY <1>1, <1>2

(***************************************************************************)
(* No IP packet is put into the transmit queue while LCP is down, however  *)
(* the two ends negotiate, terminate, time out and start again, and        *)
(* whatever is lost between them (run, PppInner::poll).                    *)
(***************************************************************************)
THEOREM IpNeedsOpenLink == Spec => IpSentOnOpenLink
<1>1. Init => IInv
  BY IInvInit
<1>2. IInv /\ [Next]_vars => IInv'
  BY IInvStep
<1>3. IInv /\ [Next]_vars =>
        [\A i \in DOMAIN xmit' \ DOMAIN xmit :
           xmit'[i].proto = "IP" => is_layer_up(lcp')]_vars
  BY IInvStep DEF SendsIpUp
<1> QED
  BY <1>1, <1>2, <1>3, PTL DEF Spec, IpSentOnOpenLink
=============================================================================
