------------------------------- MODULE PppPeer -------------------------------
(***************************************************************************)
(* The machine at the other end of antimony's serial line: an              *)
(* implementation of PPP that is not part of the repository, taken to      *)
(* follow the state table of RFC 1661 as the comments of net/control.rs    *)
(* quote it ("RCR+ -> Ack-Sent").  It checks ids, takes one answer to each *)
(* request it sends, as the usual implementations do, and counts on its    *)
(* Restart timer.                                                          *)
(*                                                                         *)
(* As in PppControl, operators return the automaton after the event and    *)
(* the packets sent.                                                       *)
(***************************************************************************)
EXTENDS PppControl

CONSTANT
  PeerOptions   \* the LCP options it asks for first

PeerState == {"Initial", "ReqSent", "AckReceived", "AckSent", "Opened", "Closing"}

Peer == [proto : {"LCP", "IPCP"}, state : PeerState, id : Id, seen : BOOLEAN,
         opts : Seq(Option)]

NewPeer(proto) ==
  [proto |-> proto, state |-> "Initial", id |-> 0, seen |-> FALSE,
   opts |-> IF proto = "LCP" THEN PeerOptions ELSE <<IpAddress(PeerAddr)>>]

(* Send-Configure-Request under a fresh id, after what is already sent. *)
PeerRequest(q, s, sent) ==
  LET id == (q.id + 1) % IdSpace
  IN Done([q EXCEPT !.state = s, !.id = id, !.seen = FALSE],
          Append(sent, Pkt(q.proto, "ConfReq", id, q.opts)))

PeerStay(q) == Done(q, <<>>)

(* It takes any LCP option; the address must be the one it assigns. *)
PeerAnswer(q, p, assign) ==
  IF q.proto = "LCP" \/ p.opts = <<IpAddress(assign)>>
    THEN [p EXCEPT !.code = "ConfAck"]
    ELSE Pkt(q.proto, "ConfNak", p.id, <<IpAddress(assign)>>)

PeerConfReq(q, p, assign) ==
  LET answer == PeerAnswer(q, p, assign)
      ack    == answer.code = "ConfAck"
      to(s)  == Done([q EXCEPT !.state = s], <<answer>>)
  IN CASE q.state = "ReqSent" -> to(IF ack THEN "AckSent" ELSE "ReqSent")
       [] q.state = "AckReceived" -> to(IF ack THEN "Opened" ELSE "AckReceived")
       [] q.state = "AckSent" -> to(IF ack THEN "AckSent" ELSE "ReqSent")
       [] q.state = "Opened" ->
            LET r == PeerRequest(q, IF ack THEN "AckSent" ELSE "ReqSent", <<>>)
            IN Done(r.a, Append(r.sent, answer))
       [] OTHER -> PeerStay(q)

PeerConfAck(q) ==
  CASE q.state = "ReqSent" -> Done([q EXCEPT !.state = "AckReceived"], <<>>)
    [] q.state = "AckSent" -> Done([q EXCEPT !.state = "Opened"], <<>>)
    [] q.state \in {"AckReceived", "Opened"} -> PeerRequest(q, "ReqSent", <<>>)
    [] OTHER -> PeerStay(q)

(* A value it is told to use replaces the refused one, a rejected option goes. *)
Amended(q, p) ==
  LET keep(o)   == \A i \in DOMAIN p.opts : p.opts[i] # o
      better(o) == IF \E i \in DOMAIN p.opts : p.opts[i].ty = o.ty
                     THEN CHOOSE n \in {p.opts[i] : i \in DOMAIN p.opts} : n.ty = o.ty
                     ELSE o
  IN IF p.code = "ConfRej" THEN SelectSeq(q.opts, keep)
     ELSE [i \in DOMAIN q.opts |-> better(q.opts[i])]

PeerConfNak(q, p) ==
  IF q.state \in {"Initial", "Closing"} THEN PeerStay(q)
  ELSE PeerRequest([q EXCEPT !.opts = Amended(q, p)],
                   IF q.state = "AckSent" THEN "AckSent" ELSE "ReqSent", <<>>)

PeerTermAck(q) ==
  CASE q.state = "AckReceived" -> Done([q EXCEPT !.state = "ReqSent"], <<>>)
    [] q.state \in {"Opened", "Closing"} -> PeerRequest(q, "ReqSent", <<>>)
    [] OTHER -> PeerStay(q)

PeerReceived(q, p, assign) ==
  CASE p.code = "ConfReq" -> PeerConfReq(q, p, assign)
    [] p.code = "ConfAck" /\ p.id = q.id /\ ~q.seen ->
         PeerConfAck([q EXCEPT !.seen = TRUE])
    [] p.code \in {"ConfNak", "ConfRej"} /\ p.id = q.id /\ ~q.seen -> PeerConfNak(q, p)
    [] p.code = "TermAck" -> PeerTermAck(q)
    [] OTHER -> PeerStay(q)

(* The Restart timer: the request, or the termination, is sent again. *)
PeerExpires(q) ==
  Done([q EXCEPT !.state = IF @ = "AckReceived" THEN "ReqSent" ELSE @,
                 !.seen = FALSE],
       <<Pkt(q.proto, IF q.state = "Closing" THEN "TermReq" ELSE "ConfReq", q.id,
             IF q.state = "Closing" THEN <<>> ELSE q.opts)>>)

PeerTerminate(q) ==
  LET id == (q.id + 1) % IdSpace
  IN Done([q EXCEPT !.state = "Closing", !.id = id],
          <<Pkt(q.proto, "TermReq", id, <<>>)>>)
=============================================================================
