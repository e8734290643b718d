----------------------------- MODULE PppControl -----------------------------
(***************************************************************************)
(* The control automaton of antimony's PPP stack (net/control.rs) with its *)
(* two layers, LCP and IPCP, and the options they negotiate (net/lcp.rs,   *)
(* net/ipcp.rs).                                                           *)
(*                                                                         *)
(* Every operation is a pure operator: it takes an automaton and returns   *)
(* the automaton after the call and the packets it handed to phy::send, in *)
(* order.  An option is its type and, where judge looks at it, its value;  *)
(* "Unknown" is any option that from_bytes does not take (a type it does   *)
(* not know or a wrong length).  Option lists are well formed: the FCS     *)
(* stands between the automaton and the line.                              *)
(***************************************************************************)
EXTENDS Integers, Sequences

CONSTANTS
  IdSpace,   \* number of packet ids, 256 in the code
  Addr       \* IPv4 addresses a peer may assign

Unset == "0.0.0.0"       \* host_address = None, sent as 0.0.0.0
PeerAddr == "10.0.0.1"   \* the peer's own
NoUpdate == "no update"  \* prev_host_address = None
NoId == -1               \* last_req_id = None

ASSUME PppAssumption ==
  /\ IdSpace \in Nat \ {0}
  /\ Unset \notin Addr /\ NoUpdate \notin Addr

Id == 0 .. IdSpace - 1

S == {"Closed", "ReqSent", "AckReceived", "AckSent", "Opened"}

Proto == {"LCP", "IPCP", "IP", "OTHER"}

Option == [ty : {"Mru", "Accm", "AuthProtocol", "QualProtocol", "Magic",
                 "PFCompression", "ACFCompression", "IpCompression",
                 "IpAddress", "Unknown"},
           val : {"1500", "0", "other", Unset, PeerAddr} \cup Addr \cup Proto]

Mru1500 == [ty |-> "Mru", val |-> "1500"]
Accm0   == [ty |-> "Accm", val |-> "0"]
Magic   == [ty |-> "Magic", val |-> "0"]
IpAddress(a) == [ty |-> "IpAddress", val |-> a]

Code == {"ConfReq", "ConfAck", "ConfNak", "ConfRej", "TermReq", "TermAck",
         "ProtRej", "EchoReq", "EchoReply", "Data"}

Packet == [proto : Proto, code : Code, id : Id, opts : Seq(Option)]

Pkt(proto, code, id, opts) ==
  [proto |-> proto, code |-> code, id |-> id, opts |-> opts]

(***************************************************************************)
(* An automaton and the fields of its layer; only IPCP's change.           *)
(***************************************************************************)
Automaton ==
  [proto : {"LCP", "IPCP"}, state : S, scr_id : Id, last_req_id : Id \cup {NoId},
   host_address : Addr \cup {Unset},
   prev_host_address : Addr \cup {Unset, NoUpdate},
   peer_address : Addr \cup {Unset, PeerAddr}]

NewAutomaton(proto) ==
  [proto |-> proto, state |-> "Closed", scr_id |-> 0, last_req_id |-> NoId,
   host_address |-> Unset, prev_host_address |-> NoUpdate,
   peer_address |-> Unset]

is_layer_up(a) == a.state = "Opened"
is_closed(a) == a.state = "Closed"

-----------------------------------------------------------------------------
(* The layers. *)

Ack == [verdict |-> "Ack"]
Nak(o) == [verdict |-> "Nak", opt |-> o]
Rej(o) == [verdict |-> "Rej", opt |-> o]

(* Lcp::judge; for an Accm other than 0 it proposes an MRU. *)
judge_lcp(o) ==
  CASE o.ty \in {"Mru", "Accm"} ->
         IF o \in {Mru1500, Accm0} THEN Ack ELSE Nak(Mru1500)
    [] OTHER -> Rej(o)

(* Ipcp::judge *)
judge_ipcp(o) == IF o.ty = "IpAddress" THEN Ack ELSE Rej(o)

judge(a, o) == IF a.proto = "LCP" THEN judge_lcp(o) ELSE judge_ipcp(o)

(* Lcp::get_opts, Ipcp::get_opts *)
get_opts(a) ==
  IF a.proto = "LCP" THEN <<Magic, Accm0>> ELSE <<IpAddress(a.host_address)>>

IsAddress(o) == o.ty = "IpAddress"

(* Mutant: the update is never announced to the driver. *)
set_host_ips_silent(a, addresses) ==
  IF addresses = <<>> THEN a
  ELSE [a EXCEPT !.host_address = addresses[Len(addresses)].val]

(* Mutant: the address is replaced before it is remembered. *)
set_host_ips_swapped(a, addresses) ==
  LET n == Len(addresses)
  IN IF n = 0 THEN a
     ELSE [a EXCEPT !.host_address = addresses[n].val,
                    !.prev_host_address = addresses[n].val]

(***************************************************************************)
(* Ipcp::set_host_ip for each address of a Nak: prev_host_address is the   *)
(* address before the last one, whether or not the driver took it.         *)
(***************************************************************************)
set_host_ips(a, addresses) ==
  LET n == Len(addresses)
  IN IF n = 0 THEN a
     ELSE [a EXCEPT !.host_address = addresses[n].val,
                    !.prev_host_address =
                       IF n = 1 THEN a.host_address ELSE addresses[n - 1].val]

(* received_nak_opt over the options of a Nak: the automaton, and all_ok. *)
NakTaken(a, opts) ==
  IF a.proto = "LCP" THEN a ELSE set_host_ips(a, SelectSeq(opts, IsAddress))

NakHandled(a, opts) ==
  \A i \in DOMAIN opts :
     opts[i].ty # "Unknown" => a.proto = "IPCP" /\ IsAddress(opts[i])

(* The judging of an address also records it (Ipcp::judge). *)
PeerAddress(a, opts) ==
  LET mine == SelectSeq(opts, IsAddress)
  IN IF a.proto = "IPCP" /\ mine # <<>> THEN mine[Len(mine)].val ELSE a.peer_address

-----------------------------------------------------------------------------
(* Operations of ControlAutomaton. *)

Done(a, sent) == [a |-> a, sent |-> sent]

(* Mutant: the id is not wrapped. *)
send_configure_request_unwrapped(a, sent) ==
  Done([a EXCEPT !.scr_id = @ + 1],
       Append(sent, Pkt(a.proto, "ConfReq", a.scr_id, get_opts(a))))

(* send_configure_request from an automaton already in its next state. *)
send_configure_request(a, sent) ==
  Done([a EXCEPT !.scr_id = (@ + 1) % IdSpace],
       Append(sent, Pkt(a.proto, "ConfReq", a.scr_id, get_opts(a))))

open(a) == send_configure_request([a EXCEPT !.state = "ReqSent"], <<>>)

close(a) == [a EXCEPT !.state = "Closed"]

(***************************************************************************)
(* received_configure_request: one rejected option rejects the request,    *)
(* else one refused value refuses it; the answer lists just those.         *)
(***************************************************************************)
Answer(a, p) ==
  LET verdicts == [i \in DOMAIN p.opts |-> judge(a, p.opts[i])]
      Is(v)    == \E i \in DOMAIN verdicts : verdicts[i].verdict = v
      Those(v) == LET sel(x) == x.verdict = v
                      vs == SelectSeq(verdicts, sel)
                  IN [i \in DOMAIN vs |-> vs[i].opt]
  IN CASE Is("Rej") -> Pkt(a.proto, "ConfRej", p.id, Those("Rej"))
       [] ~Is("Rej") /\ Is("Nak") -> Pkt(a.proto, "ConfNak", p.id, Those("Nak"))
       [] OTHER -> [p EXCEPT !.code = "ConfAck"]

(* received, ConfReq *)
ReceivedConfReq(a, p) ==
  LET answer == Answer(a, p)
      ack    == answer.code = "ConfAck"
      b      == [a EXCEPT !.last_req_id = p.id,
                          !.peer_address = PeerAddress(a, p.opts)]
      to(s)  == Done([b EXCEPT !.state = s], <<answer>>)
  IN CASE a.state = "ReqSent" /\ ack -> to("AckSent")
       [] a.state = "AckReceived" /\ ack -> to("Opened")
       [] a.state = "AckSent" /\ ~ack -> to("ReqSent")
       [] a.state = "Opened" /\ a.last_req_id # p.id ->
            send_configure_request(
              [b EXCEPT !.state = IF ack THEN "AckSent" ELSE "ReqSent"], <<answer>>)
       [] OTHER -> to(a.state)

(* Mutant: the acknowledgement that should open IPCP is not the last word. *)
ReceivedConfAckHalf(a) ==
  IF a.state = "ReqSent" \/ (a.proto = "IPCP" /\ a.state = "AckSent")
    THEN Done([a EXCEPT !.state = "AckReceived"], <<>>)
  ELSE IF a.state = "AckSent" THEN Done([a EXCEPT !.state = "Opened"], <<>>)
  ELSE send_configure_request([a EXCEPT !.state = "ReqSent"], <<>>)

(* received, ConfAck: the id is not compared with that of a request. *)
ReceivedConfAck(a) ==
  CASE a.state = "ReqSent" -> Done([a EXCEPT !.state = "AckReceived"], <<>>)
    [] a.state = "AckSent" -> Done([a EXCEPT !.state = "Opened"], <<>>)
    [] OTHER -> send_configure_request([a EXCEPT !.state = "ReqSent"], <<>>)


(* received, TermReq *)
ReceivedTermReq(a, p) ==
  Done(IF is_layer_up(a)
         THEN [a EXCEPT !.state = "Closed", !.last_req_id = NoId]
         ELSE [a EXCEPT !.state = "ReqSent"],
       <<Pkt(a.proto, "TermAck", p.id, <<>>)>>)

(* received, ConfNak *)
ReceivedConfNak(a, p) ==
  LET b == NakTaken(a, p.opts)
  IN IF NakHandled(a, p.opts) THEN send_configure_request(b, <<>>) ELSE Done(b, <<>>)

(* Codes above 7 reach received_unknown_code in every state. *)
ReceivedUnknownCode(a, p) ==
  Done(a, IF a.proto = "LCP" /\ p.code = "EchoReq"
            THEN <<[p EXCEPT !.code = "EchoReply"]>> ELSE <<>>)

(* received *)
Received(a, p) ==
  CASE p.code \in {"ProtRej", "EchoReq", "EchoReply"} -> ReceivedUnknownCode(a, p)
    [] is_closed(a) /\ p.code \notin {"ProtRej", "EchoReq", "EchoReply"} ->
         Done(a, <<Pkt(a.proto, "TermAck", p.id, <<>>)>>)
    [] ~is_closed(a) /\ p.code = "ConfReq" -> ReceivedConfReq(a, p)
    [] ~is_closed(a) /\ p.code = "ConfAck" -> ReceivedConfAck(a)
    [] ~is_closed(a) /\ p.code = "TermReq" -> ReceivedTermReq(a, p)
    [] ~is_closed(a) /\ p.code = "ConfNak" -> ReceivedConfNak(a, p)
    [] OTHER -> Done(a, <<>>)     \* TermAck, ConfRej: only logged
=============================================================================
