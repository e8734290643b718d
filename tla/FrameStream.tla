---------------------------- MODULE FrameStream ----------------------------
(***************************************************************************)
(* The bytes okboot sends to okdude during a V2 session, and okdude's      *)
(* Decoder (host/okdude/src/v2.rs), which picks messages and printed       *)
(* strings out of them, over a line that may lose or alter bytes.          *)
(*                                                                         *)
(* drive reads as many bytes as have arrived and passes them on together;  *)
(* where such a chunk ends matters only when an error makes                *)
(* process_incoming_bytes return: the rest of the chunk is lost.           *)
(***************************************************************************)
EXTENDS FrameCodec

CONSTANTS
  Payloads,    \* of messages
  Logs,        \* what rpc_println prints
  Texts,       \* what legacy_print_string prints
  MaxItems,    \* items sent
  LineCap,     \* bytes that may still be on the line when an item is sent
  MaxFaults,   \* bytes lost or altered
  Noise        \* what an altered byte may become

ASSUME StreamAssumption ==
  /\ MaxItems \in Nat /\ LineCap \in Nat /\ MaxFaults \in Nat
  /\ Noise \subseteq Byte

(***************************************************************************)
(* FrameSink::send, rpc_println, legacy_print_string.  What is printed     *)
(* ends with a newline, a byte of no magic.                                *)
(***************************************************************************)
Newline == 1
Item == [kind : {"msg"}, bytes : Payloads] \cup
        [kind : {"log"}, bytes : {Append(p, Newline) : p \in Logs}] \cup
        [kind : {"str"}, bytes : {Append(p, Newline) : p \in Texts}]

Encoded(item) ==
  CASE item.kind = "log" -> EncodedFrame(LogType, item.bytes)
    [] item.kind = "msg" -> EncodedFrame(DataType, item.bytes)
    [] item.kind = "str" -> EncodedString(item.bytes)

VARIABLES
  line,           \* bytes between the two
  decoder,        \* FrameLayer
  frame_header,   \* whether Decoder has one, and which
  buffer,
  got,            \* items delivered: messages, framed logs, legacy strings
  sent,           \* history: items sent
  calm,           \* history: items sent on an empty line since the last fault
  faults,         \* history
  stale,          \* history: a legacy string began with bytes left in buffer
  misread,        \* history: remains of a damaged item read as a legacy magic
  bailed          \* history: a bail! other than for PUT_PROG_INFO

hostVars == <<decoder, frame_header, buffer, got>>
vars == <<line, hostVars, sent, calm, faults, stale, misread, bailed>>

None == <<>>

Init ==
  /\ line = <<>>
  /\ decoder = NewLayer /\ frame_header = None /\ buffer = <<>>
  /\ got = <<>> /\ sent = <<>>
  /\ calm = 0 /\ faults = 0
  /\ stale = FALSE /\ misread = FALSE /\ bailed = FALSE

-----------------------------------------------------------------------------
(* The device and the line. *)

Send(item) ==
  /\ Len(sent) < MaxItems /\ Len(line) <= LineCap
  /\ line' = line \o Encoded(item)
  /\ sent' = Append(sent, item)
  /\ calm' = IF line = <<>> THEN calm + 1 ELSE calm
  /\ UNCHANGED <<hostVars, faults, stale, misread, bailed>>

(* A noisy line (external): the next byte is lost or altered. *)
Fault ==
  /\ line # <<>> /\ faults < MaxFaults
  /\ faults' = faults + 1 /\ calm' = 0
  /\ \/ line' = Tail(line)
     \/ \E b \in Noise \ {Head(line)} : line' = <<b>> \o Tail(line)
  /\ UNCHANGED <<hostVars, sent, stale, misread, bailed>>

-----------------------------------------------------------------------------
(* Decoder. *)

(* After an error the rest of the chunk is lost, however much has arrived. *)
Unread(failed) ==
  {SubSeq(line, k + 1, Len(line)) : k \in IF failed THEN 1 .. Len(line) ELSE {1}}

Delivered(kind, bytes) == got' = Append(got, [kind |-> kind, bytes |-> bytes])

(* Mutant: the header of the damaged frame is kept. *)
OnErrKeepsHeader(r) ==
  /\ r.kind = "Err"
  /\ decoder' = NewLayer /\ buffer' = <<>>
  /\ line' \in Unread(TRUE)
  /\ UNCHANGED <<frame_header, got, bailed>>

(* reset; process_incoming_bytes returns the error. *)
OnErr(r) ==
  /\ r.kind = "Err"
  /\ decoder' = NewLayer /\ frame_header' = None /\ buffer' = <<>>
  /\ line' \in Unread(TRUE)
  /\ UNCHANGED <<got, bailed>>

OnHeader(r) ==
  LET second == frame_header # None
  IN /\ r.kind = "Header"
     /\ frame_header' = IF second THEN frame_header ELSE r.d.header_bytes
     /\ buffer' = IF second THEN buffer ELSE <<>>
     /\ line' \in Unread(second)
     /\ bailed' = (bailed \/ second)
     /\ decoder' = r.d
     /\ UNCHANGED got

OnPayload(r) ==
  LET none == frame_header = None
  IN /\ r.kind = "Payload"
     /\ buffer' = IF none THEN buffer ELSE Append(buffer, r.byte)
     /\ line' \in Unread(none)
     /\ bailed' = (bailed \/ none)
     /\ decoder' = r.d
     /\ UNCHANGED <<frame_header, got>>

(* A framed PrintString is logged; buffer is emptied only by a message. *)
OnFinished(r) ==
  LET none == frame_header = None
      log  == frame_header = LogType
  IN /\ r.kind = "Finished"
     /\ IF none THEN UNCHANGED got ELSE Delivered(IF log THEN "log" ELSE "msg", buffer)
     /\ buffer' = IF none \/ log THEN buffer ELSE <<>>
     /\ line' \in Unread(none)
     /\ bailed' = (bailed \/ none)
     /\ frame_header' = None
     /\ decoder' = r.d

(* PUT_PROG_INFO: an error without a reset. *)
OnLegacy(r) ==
  /\ r.kind = "Legacy"
  /\ decoder' = r.d
  /\ line' \in Unread(TRUE)
  /\ UNCHANGED <<frame_header, buffer, got, bailed>>

(* The string is whole when buffer has its length, whatever decoder says. *)
OnStringByte(r) ==
  /\ r.kind = "LegacyPrintStringByte"
  /\ line' = Tail(line)
  /\ LET text == Append(buffer, r.byte)
     IN IF Len(text) = decoder.payload_len
          THEN /\ Delivered("str", text)
               /\ decoder' = NewLayer /\ frame_header' = None /\ buffer' = <<>>
          ELSE /\ decoder' = r.d /\ buffer' = text
               /\ UNCHANGED <<frame_header, got>>
  /\ UNCHANGED bailed

OnSkip(r) ==
  /\ r.kind = "Skip"
  /\ decoder' = r.d /\ line' = Tail(line)
  /\ UNCHANGED <<frame_header, buffer, got, bailed>>

(* process_incoming_bytes, one byte *)
Process ==
  /\ line # <<>>
  /\ LET r == feed(decoder, Head(line))
     IN /\ \/ OnErr(r) \/ OnSkip(r) \/ OnHeader(r) \/ OnPayload(r)
           \/ OnFinished(r) \/ OnLegacy(r) \/ OnStringByte(r)
        /\ LET legacy == decoder.state = "Preamble"
                           /\ r.d.state \in {"Legacy", "LegacyPrintString"}
           IN /\ stale' = (stale \/ (legacy /\ buffer # <<>>))
              /\ misread' = (misread \/ (legacy /\ faults > 0 /\ calm <= 1))
  /\ UNCHANGED <<sent, calm, faults>>

-----------------------------------------------------------------------------
Next == (\E item \in Item : Send(item)) \/ Fault \/ Process

Spec == Init /\ [][Next]_vars

-----------------------------------------------------------------------------
(* Properties *)

(***************************************************************************)
(* On a line without faults every item is delivered, whole and in order,   *)
(* unless a legacy string came when Decoder's buffer still held the text   *)
(* of a framed PrintString (process_incoming_bytes, Finished).             *)
(***************************************************************************)
DeliveredInOrder ==
  faults = 0 /\ ~stale =>
    /\ IsPrefix(got, sent)
    /\ line = <<>> => got = sent

(***************************************************************************)
(* Damage does not last: after the last fault, of two items each sent on   *)
(* an empty line the second, if it is a frame, is delivered, wherever      *)
(* chunks end, unless the remains of the damaged item or of the next were  *)
(* read as a legacy magic (FrameLayer::feed, reset).  A legacy string may  *)
(* still be lost: the terminator of a frame cut in two is the first byte   *)
(* of a preamble, which a frame continues and a string does not.           *)
(***************************************************************************)
Resynchronises ==
  /\ line = <<>> /\ calm >= 2 /\ ~stale /\ ~misread
  /\ sent[Len(sent)].kind # "str"
  => got # <<>> /\ got[Len(got)] = sent[Len(sent)]

(***************************************************************************)
(* FrameLayer never gives a second header, a payload byte or an end        *)
(* without a header, even after faults: the bail!s of                      *)
(* process_incoming_bytes that leave Decoder as it is are not reached.     *)
(***************************************************************************)
NeverBails == ~bailed

(* What CobsDecoder makes of a block sequence. *)
Unstuffed(wire) ==
  LET step(s, b) ==
        LET r == CobsPoll(s.d, b)
        IN [d |-> r.d, out |-> IF r.kind = "Byte" THEN Append(s.out, r.byte) ELSE s.out,
            kinds |-> s.kinds \cup {r.kind}, last |-> r.kind]
  IN FoldLeft(step, [d |-> NewLayer, out |-> <<>>, kinds |-> {}, last |-> ""], wire)

Contents == UNION {[1 .. n -> {0, 1, COBS_XOR}] : n \in 0 .. BlockMax + 2}

(***************************************************************************)
(* Whatever is encoded, the terminator occurs nowhere but at the end, so   *)
(* no preamble does, and poll gives back what write_u8 was given: also     *)
(* when a block is full, or full at the end (write_u8, finish, poll).      *)
(***************************************************************************)
StuffingRoundTrips ==
  sent = <<>> => \A c \in Contents :
    LET wire == Stuffed(c)
        u == Unstuffed(wire)
    IN /\ \A i \in 1 .. Len(wire) - 1 : wire[i] # COBS_XOR
       /\ wire[Len(wire)] = COBS_XOR
       /\ u.out = c /\ u.last = "Finished" /\ "Err" \notin u.kinds
=============================================================================
