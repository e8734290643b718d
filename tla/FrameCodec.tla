----------------------------- MODULE FrameCodec -----------------------------
(***************************************************************************)
(* The byte format of okboot's messages: okboot-common's frame/encode.rs   *)
(* and frame/decode.rs, as pure operators.                                 *)
(*                                                                         *)
(* The format is scaled down.  A byte has 3 bits instead of 8: BlockMax is *)
(* the largest byte, 0xff in the code, so a COBS block still holds one     *)
(* byte less than the largest code.  Fields of 4 bytes have F.  Magic      *)
(* bytes keep what matters of them: 0x55 is the COBS xor, which makes it   *)
(* the terminator; a byte of a length has its two high bits set, and so    *)
(* have 0xdd and 0xee.                                                     *)
(***************************************************************************)
EXTENDS Naturals, Sequences, SequencesExt

CONSTANT F    \* bytes of a length, a type, a CRC: 4 in the code

ASSUME FieldAssumption == F \in Nat \ {0}

BlockMax == 7
Byte == 0 .. BlockMax
COBS_XOR == 5
COBS_SENTINEL == 0
Xor(b) == <<5, 4, 7, 6, 1, 0, 3, 2>>[b + 1]

PREAMBLE_BYTES == <<5, 5, 5, 2>>     \* 55 55 55 5e
PUT_PROG_INFO  == <<4, 4, 3, 3>>     \* 44 44 33 33
PRINT_STRING   == <<7, 7, 6, 6>>     \* ee ee dd dd
Magic == {PREAMBLE_BYTES, PUT_PROG_INFO, PRINT_STRING}

(* MessageType: PrintString and one that carries a message. *)
LogType  == [i \in 1 .. F |-> IF i = 1 THEN 1 ELSE 0]
DataType == [i \in 1 .. F |-> IF i = 1 THEN 2 ELSE 6]
MessageTypes == {LogType, DataType}

(* crc32fast (external): some checksum of F bytes. *)
Crc(bytes) ==
  LET step(c, b) == (5 * c + b + 1) % 61
      sum == FoldLeft(step, 7, bytes)
  IN [i \in 1 .. F |-> (sum \div 8 ^ (i - 1)) % 8]

-----------------------------------------------------------------------------
(* Encoding. *)

(* encode_length: base-2 digits (64 in the code) with the high bits set. *)
encode_length(len) == [i \in 1 .. F |-> 6 + ((len \div 2 ^ (i - 1)) % 2)]

DecodedLength(digits) ==
  FoldRight(LAMBDA d, n : 2 * n + (d - 6), digits, 0)

(* to_le_bytes and from_le_bytes of a u32 *)
LeBytes(n) == [i \in 1 .. F |-> (n \div 8 ^ (i - 1)) % 8]
FromLeBytes(bytes) == FoldRight(LAMBDA b, n : 8 * n + b, bytes, 0)

(***************************************************************************)
(* FrameEncoderInner: buf holds what is between its first byte and cursor. *)
(* write_u8 adds to out the block it returns.                              *)
(***************************************************************************)
NewEncoder == [buf |-> <<>>, out |-> <<>>]
Cursor(e) == Len(e.buf) + 1

Flushed(e, code, bytes) == [buf |-> <<>>, out |-> e.out \o <<code>> \o bytes]

write_u8(e, x) ==
  CASE x = COBS_SENTINEL -> Flushed(e, Cursor(e), e.buf)
    [] x # COBS_SENTINEL /\ Cursor(e) = BlockMax - 1 ->
         Flushed(e, BlockMax, Append(e.buf, x))
    [] OTHER -> [e EXCEPT !.buf = Append(@, x)]

finish(e) == Flushed(e, Cursor(e), Append(e.buf, COBS_SENTINEL))

(* FrameEncoder: all of it under the xor. *)
Stuffed(bytes) ==
  LET out == finish(FoldLeft(write_u8, NewEncoder, bytes)).out
  IN [i \in DOMAIN out |-> Xor(out[i])]

(* FrameSink::send, rpc_println; encode of okdude *)
EncodedFrame(type, payload) ==
  LET content == type \o payload
  IN PREAMBLE_BYTES \o encode_length(Len(payload)) \o Stuffed(content \o Crc(content))

(* legacy_print_string *)
EncodedString(text) == PRINT_STRING \o LeBytes(Len(text)) \o text

-----------------------------------------------------------------------------
(* Decoding: each operator returns the layer after the byte and its output. *)

(***************************************************************************)
(* FrameLayer.  PreambleState is the bytes matched so far.                 *)
(***************************************************************************)
NewLayer ==
  [state |-> "Preamble", pre |-> <<>>, i |-> 0, payload_len |-> 0,
   last_jump |-> 0, since |-> 0,
   length_bytes |-> <<>>, header_bytes |-> <<>>, crc_bytes |-> <<>>, crc |-> <<>>]

Out(d, kind) == [d |-> d, kind |-> kind, byte |-> 0]
OutByte(d, kind, b) == [d |-> d, kind |-> kind, byte |-> b]

(* Mutant: a fourth 0x55 is no part of a preamble. *)
FeedPreambleStrict(d, b) ==
  LET t == Append(d.pre, b)
      to(s) == [d EXCEPT !.pre = <<>>, !.state = s, !.i = 0]
  IN CASE t = PREAMBLE_BYTES -> Out([to("Length") EXCEPT !.length_bytes = <<>>], "Skip")
       [] t = PUT_PROG_INFO -> Out(to("Legacy"), "Legacy")
       [] IsPrefix(PRINT_STRING, t) /\ Len(t) = 4 + F ->
            Out([to("LegacyPrintString") EXCEPT
                   !.payload_len = FromLeBytes(SubSeq(t, 5, 4 + F))], "Skip")
       [] \/ \E m \in Magic : IsStrictPrefix(t, m)
          \/ IsPrefix(PRINT_STRING, t) /\ Len(t) < 4 + F ->
            Out([d EXCEPT !.pre = t], "Skip")
       [] OTHER -> Out([d EXCEPT !.pre = <<>>], "Err")

(* PreambleDecoder::feed *)
FeedPreamble(d, b) ==
  LET t == Append(d.pre, b)
      to(s) == [d EXCEPT !.pre = <<>>, !.state = s, !.i = 0]
  IN CASE t = PREAMBLE_BYTES -> Out([to("Length") EXCEPT !.length_bytes = <<>>], "Skip")
       [] t = PUT_PROG_INFO -> Out(to("Legacy"), "Legacy")
       [] IsPrefix(PRINT_STRING, t) /\ Len(t) = 4 + F ->
            Out([to("LegacyPrintString") EXCEPT
                   !.payload_len = FromLeBytes(SubSeq(t, 5, 4 + F))], "Skip")
       [] \/ \E m \in Magic : IsStrictPrefix(t, m)
          \/ IsPrefix(PRINT_STRING, t) /\ Len(t) < 4 + F ->
            Out([d EXCEPT !.pre = t], "Skip")
       [] t = <<COBS_XOR, COBS_XOR, COBS_XOR, COBS_XOR>> -> Out(d, "Skip")
       [] OTHER -> Out([d EXCEPT !.pre = <<>>], "Err")

(* Mutant: the zero after a full block is taken for data. *)
CobsPollZero(d, b) ==
  LET x == Xor(b)
      jumped == [d EXCEPT !.last_jump = x, !.since = 0]
  IN CASE d.last_jump = 0 -> IF x = 0 THEN Out(d, "Err") ELSE Out(jumped, "Skip")
       [] d.last_jump # 0 /\ d.since + 1 < d.last_jump ->
            LET e == [d EXCEPT !.since = @ + 1]
            IN IF x = 0 THEN Out(e, "Err") ELSE OutByte(e, "Byte", x)
       [] OTHER -> IF x = 0 THEN Out(jumped, "Finished") ELSE OutByte(jumped, "Byte", 0)

(* CobsDecoder::poll *)
CobsPoll(d, b) ==
  LET x == Xor(b)
      jumped == [d EXCEPT !.last_jump = x, !.since = 0]
      ticked == [d EXCEPT !.since = @ + 1]
  IN CASE d.last_jump = 0 ->
            IF x = COBS_SENTINEL \/ d.since # 0 THEN Out(d, "Err") ELSE Out(jumped, "Skip")
       [] d.last_jump # 0 /\ d.since + 1 < d.last_jump ->
            IF x = COBS_SENTINEL THEN Out(ticked, "Err") ELSE OutByte(ticked, "Byte", x)
       [] OTHER ->
            CASE x = COBS_SENTINEL -> Out(jumped, "Finished")
              [] x # COBS_SENTINEL /\ d.last_jump < BlockMax -> OutByte(jumped, "Byte", 0)
              [] OTHER -> Out(jumped, "Skip")

FeedLength(d, b) ==
  LET digits == Append(d.length_bytes, b)
  IN IF b < 6 THEN Out(d, "Err")
     ELSE IF Len(digits) < F THEN Out([d EXCEPT !.length_bytes = digits], "Skip")
     ELSE Out([d EXCEPT !.state = "PacketHeader", !.payload_len = DecodedLength(digits),
                        !.length_bytes = <<>>, !.header_bytes = <<>>], "Skip")

FeedHeader(d, b) ==
  LET c == CobsPoll(d, b)
      bytes == Append(d.header_bytes, c.byte)
      e == [c.d EXCEPT !.header_bytes = bytes, !.crc = Append(@, c.byte)]
  IN CASE c.kind = "Finished" -> Out(c.d, "Err")           \* HeaderCutoff
       [] c.kind \in {"Skip", "Err"} -> c
       [] c.kind = "Byte" /\ Len(bytes) < F -> Out(e, "Skip")
       [] c.kind = "Byte" /\ Len(bytes) = F /\ bytes \notin MessageTypes ->
            Out(e, "Err")                                    \* InvalidType
       [] OTHER -> Out([e EXCEPT !.state = "PacketBody", !.i = 0, !.crc_bytes = <<>>],
                       "Header")

(* Mutant: the CRC is not started afresh after a frame. *)
FeedBodyKeepsCrc(d, b) ==
  LET c == CobsPoll(d, b)
      e == [c.d EXCEPT !.i = @ + 1]
      whole == Len(d.crc_bytes) = F
  IN CASE c.kind \in {"Skip", "Err"} -> c
       [] c.kind = "Byte" /\ d.i < d.payload_len ->
            OutByte([e EXCEPT !.crc = Append(@, c.byte)], "Payload", c.byte)
       [] c.kind = "Byte" /\ d.i >= d.payload_len /\ ~whole ->
            Out([e EXCEPT !.crc_bytes = Append(@, c.byte)], "Skip")
       [] c.kind = "Byte" /\ d.i >= d.payload_len /\ whole -> Out(e, "Err")
       [] c.kind = "Finished" /\ whole /\ Crc(d.crc) = d.crc_bytes ->
            Out([NewLayer EXCEPT !.crc = d.crc], "Finished")
       [] OTHER -> Out([c.d EXCEPT !.crc = <<>>], "Err")

(* i counts from the end of the header. *)
FeedBody(d, b) ==
  LET c == CobsPoll(d, b)
      e == [c.d EXCEPT !.i = @ + 1]
      whole == Len(d.crc_bytes) = F
  IN CASE c.kind \in {"Skip", "Err"} -> c
       [] c.kind = "Byte" /\ d.i < d.payload_len ->
            OutByte([e EXCEPT !.crc = Append(@, c.byte)], "Payload", c.byte)
       [] c.kind = "Byte" /\ d.i >= d.payload_len /\ ~whole ->
            Out([e EXCEPT !.crc_bytes = Append(@, c.byte)], "Skip")
       [] c.kind = "Byte" /\ d.i >= d.payload_len /\ whole -> Out(e, "Err")   \* Overrun
       [] c.kind = "Finished" /\ whole /\ Crc(d.crc) = d.crc_bytes ->
            Out(NewLayer, "Finished")
       [] OTHER -> Out([c.d EXCEPT !.crc = <<>>], "Err")   \* cut off, or InvalidCRC

FeedString(d, b) ==
  OutByte(IF d.i + 1 >= d.payload_len
            THEN [d EXCEPT !.state = "Preamble", !.i = 0, !.payload_len = 0]
            ELSE [d EXCEPT !.i = @ + 1], "LegacyPrintStringByte", b)

(* FrameLayer::feed *)
feed(d, b) ==
  CASE d.state = "Legacy" -> Out(d, "Legacy")
    [] d.state = "Preamble" -> FeedPreamble(d, b)
    [] d.state = "Length" -> FeedLength(d, b)
    [] d.state = "PacketHeader" -> FeedHeader(d, b)
    [] d.state = "PacketBody" -> FeedBody(d, b)
    [] d.state = "LegacyPrintString" -> FeedString(d, b)

=============================================================================
