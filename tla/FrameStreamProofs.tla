------------------------- MODULE FrameStreamProofs -------------------------
(***************************************************************************)
(* The bail!s of okdude's Decoder are not reached, for every width of the  *)
(* fields, all items and every number and kind of faults.                  *)
(*                                                                         *)
(* Decoder has a header exactly while FrameLayer is in the body of a       *)
(* frame.  The two live in different crates and are reset by different     *)
(* statements; that they agree after every byte is the invariant.  What    *)
(* the bytes are does not matter, so they are left untyped: noise may be   *)
(* anything.                                                               *)
(***************************************************************************)
EXTENDS FrameStream, TLAPS

Fields == {"state", "pre", "i", "payload_len", "last_jump", "since",
           "length_bytes", "header_bytes", "crc_bytes", "crc"}

States == {"Preamble", "Length", "PacketHeader", "PacketBody", "Legacy",
           "LegacyPrintString"}

IsSequence(s) == s \in Seq({s[i] : i \in DOMAIN s})

(* A FrameLayer as far as its control goes. *)
Layer(d) ==
  /\ DOMAIN d = Fields
  /\ d.state \in States
  /\ IsSequence(d.header_bytes)

InBody(d) == d.state = "PacketBody"

IInv ==
  /\ Layer(decoder)
  /\ InBody(decoder) <=> frame_header # None
  /\ bailed = FALSE

-----------------------------------------------------------------------------
(* FrameLayer: what each output says of the state before and after it. *)

(* A sequence over some set is one over its own elements. *)
LEMMA OwnElements ==
  ASSUME NEW T, NEW s \in Seq(T)
  PROVE  IsSequence(s)
<1> DEFINE R == {s[i] : i \in DOMAIN s}
<1>1. s \in [1 .. Len(s) -> R] /\ Len(s) \in Nat
  OBVIOUS
<1> HIDE DEF R
<1>2. s \in Seq(R)
  BY <1>1
<1> QED
  BY <1>2 DEF IsSequence, R

(* The sequence grows by the element, whatever it is. *)
LEMMA AppendIsSequence ==
  ASSUME NEW s, IsSequence(s), NEW e
  PROVE  IsSequence(Append(s, e)) /\ Append(s, e) # <<>>
<1> DEFINE R == {s[i] : i \in DOMAIN s}
<1>1. s \in Seq(R)
  BY DEF IsSequence
<1> HIDE DEF R
<1>2. s \in Seq(R \cup {e})
  BY <1>1
<1>3. /\ Append(s, e) \in Seq(R \cup {e})
      /\ Len(Append(s, e)) = Len(s) + 1 /\ Len(s) \in Nat
  BY <1>2
<1>4. IsSequence(Append(s, e))
  BY <1>3, OwnElements, Zenon
<1>5. Append(s, e) # <<>>
  <2>1. Len(Append(s, e)) > 0 /\ Len(<<>>) = 0
    BY <1>3
  <2> QED
    BY <2>1
<1> QED
  BY <1>4, <1>5

(* reset, and a layer after Finished. *)
LEMMA NewLayerFacts == Layer(NewLayer) /\ ~InBody(NewLayer)
  BY DEF Layer, NewLayer, Fields, States, InBody, IsSequence

(* CobsDecoder::poll touches nothing of the layer but its own two fields. *)
LEMMA CobsPollFacts ==
  ASSUME NEW d, Layer(d), NEW b
  PROVE  /\ Layer(CobsPoll(d, b).d)
         /\ CobsPoll(d, b).d.state = d.state
         /\ CobsPoll(d, b).kind \in {"Skip", "Err", "Byte", "Finished"}
  BY DEF Layer, Fields, CobsPoll, Out, OutByte

(* Only PacketHeader gives a header, and it gives one that is not empty;   *)
(* only PacketBody gives payload and the end; both leave the body only by  *)
(* the end or an error, which resets the layer.                            *)
FeedSound(d, r) ==
  /\ r.kind # "Err" => Layer(r.d)
  /\ r.kind = "Skip" => (InBody(r.d) <=> InBody(d))
  /\ r.kind = "Header" => ~InBody(d) /\ InBody(r.d) /\ r.d.header_bytes # <<>>
  /\ r.kind = "Payload" => InBody(d) /\ InBody(r.d)
  /\ r.kind = "Finished" => InBody(d) /\ ~InBody(r.d)
  /\ r.kind \in {"Legacy", "LegacyPrintStringByte"} => ~InBody(d) /\ ~InBody(r.d)

(* A layer stays one as long as its state is one and the header is whole. *)
LEMMA StillLayer ==
  ASSUME NEW d, DOMAIN d = Fields, d.state \in States,
         NEW h, IsSequence(h), d.header_bytes = h
  PROVE  Layer(d)
  BY Zenon DEF Layer

(* PreambleDecoder::feed *)
LEMMA FeedPreambleSound ==
  ASSUME NEW d, Layer(d), NEW b, d.state = "Preamble"
  PROVE  FeedSound(d, FeedPreamble(d, b))
<1> DEFINE t == Append(d.pre, b)
           n == FromLeBytes(SubSeq(t, 5, 4 + F))
           A == IsPrefix(PRINT_STRING, t) /\ Len(t) = 4 + F
           B == \/ \E m \in Magic : IsStrictPrefix(t, m)
                \/ IsPrefix(PRINT_STRING, t) /\ Len(t) < 4 + F
           to(s) == [d EXCEPT !.pre = <<>>, !.state = s, !.i = 0]
<1>1. \/ FeedPreamble(d, b) = Out([to("Length") EXCEPT !.length_bytes = <<>>], "Skip")
      \/ FeedPreamble(d, b) = Out(to("Legacy"), "Legacy")
      \/ FeedPreamble(d, b) = Out([to("LegacyPrintString") EXCEPT !.payload_len = n], "Skip")
      \/ FeedPreamble(d, b) = Out([d EXCEPT !.pre = t], "Skip")
      \/ FeedPreamble(d, b) = Out(d, "Skip")
      \/ FeedPreamble(d, b) = Out([d EXCEPT !.pre = <<>>], "Err")
  <2>1. FeedPreamble(d, b) =
          CASE t = PREAMBLE_BYTES -> Out([to("Length") EXCEPT !.length_bytes = <<>>], "Skip")
            [] t = PUT_PROG_INFO -> Out(to("Legacy"), "Legacy")
            [] A -> Out([to("LegacyPrintString") EXCEPT !.payload_len = n], "Skip")
            [] B -> Out([d EXCEPT !.pre = t], "Skip")
            [] t = <<COBS_XOR, COBS_XOR, COBS_XOR, COBS_XOR>> -> Out(d, "Skip")
            [] OTHER -> Out([d EXCEPT !.pre = <<>>], "Err")
    BY DEF FeedPreamble
  <2> HIDE DEF A, B, n, t
  <2> QED
    BY <2>1
<1> HIDE DEF t, n
<1>c1. CASE FeedPreamble(d, b) = Out([to("Length") EXCEPT !.length_bytes = <<>>], "Skip")
  <2> DEFINE g == [to("Length") EXCEPT !.length_bytes = <<>>]
  <2>1. DOMAIN g = Fields /\ g.state = "Length" /\ g.header_bytes = d.header_bytes
    BY DEF Layer, Fields
  <2>2. Layer(g)
    BY <2>1, StillLayer DEF Layer, States
  <2>3. FeedPreamble(d, b).d = g /\ FeedPreamble(d, b).kind = "Skip"
    BY <1>c1 DEF Out, OutByte
  <2> HIDE DEF g
  <2> QED
    BY <2>1, <2>2, <2>3 DEF FeedSound, InBody
<1>c2. CASE FeedPreamble(d, b) = Out(to("Legacy"), "Legacy")
  <2> DEFINE g == to("Legacy")
  <2>1. DOMAIN g = Fields /\ g.state = "Legacy" /\ g.header_bytes = d.header_bytes
    BY DEF Layer, Fields
  <2>2. Layer(g)
    BY <2>1, StillLayer DEF Layer, States
  <2>3. FeedPreamble(d, b).d = g /\ FeedPreamble(d, b).kind = "Legacy"
    BY <1>c2 DEF Out, OutByte
  <2> HIDE DEF g
  <2> QED
    BY <2>1, <2>2, <2>3 DEF FeedSound, InBody
<1>c3. CASE FeedPreamble(d, b) = Out([to("LegacyPrintString") EXCEPT !.payload_len = n], "Skip")
  <2> DEFINE g == [to("LegacyPrintString") EXCEPT !.payload_len = n]
  <2>1. DOMAIN g = Fields /\ g.state = "LegacyPrintString" /\ g.header_bytes = d.header_bytes
    BY DEF Layer, Fields
  <2>2. Layer(g)
    BY <2>1, StillLayer DEF Layer, States
  <2>3. FeedPreamble(d, b).d = g /\ FeedPreamble(d, b).kind = "Skip"
    BY <1>c3 DEF Out, OutByte
  <2> HIDE DEF g
  <2> QED
    BY <2>1, <2>2, <2>3 DEF FeedSound, InBody
<1>c4. CASE FeedPreamble(d, b) = Out([d EXCEPT !.pre = t], "Skip")
  BY <1>c4 DEF Layer, Fields, States, InBody, FeedSound, Out
<1>c5. CASE FeedPreamble(d, b) = Out(d, "Skip")
  BY <1>c5 DEF Layer, Fields, States, InBody, FeedSound, Out
<1>c6. CASE FeedPreamble(d, b) = Out([d EXCEPT !.pre = <<>>], "Err")
  BY <1>c6 DEF Layer, Fields, States, InBody, FeedSound, Out
<1> QED
  BY <1>1, <1>c1, <1>c2, <1>c3, <1>c4, <1>c5, <1>c6, Zenon

(* FrameLayer::feed, Length *)
LEMMA FeedLengthSound ==
  ASSUME NEW d, Layer(d), NEW b, d.state = "Length"
  PROVE  FeedSound(d, FeedLength(d, b))
<1> DEFINE t == Append(d.length_bytes, b)
           n == DecodedLength(t)
<1>1. \/ FeedLength(d, b) = Out(d, "Err")
      \/ FeedLength(d, b) = Out([d EXCEPT !.length_bytes = t], "Skip")
      \/ FeedLength(d, b) =
           Out([d EXCEPT !.state = "PacketHeader", !.payload_len = n,
                         !.length_bytes = <<>>, !.header_bytes = <<>>], "Skip")
  BY DEF FeedLength
<1> HIDE DEF t, n
<1>c1. CASE FeedLength(d, b) = Out(d, "Err")
  BY <1>c1 DEF Layer, Fields, States, InBody, FeedSound, Out, IsSequence
<1>c2. CASE FeedLength(d, b) = Out([d EXCEPT !.length_bytes = t], "Skip")
  BY <1>c2 DEF Layer, Fields, States, InBody, FeedSound, Out, IsSequence
<1>c3. CASE FeedLength(d, b) =
       Out([d EXCEPT !.state = "PacketHeader", !.payload_len = n,
       !.length_bytes = <<>>, !.header_bytes = <<>>], "Skip")
  <2> DEFINE g == [d EXCEPT !.state = "PacketHeader", !.payload_len = n,
                          !.length_bytes = <<>>, !.header_bytes = <<>>]
  <2>1. DOMAIN g = Fields /\ g.state = "PacketHeader" /\ g.header_bytes = <<>>
    BY DEF Layer, Fields
  <2>2. Layer(g)
    <3>1. IsSequence(<<>>)
      BY DEF IsSequence
    <3> QED
      BY <2>1, <3>1, StillLayer DEF States
  <2>3. FeedLength(d, b).d = g /\ FeedLength(d, b).kind = "Skip"
    BY <1>c3 DEF Out, OutByte
  <2> HIDE DEF g
  <2> QED
    BY <2>1, <2>2, <2>3 DEF FeedSound, InBody
<1> QED
  BY <1>1, <1>c1, <1>c2, <1>c3, Zenon

(* FrameLayer::feed, PacketHeader *)
LEMMA FeedHeaderSound ==
  ASSUME NEW d, Layer(d), NEW b, d.state = "PacketHeader"
  PROVE  FeedSound(d, FeedHeader(d, b))
<1> DEFINE c == CobsPoll(d, b)
           bytes == Append(d.header_bytes, c.byte)
           e == [c.d EXCEPT !.header_bytes = bytes, !.crc = Append(@, c.byte)]
           f == [e EXCEPT !.state = "PacketBody", !.i = 0, !.crc_bytes = <<>>]
<1>1. \/ FeedHeader(d, b) = Out(c.d, "Err")
      \/ FeedHeader(d, b) = c /\ c.kind \in {"Skip", "Err"}
      \/ FeedHeader(d, b) = Out(e, "Skip")
      \/ FeedHeader(d, b) = Out(e, "Err")
      \/ FeedHeader(d, b) = Out(f, "Header")
  <2> HIDE DEF c, bytes
  <2> QED
    BY DEF FeedHeader, c, bytes
<1>2. Layer(c.d) /\ c.d.state = d.state
  BY CobsPollFacts
<1>3. IsSequence(bytes) /\ bytes # <<>>
  BY AppendIsSequence DEF Layer
<1> HIDE DEF c, bytes
<1>c1. CASE FeedHeader(d, b) = Out(c.d, "Err")
  BY <1>c1, <1>2, <1>3 DEF Layer, Fields, States, InBody, FeedSound, Out
<1>c2. CASE FeedHeader(d, b) = c /\ c.kind \in {"Skip", "Err"}
  BY <1>c2, <1>2, <1>3 DEF Layer, Fields, States, InBody, FeedSound, Out
<1>c3. CASE FeedHeader(d, b) = Out(e, "Skip")
  <2> DEFINE g == e
  <2>1. DOMAIN g = Fields /\ g.state = "PacketHeader" /\ g.header_bytes = bytes
    BY <1>2 DEF Layer, Fields
  <2>2. Layer(g)
    BY <2>1, StillLayer, <1>3 DEF Layer, States
  <2>3. FeedHeader(d, b).d = g /\ FeedHeader(d, b).kind = "Skip"
    BY <1>c3 DEF Out, OutByte
  <2> HIDE DEF g
  <2> QED
    BY <2>1, <2>2, <2>3, <1>3 DEF FeedSound, InBody
<1>c4. CASE FeedHeader(d, b) = Out(e, "Err")
  BY <1>c4, <1>2, <1>3 DEF Layer, Fields, States, InBody, FeedSound, Out
<1>c5. CASE FeedHeader(d, b) = Out(f, "Header")
  <2> DEFINE g == f
  <2>1. DOMAIN g = Fields /\ g.state = "PacketBody" /\ g.header_bytes = bytes
    BY <1>2 DEF Layer, Fields
  <2>2. Layer(g)
    BY <2>1, StillLayer, <1>3 DEF Layer, States
  <2>3. FeedHeader(d, b).d = g /\ FeedHeader(d, b).kind = "Header"
    BY <1>c5 DEF Out, OutByte
  <2> HIDE DEF g
  <2> QED
    BY <2>1, <2>2, <2>3, <1>3 DEF FeedSound, InBody
<1> QED
  BY <1>1, <1>c1, <1>c2, <1>c3, <1>c4, <1>c5, Zenon

(* FrameLayer::feed, PacketBody *)
LEMMA FeedBodySound ==
  ASSUME NEW d, Layer(d), NEW b, d.state = "PacketBody"
  PROVE  FeedSound(d, FeedBody(d, b))
<1> DEFINE c == CobsPoll(d, b)
           e == [c.d EXCEPT !.i = @ + 1]
<1>1. \/ FeedBody(d, b) = c /\ c.kind \in {"Skip", "Err"}
      \/ FeedBody(d, b) = OutByte([e EXCEPT !.crc = Append(@, c.byte)], "Payload", c.byte)
      \/ FeedBody(d, b) = Out([e EXCEPT !.crc_bytes = Append(@, c.byte)], "Skip")
      \/ FeedBody(d, b) = Out(e, "Err")
      \/ FeedBody(d, b) = Out(NewLayer, "Finished")
      \/ FeedBody(d, b) = Out([c.d EXCEPT !.crc = <<>>], "Err")
  BY DEF FeedBody
<1>2. Layer(c.d) /\ c.d.state = d.state
  BY CobsPollFacts
<1> HIDE DEF c
<1>c1. CASE FeedBody(d, b) = c /\ c.kind \in {"Skip", "Err"}
  BY <1>c1, <1>2, NewLayerFacts DEF Layer, Fields, States, InBody, FeedSound, Out, OutByte
<1>c2. CASE FeedBody(d, b) = OutByte([e EXCEPT !.crc = Append(@, c.byte)], "Payload", c.byte)
  <2> DEFINE g == [e EXCEPT !.crc = Append(@, c.byte)]
  <2>1. DOMAIN g = Fields /\ g.state = "PacketBody" /\ g.header_bytes = c.d.header_bytes
    BY <1>2 DEF Layer, Fields
  <2>2. Layer(g)
    BY <2>1, StillLayer, <1>2 DEF Layer, States
  <2>3. FeedBody(d, b).d = g /\ FeedBody(d, b).kind = "Payload"
    BY <1>c2 DEF Out, OutByte
  <2> HIDE DEF g
  <2> QED
    BY <2>1, <2>2, <2>3, <1>2 DEF FeedSound, InBody
<1>c3. CASE FeedBody(d, b) = Out([e EXCEPT !.crc_bytes = Append(@, c.byte)], "Skip")
  <2> DEFINE g == [e EXCEPT !.crc_bytes = Append(@, c.byte)]
  <2>1. DOMAIN g = Fields /\ g.state = "PacketBody" /\ g.header_bytes = c.d.header_bytes
    BY <1>2 DEF Layer, Fields
  <2>2. Layer(g)
    BY <2>1, StillLayer, <1>2 DEF Layer, States
  <2>3. FeedBody(d, b).d = g /\ FeedBody(d, b).kind = "Skip"
    BY <1>c3 DEF Out, OutByte
  <2> HIDE DEF g
  <2> QED
    BY <2>1, <2>2, <2>3, <1>2 DEF FeedSound, InBody
<1>c4. CASE FeedBody(d, b) = Out(e, "Err")
  BY <1>c4, <1>2, NewLayerFacts DEF Layer, Fields, States, InBody, FeedSound, Out, OutByte
<1>c5. CASE FeedBody(d, b) = Out(NewLayer, "Finished")
  BY <1>c5, <1>2, NewLayerFacts DEF Layer, Fields, States, InBody, FeedSound, Out, OutByte
<1>c6. CASE FeedBody(d, b) = Out([c.d EXCEPT !.crc = <<>>], "Err")
  BY <1>c6, <1>2, NewLayerFacts DEF Layer, Fields, States, InBody, FeedSound, Out, OutByte
<1> QED
  BY <1>1, <1>c1, <1>c2, <1>c3, <1>c4, <1>c5, <1>c6, Zenon

(* FrameLayer::feed, LegacyPrintString *)
LEMMA FeedStringSound ==
  ASSUME NEW d, Layer(d), NEW b, d.state = "LegacyPrintString"
  PROVE  FeedSound(d, FeedString(d, b))
<1> DEFINE g == IF d.i + 1 >= d.payload_len
                  THEN [d EXCEPT !.state = "Preamble", !.i = 0, !.payload_len = 0]
                  ELSE [d EXCEPT !.i = @ + 1]
<1>1. DOMAIN g = Fields /\ g.header_bytes = d.header_bytes
      /\ g.state \in {"Preamble", "LegacyPrintString"}
  BY DEF Layer, Fields
<1>2. Layer(g)
  BY <1>1, StillLayer DEF Layer, States
<1>3. FeedString(d, b).d = g /\ FeedString(d, b).kind = "LegacyPrintStringByte"
  BY DEF FeedString, OutByte
<1> HIDE DEF g
<1> QED
  BY <1>1, <1>2, <1>3 DEF FeedSound, InBody

(* FrameLayer::feed *)
LEMMA FeedIsSound ==
  ASSUME NEW d, Layer(d), NEW b
  PROVE  FeedSound(d, feed(d, b))
<1>1. d.state \in States
  BY DEF Layer
<1>2. CASE d.state = "Legacy"
  <2>1. feed(d, b).d = d /\ feed(d, b).kind = "Legacy"
    BY <1>2 DEF feed, Out
  <2> QED
    BY <1>2, <2>1 DEF FeedSound, InBody
<1>3. CASE d.state = "Preamble"
  BY <1>3, FeedPreambleSound DEF feed
<1>4. CASE d.state = "Length"
  BY <1>4, FeedLengthSound DEF feed
<1>5. CASE d.state = "PacketHeader"
  BY <1>5, FeedHeaderSound DEF feed
<1>6. CASE d.state = "PacketBody"
  BY <1>6, FeedBodySound DEF feed
<1>7. CASE d.state = "LegacyPrintString"
  BY <1>7, FeedStringSound DEF feed
<1> QED
  BY <1>1, <1>2, <1>3, <1>4, <1>5, <1>6, <1>7 DEF States

-----------------------------------------------------------------------------
(* Decoder: layer and header agree after every byte. *)

(* process_incoming_bytes *)
LEMMA ProcessStep ==
  ASSUME IInv, Process
  PROVE  IInv'
<1> DEFINE r == feed(decoder, Head(line))
<1>1. FeedSound(decoder, r)
  BY FeedIsSound DEF IInv
<1>2. \/ OnErr(r) \/ OnSkip(r) \/ OnHeader(r) \/ OnPayload(r)
      \/ OnFinished(r) \/ OnLegacy(r) \/ OnStringByte(r)
  BY DEF Process
<1> HIDE DEF r
<1>3. CASE OnErr(r)
  BY <1>3, NewLayerFacts DEF OnErr, IInv
<1>4. CASE OnSkip(r)
  BY <1>1, <1>4 DEF OnSkip, FeedSound, IInv
<1>5. CASE OnHeader(r)
  <2>1. frame_header = None /\ Layer(r.d) /\ InBody(r.d) /\ r.d.header_bytes # None
    BY <1>1, <1>5 DEF OnHeader, FeedSound, IInv, None
  <2>2. frame_header' = r.d.header_bytes /\ decoder' = r.d /\ bailed' = FALSE
    BY <1>5, <2>1 DEF OnHeader, IInv
  <2> QED
    BY <2>1, <2>2 DEF IInv
<1>6. CASE OnPayload(r)
  BY <1>1, <1>6 DEF OnPayload, FeedSound, IInv
<1>7. CASE OnFinished(r)
  BY <1>1, <1>7 DEF OnFinished, FeedSound, IInv
<1>8. CASE OnLegacy(r)
  BY <1>1, <1>8 DEF OnLegacy, FeedSound, IInv
<1>9. CASE OnStringByte(r)
  <2>1. frame_header = None /\ Layer(r.d) /\ ~InBody(r.d)
    BY <1>1, <1>9 DEF OnStringByte, FeedSound, IInv
  <2>2. /\ bailed' = FALSE /\ frame_header' = None
        /\ decoder' = r.d \/ decoder' = NewLayer
    BY <1>9, <2>1 DEF OnStringByte, IInv
  <2> QED
    BY <2>1, <2>2, NewLayerFacts DEF IInv
<1> QED
  BY <1>2, <1>3, <1>4, <1>5, <1>6, <1>7, <1>8, <1>9

(* Every step keeps the invariant; the line touches nothing of it. *)
LEMMA Inductive ==
  ASSUME IInv, [Next]_vars
  PROVE  IInv'
<1>1. ASSUME NEW item \in Item, Send(item) PROVE IInv'
  BY <1>1 DEF Send, hostVars, IInv
<1>2. CASE Fault
  BY <1>2 DEF Fault, hostVars, IInv
<1>3. CASE UNCHANGED vars
  BY <1>3 DEF vars, hostVars, IInv
<1> QED
  BY <1>1, <1>2, <1>3, ProcessStep DEF Next

-----------------------------------------------------------------------------
(* Whatever a noisy line makes of what okboot sends, okdude's Decoder      *)
(* never meets a second header, a payload byte or an end without a header  *)
(* (process_incoming_bytes), so the errors that leave it as it is, without *)
(* a reset, do not occur.                                                  *)
THEOREM DecoderNeverBails == Spec => []NeverBails
<1>1. Init => IInv
  BY NewLayerFacts DEF Init, IInv
<1>2. IInv /\ [Next]_vars => IInv'
  BY Inductive
<1>3. IInv => NeverBails
  BY DEF IInv, NeverBails
<1> QED
  BY <1>1, <1>2, <1>3, PTL DEF Spec
=============================================================================
