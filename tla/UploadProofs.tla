---------------------------- MODULE UploadProofs ----------------------------
(***************************************************************************)
(* The upload protocol for every set of images, every capacity and every   *)
(* number of runs and faults.  On a line that loses and damages frames:    *)
(* TypeOK and BootsIntactImage.  On a line that loses them: the two sides  *)
(* agree, the host never panics, intact binaries are accepted and the      *)
(* device implements ImageTransfer.                                        *)
(***************************************************************************)
EXTENDS Upload, SequenceTheorems, TLAPS

-----------------------------------------------------------------------------
(* Facts about messages and streams *)

(* No metadata at all is a possible content of the device's. *)
LEMMA NoiseType == Noise \in Contents
  BY ImagesAssumption DEF Contents

(* Pieces of a stream, compressed or inflated, are pieces. *)
LEMMA StreamType ==
  ASSUME NEW g \in Contents, NEW enc \in {"deflated", "inflated"}
  PROVE  /\ Stream(g, enc) \in Seq(Piece)
         /\ Len(Stream(g, enc)) = g.count
         /\ \A i \in 1 .. g.count : Stream(g, enc)[i] = [of |-> g, at |-> i - 1, enc |-> enc]
<1>1. g.count \in Nat
  BY ImagesAssumption DEF Contents, ImageRecord
<1>2. \A i \in 1 .. g.count : [of |-> g, at |-> i - 1, enc |-> enc] \in Piece
  BY <1>1 DEF Piece
<1> QED
  BY <1>1, <1>2 DEF Stream

(* Inflating pieces yields as many pieces, all of them inflated. *)
LEMMA InflateType ==
  ASSUME NEW bytes \in Seq(Piece)
  PROVE  /\ Inflate(bytes) \in Seq(Piece)
         /\ \A i \in DOMAIN Inflate(bytes) : Inflate(bytes)[i].enc = "inflated"
<1>1. \A b \in Piece : /\ [b EXCEPT !.enc = "inflated"] \in Piece
                       /\ [b EXCEPT !.enc = "inflated"].enc = "inflated"
  BY DEF Piece
<1>2. /\ Len(bytes) \in Nat
      /\ DOMAIN bytes = 1 .. Len(bytes)
      /\ \A i \in 1 .. Len(bytes) : bytes[i] \in Piece
  OBVIOUS
<1>3. Inflate(bytes) = [i \in 1 .. Len(bytes) |-> [bytes[i] EXCEPT !.enc = "inflated"]]
  BY <1>2 DEF Inflate
<1>4. \A i \in 1 .. Len(bytes) : Inflate(bytes)[i] \in Piece /\ Inflate(bytes)[i].enc = "inflated"
  <2> TAKE i \in 1 .. Len(bytes)
  <2>1. Inflate(bytes)[i] = [bytes[i] EXCEPT !.enc = "inflated"]
    BY <1>3
  <2>2. bytes[i] \in Piece
    BY <1>2
  <2> QED
    BY <1>1, <2>1, <2>2, Zenon
<1>5. Inflate(bytes) \in [1 .. Len(bytes) -> Piece]
  BY <1>3, <1>4
<1> QED
  BY <1>2, <1>4, <1>5

(* What a received message of each type carries. *)
LEMMA HostPayload ==
  ASSUME NEW m \in HostMessage
  PROVE  /\ m.type = "Metadata" => m.metadata \in Contents
         /\ m.type = "MetadataAckAck" => m.is_ok \in BOOLEAN
         /\ m.type = "Chunk" => m.which \in Nat /\ m.bytes \in Seq(Piece)
  BY DEF HostMessage, Probe, BootingAck, PutProgInfo

(* The same for messages of the device. *)
LEMMA DevicePayload ==
  ASSUME NEW m \in DeviceMessage
  PROVE  /\ m.type = "MetadataAck" => m.metadata \in Contents
         /\ m.type = "ChunkReq" => m.which \in Nat
  BY DEF DeviceMessage, AllowedVersions, MetadataReq, Booting, GetProgInfo

(* The frames either side writes are frames of the link. *)
LEMMA HostFrameType ==
  ASSUME NEW m \in HostMessage, NEW r \in Rate
  PROVE  Frame(m, r) \in HostFrame
  BY DEF Frame, HostFrame

(* The device puts frames of its own on the line. *)
LEMMA DeviceFrameType ==
  ASSUME NEW m \in DeviceMessage, NEW r \in Rate
  PROVE  Frame(m, r) \in DeviceFrame
  BY DEF Frame, DeviceFrame

(* A garbled payload parses as nothing or as a message of the same type. *)
LEMMA PayloadType ==
  ASSUME LinkTypeOK, which \in Nat, NEW t \in {"Metadata", "MetadataAckAck", "Chunk"},
         Received({t}), NEW p \in Payload, p # ParseError
  PROVE  p \in HostMessage /\ p.type = t
<1> DEFINE m == h2d[1].msg
<1>1. h2d[1] \in HostFrame
  BY DEF LinkTypeOK, Received
<1>2. m \in HostMessage /\ m.type = t
  BY <1>1 DEF HostFrame, Received
<1>3. CASE ~rx_stale
  BY <1>2, <1>3 DEF Payload, Parsed
<1>4. CASE rx_stale
  <2>1. p \in Garbled(m)
    BY <1>4 DEF Payload, Parsed
  <2>2. CASE t = "Metadata"
    <3>1. p \in {m, ParseError} \cup {Metadata(g) : g \in Misread}
      BY <2>1, <2>2, <1>2 DEF Garbled
    <3>2. \A g \in Misread : Metadata(g) \in HostMessage /\ Metadata(g).type = "Metadata"
      BY DEF Metadata, HostMessage, Contents
    <3> QED
      BY <3>1, <3>2, <1>2, <2>2
  <2>3. CASE t = "MetadataAckAck"
    <3>1. p \in {m, MetadataAckAck(TRUE), MetadataAckAck(FALSE), ParseError}
      BY <2>1, <2>3, <1>2 DEF Garbled
    <3>2. \A b \in BOOLEAN : /\ MetadataAckAck(b) \in HostMessage
                             /\ MetadataAckAck(b).type = "MetadataAckAck"
      BY DEF MetadataAckAck, HostMessage
    <3> QED
      BY <3>1, <3>2, <1>2, <2>3
  <2>4. CASE t = "Chunk"
    <3> DEFINE z == <<[of |-> Noise, at |-> 0, enc |-> "deflated"]>>
    <3>1. p \in {m, ParseError} \cup {Chunk(w, z) : w \in {which, which + 1}}
      BY <2>1, <2>4, <1>2 DEF Garbled
    <3>2. z \in Seq(Piece)
      BY ImagesAssumption DEF Piece, Contents
    <3>3. \A w \in Nat : Chunk(w, z) \in HostMessage /\ Chunk(w, z).type = "Chunk"
      BY <3>2 DEF Chunk, HostMessage
    <3> QED
      BY <3>1, <3>3, <1>2, <2>4
  <2> QED
    BY <2>2, <2>3, <2>4
<1> QED
  BY <1>3, <1>4

-----------------------------------------------------------------------------
(* Type correctness *)

(* What a device step that consumes a frame does to the receive path. *)
LEMMA FinishedType ==
  ASSUME LinkTypeOK, h2d # << >>, NEW rs \in {"Waiting", "Error"}, Finished(rs)
  PROVE  /\ h2d' \in Seq(HostFrame)
         /\ recv_state' \in {"Initial", "Waiting", "Error"}
         /\ rx_stale' \in BOOLEAN
         /\ sends' \in 0 .. 2
<1>1. h2d' = Tail(h2d) /\ recv_state' = rs /\ sends' = 0
  BY Zenon DEF Finished
<1>2. rx_stale' \in BOOLEAN
  BY Zenon DEF Finished
<1>3. Tail(h2d) \in Seq(HostFrame)
  BY DEF LinkTypeOK
<1> QED
  BY <1>1, <1>2, <1>3

(* Dropping the protocol object leaves a well-typed session. *)
LEMMA EndSessionType ==
  ASSUME EndSession
  PROVE  /\ once' \in BOOLEAN /\ retry_buffer' \in BOOLEAN
         /\ expecting' \in {"Probe", "Version"}
         /\ state' \in V2State
         /\ md' \in Contents
         /\ which' \in Nat
         /\ image' \in Seq(Piece)
<1>1. once' \in BOOLEAN /\ retry_buffer' \in BOOLEAN
  BY Zenon DEF EndSession
<1>2. expecting' = "Probe" /\ state' = "RequestMetadata" /\ md' = Noise /\ which' = 0 /\ image' = << >>
  BY Zenon DEF EndSession
<1> QED
  BY NoiseType, <1>1, <1>2 DEF V2State

(* A frame whose content the device abandons or ignores. *)
LEMMA ConsumeType ==
  ASSUME LinkTypeOK, DeviceTypeOK, h2d # << >>, Abcon \/ Abend \/ Ignore
  PROVE  LinkTypeOK' /\ DeviceTypeOK'
<1>1. CASE Abcon \/ Ignore
  <2>1. Finished("Error") \/ Finished("Waiting")
    BY <1>1, Zenon DEF Abcon, Ignore, Continue
  <2>2. UNCHANGED <<uart_baud, d2h, proto, expecting, state, md, which, image, once, retry_buffer>>
    BY <1>1, Zenon DEF Abcon, Ignore, sessionVars
  <2> QED
    BY <2>1, <2>2, FinishedType, Zenon DEF LinkTypeOK, DeviceTypeOK, FlagsTypeOK
<1>2. CASE Abend
  <2>1. Finished("Error") /\ EndSession /\ proto' = "Handshake" /\ UNCHANGED <<uart_baud, d2h>>
    BY <1>2, Zenon DEF Abend, StartHandshake
  <2> QED
    BY <2>1, FinishedType, EndSessionType, Zenon DEF LinkTypeOK, DeviceTypeOK, FlagsTypeOK
<1> QED
  BY <1>1, <1>2

(* The steps of the device keep the types of the device and of the link. *)
LEMMA HandshakeType ==
  ASSUME LinkTypeOK, DeviceTypeOK, HandshakeProbe \/ HandshakeUseVersion \/ HandshakeOther
  PROVE  LinkTypeOK' /\ DeviceTypeOK'
<1>0. h2d # << >> /\ h2d \in Seq(HostFrame) /\ d2h \in Seq(DeviceFrame)
  BY DEF HandshakeProbe, HandshakeUseVersion, HandshakeOther, Received, LinkTypeOK
<1>1. CASE HandshakeProbe
  <2>1. CASE Abcon
    BY <2>1, <1>0, ConsumeType
  <2>2. CASE ~Abcon
    <3>1. Frame(AllowedVersions, uart_baud) \in DeviceFrame
      BY DeviceFrameType DEF DeviceMessage, DeviceTypeOK
    <3>2. LinkTypeOK'
      <4>1. Finished("Waiting") \/ Finished("Error")
        BY <1>1, <2>2, Zenon DEF HandshakeProbe, Continue
      <4>2. UNCHANGED d2h \/ d2h' = Append(d2h, Frame(AllowedVersions, uart_baud))
        BY <1>1, <2>2, Zenon DEF HandshakeProbe
      <4>3. d2h' \in Seq(DeviceFrame)
        BY <1>0, <3>1, <4>2
      <4> QED
        BY <1>0, <4>1, <4>3, FinishedType DEF LinkTypeOK
    <3>3. DeviceTypeOK'
      <4>1. FlagsTypeOK'
        BY <1>1, <2>2, Zenon DEF HandshakeProbe, DeviceTypeOK, FlagsTypeOK, Continue, Finished
      <4> QED
        BY <1>1, <2>2, <4>1 DEF HandshakeProbe, DeviceTypeOK, Continue, Finished
    <3> QED
      BY <3>2, <3>3
  <2> QED
    BY <2>1, <2>2
<1>2. CASE HandshakeUseVersion
  <2>1. CASE Abend
    BY <2>1, <1>0, ConsumeType
  <2>2. CASE ~Abend
    <3>1. LinkTypeOK'
      BY <1>0, <1>2, <2>2 DEF HandshakeUseVersion, LinkTypeOK, Continue, Finished
    <3>2. << >> \in Seq(Piece)
      OBVIOUS
    <3>3. DeviceTypeOK'
      <4>1. Continue /\ StartV2 /\ uart_baud' = V2_BAUD_RATE
        BY <1>2, <2>2 DEF HandshakeUseVersion
      <4>2. FlagsTypeOK'
        BY <4>1, Zenon DEF FlagsTypeOK, Continue, Finished, StartV2
      <4> QED
        BY NoiseType, <3>2, <4>1, <4>2
        DEF DeviceTypeOK, Continue, Finished, StartV2, V2State, Rate
    <3> QED
      BY <3>1, <3>3
  <2> QED
    BY <2>1, <2>2
<1>3. CASE HandshakeOther
  BY <1>0, <1>3, ConsumeType DEF HandshakeOther
<1> QED
  BY <1>1, <1>2, <1>3

(* recv_metadata keeps the types, whatever the payload says. *)
LEMMA V2MetadataType ==
  ASSUME LinkTypeOK, DeviceTypeOK, V2Metadata
  PROVE  LinkTypeOK' /\ DeviceTypeOK'
<1>0. h2d # << >> /\ h2d \in Seq(HostFrame) /\ Received({"Metadata"})
  BY DEF V2Metadata, Received, LinkTypeOK
<1>1. CASE Ignore
  BY <1>0, <1>1, ConsumeType
<1>2. CASE ~Ignore
  <2>1. PICK p \in Payload :
          /\ p # ParseError
          /\ Continue /\ state' = "AckMetadata" /\ md' = p.metadata /\ once' = TRUE
          /\ UNCHANGED <<uart_baud, d2h, proto, expecting, which, image, retry_buffer>>
    BY <1>2 DEF V2Metadata
  <2>2. p.metadata \in Contents
    BY <1>0, <2>1, PayloadType, HostPayload DEF DeviceTypeOK
  <2>3. LinkTypeOK'
    BY <1>0, <2>1 DEF LinkTypeOK, Continue, Finished
  <2>4. DeviceTypeOK'
    <3>1. FlagsTypeOK'
      BY <2>1, Zenon DEF DeviceTypeOK, FlagsTypeOK, Continue, Finished
    <3> QED
      BY <2>1, <2>2, <3>1 DEF DeviceTypeOK, Continue, Finished, V2State
  <2> QED
    BY <2>3, <2>4
<1> QED
  BY <1>1, <1>2

(* recv_metadata_ack_ack keeps the types. *)
LEMMA V2MetadataAckAckType ==
  ASSUME LinkTypeOK, DeviceTypeOK, V2MetadataAckAck
  PROVE  LinkTypeOK' /\ DeviceTypeOK'
<1>0. h2d # << >> /\ h2d \in Seq(HostFrame) /\ Received({"MetadataAckAck"})
  BY DEF V2MetadataAckAck, Received, LinkTypeOK
<1>1. CASE Ignore
  BY <1>0, <1>1, ConsumeType
<1>2. CASE ~Ignore
  <2>1. /\ Continue
        /\ \/ state' = "RequestChunk" /\ once' = TRUE /\ UNCHANGED md
           \/ state' = "RequestMetadata" /\ md' = Noise /\ UNCHANGED once
        /\ which' = 0
        /\ image' = << >>
        /\ UNCHANGED <<uart_baud, d2h, proto, expecting, retry_buffer>>
    BY <1>2 DEF V2MetadataAckAck
  <2>2. LinkTypeOK'
    BY <1>0, <2>1 DEF LinkTypeOK, Continue, Finished
  <2>3. << >> \in Seq(Piece)
    OBVIOUS
  <2>4. DeviceTypeOK'
    <3>1. FlagsTypeOK'
      BY <2>1, Zenon DEF DeviceTypeOK, FlagsTypeOK, Continue, Finished
    <3> QED
      BY NoiseType, <2>1, <2>3, <3>1 DEF DeviceTypeOK, Continue, Finished, V2State
  <2> QED
    BY <2>2, <2>4
<1> QED
  BY <1>1, <1>2

(* An accepted chunk only appends inflated pieces to the image. *)
LEMMA AcceptChunkType ==
  ASSUME LinkTypeOK, DeviceTypeOK, h2d # << >>, NEW bytes \in Seq(Piece), AcceptChunk(bytes)
  PROVE  LinkTypeOK' /\ DeviceTypeOK'
<1> DEFINE received == image \o Inflate(bytes)
<1>1. CASE Abend
  BY <1>1, ConsumeType
<1>2. CASE ~Abend
  <2>1. /\ Finished("Waiting")
        /\ state' \in {state, "Boot"}
        /\ which' = which + 1
        /\ image' = received
        /\ once' = TRUE
        /\ UNCHANGED <<uart_baud, d2h, proto, expecting, md, retry_buffer>>
    BY <1>2 DEF AcceptChunk, Continue
  <2>2. received \in Seq(Piece)
    BY InflateType DEF DeviceTypeOK
  <2>3. which + 1 \in Nat /\ "Boot" \in V2State
    BY DEF DeviceTypeOK, V2State
  <2> QED
    BY <2>1, <2>2, <2>3, FinishedType, Zenon DEF LinkTypeOK, DeviceTypeOK, FlagsTypeOK
<1> QED
  BY <1>1, <1>2

(* recv_chunk keeps the types, accepted or not. *)
LEMMA V2ChunkType ==
  ASSUME LinkTypeOK, DeviceTypeOK, V2Chunk
  PROVE  LinkTypeOK' /\ DeviceTypeOK'
<1>0. h2d # << >> /\ Received({"Chunk"})
  BY DEF V2Chunk, Received
<1>1. PICK p \in Payload :
        \/ Ignore
        \/ p # ParseError /\ AcceptChunk(p.bytes)
        \/ /\ Finished("Waiting")
           /\ once' = TRUE
           /\ UNCHANGED <<uart_baud, d2h, proto, expecting, state, md, which, image, retry_buffer>>
  BY DEF V2Chunk, Continue
<1>2. CASE Ignore
  BY <1>0, <1>2, ConsumeType
<1>3. CASE p # ParseError /\ AcceptChunk(p.bytes)
  <2>1. p.bytes \in Seq(Piece)
    BY <1>0, <1>3, PayloadType, HostPayload DEF DeviceTypeOK
  <2> QED
    BY <1>0, <1>3, <2>1, AcceptChunkType
<1>4. CASE /\ Finished("Waiting")
           /\ once' = TRUE
           /\ UNCHANGED <<uart_baud, d2h, proto, expecting, state, md, which, image, retry_buffer>>
  BY <1>0, <1>4, FinishedType, Zenon DEF LinkTypeOK, DeviceTypeOK, FlagsTypeOK
<1> QED
  BY <1>1, <1>2, <1>3, <1>4

(* The remaining steps that consume a frame. *)
LEMMA OtherReceiveType ==
  ASSUME LinkTypeOK, DeviceTypeOK,
         V2BootingAck \/ V2Other \/ ReceiveLegacy \/ DecodeError \/ DropInError
  PROVE  LinkTypeOK' /\ DeviceTypeOK'
<1>0. h2d # << >>
  BY DEF V2BootingAck, V2Other, ReceiveLegacy, DecodeError, DropInError, Received
<1>1. CASE V2BootingAck
  <2>1. \/ Ignore
        \/ /\ Finished("Waiting")
           /\ proto' = "Running"
           /\ UNCHANGED <<uart_baud, d2h, expecting, state, md, which, image, once, retry_buffer>>
    BY <1>1 DEF V2BootingAck, Continue
  <2>2. CASE Ignore
    BY <1>0, <2>2, ConsumeType
  <2>3. CASE ~Ignore
    BY <1>0, <2>1, <2>3, FinishedType, Zenon DEF LinkTypeOK, DeviceTypeOK, FlagsTypeOK
  <2> QED
    BY <2>2, <2>3
<1>2. CASE V2Other
  BY <1>0, <1>2, ConsumeType DEF V2Other
<1>3. CASE ReceiveLegacy
  <2>1. Finished("Waiting") /\ proto' = "Legacy" /\ EndSession /\ UNCHANGED <<uart_baud, d2h>>
    BY <1>3, Zenon DEF ReceiveLegacy, Continue
  <2> QED
    BY <1>0, <2>1, FinishedType, EndSessionType, Zenon DEF LinkTypeOK, DeviceTypeOK, FlagsTypeOK
<1>4. CASE DecodeError
  <2>1. /\ h2d' = Tail(h2d)
        /\ recv_state' = "Error"
        /\ rx_stale' \in {rx_stale, rx_stale \/ h2d[1].rate = uart_baud}
        /\ UNCHANGED <<d2h, uart_baud, sends>>
        /\ UNCHANGED <<proto, expecting, state, md, which, image, once, retry_buffer>>
    BY <1>4, Zenon DEF DecodeError, sessionVars
  <2>2. rx_stale' \in BOOLEAN
    BY <2>1, Zenon DEF DeviceTypeOK, FlagsTypeOK
  <2>3. Tail(h2d) \in Seq(HostFrame)
    BY <1>0 DEF LinkTypeOK
  <2> QED
    BY <2>1, <2>2, <2>3, Zenon DEF LinkTypeOK, DeviceTypeOK, FlagsTypeOK
<1>5. CASE DropInError
  <2>1. h2d' = Tail(h2d) /\ UNCHANGED <<d2h, deviceVars>>
    BY <1>5, Zenon DEF DropInError
  <2>2. Tail(h2d) \in Seq(HostFrame)
    BY <1>0 DEF LinkTypeOK
  <2> QED
    BY <2>1, <2>2, Zenon DEF LinkTypeOK, DeviceTypeOK, FlagsTypeOK, deviceVars, sessionVars
<1> QED
  BY <1>1, <1>2, <1>3, <1>4, <1>5

(* Timers of the device and the reset of the board. *)
LEMMA RequestType ==
  ASSUME DeviceTypeOK
  PROVE  RequestOf(state) \in DeviceMessage
<1>1. CASE state = "RequestMetadata"
  BY <1>1 DEF RequestOf, DeviceMessage
<1>2. CASE state = "AckMetadata"
  BY <1>2 DEF RequestOf, DeviceMessage, MetadataAck, DeviceTypeOK
<1>3. CASE state = "RequestChunk"
  BY <1>3 DEF RequestOf, DeviceMessage, ChunkReq, DeviceTypeOK
<1>4. CASE state = "Boot"
  BY <1>4 DEF RequestOf, DeviceMessage
<1> QED
  BY <1>1, <1>2, <1>3, <1>4 DEF DeviceTypeOK, V2State

(* The timers and a power cycle keep the types. *)
LEMMA TimerType ==
  ASSUME LinkTypeOK, DeviceTypeOK,
         Heartbeat \/ SendGetProgInfo \/ ErrorRecovered \/ SessionExpire \/ PowerCycle
  PROVE  LinkTypeOK' /\ DeviceTypeOK'
<1>1. CASE Heartbeat
  <2>1. Frame(RequestOf(state), uart_baud) \in DeviceFrame
    BY RequestType, DeviceFrameType DEF DeviceTypeOK
  <2>2. UNCHANGED d2h \/ d2h' = Append(d2h, Frame(RequestOf(state), uart_baud))
    BY <1>1, Zenon DEF Heartbeat
  <2>3. d2h' \in Seq(DeviceFrame)
    BY <2>1, <2>2 DEF LinkTypeOK
  <2>4. once' \in BOOLEAN /\ retry_buffer' \in BOOLEAN
    BY <1>1, Zenon DEF Heartbeat
  <2>5. sends' \in 0 .. 2
    <3>1. sends' = IF sends < 2 THEN sends + 1 ELSE 2
      BY <1>1, Zenon DEF Heartbeat
    <3> QED
      BY <3>1 DEF DeviceTypeOK
  <2>6. UNCHANGED <<h2d, uart_baud, recv_state, rx_stale, proto, expecting, state, md, which, image>>
    BY <1>1, Zenon DEF Heartbeat
  <2> QED
    BY <2>3, <2>4, <2>5, <2>6, Zenon DEF LinkTypeOK, DeviceTypeOK, FlagsTypeOK
<1>2. CASE SendGetProgInfo
  <2>1. Frame(GetProgInfo, uart_baud) \in DeviceFrame
    BY DeviceFrameType DEF DeviceTypeOK, DeviceMessage
  <2>2. d2h' = <<Frame(GetProgInfo, uart_baud)>> /\ UNCHANGED <<h2d, deviceVars>>
    BY <1>2, Zenon DEF SendGetProgInfo
  <2>3. d2h' \in Seq(DeviceFrame)
    BY <2>1, <2>2
  <2> QED
    BY <2>2, <2>3, Zenon DEF LinkTypeOK, DeviceTypeOK, FlagsTypeOK, deviceVars, sessionVars
<1>3. CASE ErrorRecovered
  <2>1. /\ recv_state' = "Waiting"
        /\ UNCHANGED <<h2d, d2h, uart_baud, rx_stale, sends>>
        /\ UNCHANGED <<proto, expecting, state, md, which, image, once, retry_buffer>>
    BY <1>3, Zenon DEF ErrorRecovered, linkVars, sessionVars
  <2> QED
    BY <2>1, Zenon DEF LinkTypeOK, DeviceTypeOK, FlagsTypeOK
<1>4. CASE SessionExpire
  <2>1. /\ recv_state' = "Initial" /\ sends' = 0 /\ proto' = "Handshake" /\ EndSession
        /\ UNCHANGED <<h2d, d2h, uart_baud, rx_stale>>
    BY <1>4, Zenon DEF SessionExpire, StartHandshake, linkVars
  <2>2. 0 \in 0 .. 2
    OBVIOUS
  <2> QED
    BY <2>1, <2>2, EndSessionType, Zenon DEF LinkTypeOK, DeviceTypeOK, FlagsTypeOK
<1>5. CASE PowerCycle
  <2>1. /\ uart_baud' = INITIAL_BAUD_RATE /\ recv_state' = "Initial" /\ rx_stale' = FALSE
        /\ sends' = 0 /\ proto' = "Handshake" /\ EndSession
        /\ h2d' = << >> /\ \E n \in 0 .. Len(d2h) : d2h' = SubSeq(d2h, 1, n)
    BY <1>5, Zenon DEF PowerCycle, StartHandshake
  <2>2. 0 \in 0 .. 2 /\ INITIAL_BAUD_RATE \in Rate
    BY DEF Rate
  <2>3. h2d' \in Seq(HostFrame) /\ d2h' \in Seq(DeviceFrame)
    BY <2>1 DEF LinkTypeOK
  <2> QED
    BY <2>1, <2>2, <2>3, EndSessionType, Zenon DEF LinkTypeOK, DeviceTypeOK, FlagsTypeOK
<1> QED
  BY <1>1, <1>2, <1>3, <1>4, <1>5

(* The messages okdude sends. *)
LEMMA HostMessages ==
  /\ Probe \in HostMessage /\ BootingAck \in HostMessage /\ PutProgInfo \in HostMessage
  /\ UseVersion(SUPPORTED_VERSION) \in HostMessage
  /\ \A g \in Contents : Metadata(g) \in HostMessage
  /\ \A b \in BOOLEAN : MetadataAckAck(b) \in HostMessage
  /\ \A w \in Nat, bytes \in Seq(Piece) : Chunk(w, bytes) \in HostMessage
  BY DEF HostMessage, UseVersion, SUPPORTED_VERSION, Metadata, MetadataAckAck, Chunk

(* Putting a message on the line, or in the channel to drive. *)
LEMMA WriteType ==
  ASSUME LinkTypeOK, HostTypeOK, NEW m \in HostMessage
  PROVE  /\ Write(m) => h2d' \in Seq(HostFrame)
         /\ Send(m) => out' \in Seq(HostMessage)
<1>1. Frame(m, tty_baud) \in HostFrame
  BY HostFrameType DEF HostTypeOK
<1>2. ASSUME Write(m) PROVE h2d' \in Seq(HostFrame)
  BY <1>1, <1>2 DEF Write, LinkTypeOK
<1>3. ASSUME Send(m) PROVE out' \in Seq(HostMessage)
  BY <1>3 DEF Send, HostTypeOK
<1> QED
  BY <1>2, <1>3

(* Taking a frame off the line. *)
LEMMA TakeType ==
  ASSUME LinkTypeOK, d2h # << >>, TakeD2H
  PROVE  d2h' \in Seq(DeviceFrame)
  BY DEF LinkTypeOK, TakeD2H

(* A host that ends leaves a typed state. *)
LEMMA HostExitType ==
  ASSUME LinkTypeOK, HostTypeOK, HostExit
  PROVE  LinkTypeOK' /\ HostTypeOK'
  BY NoiseType DEF HostExit, LinkTypeOK, HostTypeOK, HostMode, Rate

(* The promotion handshake and the fall-back keep the types. *)
LEMMA HandshakeHostType ==
  ASSUME LinkTypeOK, HostTypeOK,
         (\E g \in Images : HostStart(g)) \/ HostPromote \/ HostSkip \/ HostFallBack
  PROVE  LinkTypeOK' /\ HostTypeOK'
<1>1. ASSUME NEW g \in Images, HostStart(g) PROVE LinkTypeOK' /\ HostTypeOK'
  <2>1. Frame(Probe, INITIAL_BAUD_RATE) \in HostFrame
    BY HostMessages, HostFrameType DEF Rate
  <2> QED
    BY <1>1, <2>1 DEF HostStart, LinkTypeOK, HostTypeOK, HostMode, Contents, Rate
<1>2. CASE HostPromote
  <2>1. d2h' \in Seq(DeviceFrame)
    BY <1>2, TakeType DEF HostPromote, Incoming
  <2>2. h2d' \in Seq(HostFrame)
    BY <1>2, HostMessages, WriteType DEF HostPromote
  <2> QED
    BY <1>2, <2>1, <2>2 DEF HostPromote, LinkTypeOK, HostTypeOK, HostMode, Rate
<1>3. CASE HostSkip
  <2>1. d2h' \in Seq(DeviceFrame)
    BY <1>3, TakeType DEF HostSkip
  <2> QED
    BY <1>3, <2>1 DEF HostSkip, LinkTypeOK, HostTypeOK, hostVars
<1>4. CASE HostFallBack
  <2>1. CASE HostExit
    BY <2>1, HostExitType
  <2>2. CASE ~HostExit
    <3>1. /\ Write(PutProgInfo)
          /\ d2h' = << >>
          /\ mode' = "Legacy"
          /\ UNCHANGED <<file, tty_baud, chunk_size, out>>
      BY <1>4, <2>2, Zenon DEF HostFallBack
    <3>2. h2d' \in Seq(HostFrame)
      BY <3>1, HostMessages, WriteType
    <3> QED
      BY <3>1, <3>2 DEF LinkTypeOK, HostTypeOK, HostMode
  <2> QED
    BY <2>1, <2>2
<1> QED
  BY <1>1, <1>2, <1>3, <1>4

(* The slice of the file that answers a ChunkReq. *)
LEMMA ChunkBytesType ==
  ASSUME HostTypeOK, NEW w \in Nat, chunk_size = 0 \/ w < file.count
  PROVE  ChunkBytes(w) \in Seq(Piece)
<1>1. CASE chunk_size = 0
  BY <1>1 DEF ChunkBytes
<1>2. CASE chunk_size # 0
  <2>1. file \in Contents
    BY DEF HostTypeOK
  <2>2. file.count \in Nat
    BY <2>1, ImagesAssumption DEF Contents, ImageRecord
  <2>3. w + 1 \in 1 .. file.count
    BY <1>2, <2>2
  <2>4. Stream(file, "deflated")[w + 1] \in Piece
    BY <2>1, <2>2, <2>3, StreamType
  <2> QED
    BY <1>2, <2>4 DEF ChunkBytes
<1> QED
  BY <1>1, <1>2

(* Every arm of upload_inner keeps the types. *)
LEMMA DispatchType ==
  ASSUME LinkTypeOK, HostTypeOK,
         \/ DispatchMetadataReq \/ DispatchMetadataAck \/ DispatchChunkReq
         \/ DispatchBooting \/ DispatchOther
  PROVE  LinkTypeOK' /\ HostTypeOK'
<1>1. CASE DispatchMetadataReq
  <2>1. d2h' \in Seq(DeviceFrame)
    BY <1>1, TakeType DEF DispatchMetadataReq, Incoming
  <2>2. out' \in Seq(HostMessage)
    BY <1>1, HostMessages, WriteType DEF DispatchMetadataReq, HostTypeOK
  <2> QED
    BY <1>1, <2>1, <2>2 DEF DispatchMetadataReq, LinkTypeOK, HostTypeOK
<1>2. CASE DispatchMetadataAck
  <2>1. d2h' \in Seq(DeviceFrame)
    BY <1>2, TakeType DEF DispatchMetadataAck, Incoming
  <2>2. out' \in Seq(HostMessage)
    <3> DEFINE ok == d2h[1].msg.metadata = file
    <3>1. ok \in BOOLEAN
      OBVIOUS
    <3>2. MetadataAckAck(ok) \in HostMessage
      BY <3>1, HostMessages, Zenon
    <3>3. Send(MetadataAckAck(ok))
      BY <1>2, Zenon DEF DispatchMetadataAck
    <3> QED
      BY <3>2, <3>3, WriteType
  <2>3. chunk_size' \in {0, 1} /\ UNCHANGED <<h2d, mode, file, tty_baud>>
    BY <1>2 DEF DispatchMetadataAck, HostTypeOK
  <2> QED
    BY <2>1, <2>2, <2>3 DEF LinkTypeOK, HostTypeOK
<1>3. CASE DispatchChunkReq
  <2> DEFINE w == d2h[1].msg.which
  <2>1. d2h' \in Seq(DeviceFrame)
    BY <1>3, TakeType DEF DispatchChunkReq, Incoming
  <2>2. w \in Nat
    <3>1. d2h[1] \in DeviceFrame /\ d2h[1].msg.type = "ChunkReq"
      BY <1>3 DEF DispatchChunkReq, Incoming, LinkTypeOK
    <3> QED
      BY <3>1, DevicePayload DEF DeviceFrame
  <2>3. CASE chunk_size = 0 \/ w < file.count
    <3>1. Chunk(w, ChunkBytes(w)) \in HostMessage
      BY <2>2, <2>3, ChunkBytesType, HostMessages
    <3>2. out' \in Seq(HostMessage)
      BY <1>3, <2>3, <3>1, WriteType DEF DispatchChunkReq
    <3> QED
      BY <1>3, <2>1, <2>3, <3>2 DEF DispatchChunkReq, LinkTypeOK, HostTypeOK
  <2>4. CASE ~(chunk_size = 0 \/ w < file.count)
    BY <1>3, <2>1, <2>4 DEF DispatchChunkReq, LinkTypeOK, HostTypeOK, HostMode
  <2> QED
    BY <2>3, <2>4
<1>4. CASE DispatchBooting
  <2>1. d2h' \in Seq(DeviceFrame)
    BY <1>4, TakeType DEF DispatchBooting, Incoming
  <2>2. out' \in Seq(HostMessage)
    BY <1>4, HostMessages, WriteType DEF DispatchBooting
  <2> QED
    BY <1>4, <2>1, <2>2 DEF DispatchBooting, LinkTypeOK, HostTypeOK, HostMode
<1>5. CASE DispatchOther
  <2>1. d2h' = Tail(d2h) \/ \E n \in 1 .. Len(d2h) : d2h' = SubSeq(d2h, n + 1, Len(d2h))
    BY <1>5 DEF DispatchOther, TakeD2H
  <2>2. Tail(d2h) \in Seq(DeviceFrame)
    BY <1>5 DEF DispatchOther, LinkTypeOK
  <2>3. \A n \in 1 .. Len(d2h) : SubSeq(d2h, n + 1, Len(d2h)) \in Seq(DeviceFrame)
    <3> TAKE n \in 1 .. Len(d2h)
    <3>1. Len(d2h) \in Nat /\ \A i \in n + 1 .. Len(d2h) : i \in 1 .. Len(d2h)
      BY DEF LinkTypeOK
    <3>2. \A i \in n + 1 .. Len(d2h) : d2h[i] \in DeviceFrame
      BY <3>1 DEF LinkTypeOK
    <3> QED
      BY <3>1, <3>2, SubSeqProperties DEF LinkTypeOK
  <2>4. d2h' \in Seq(DeviceFrame)
    BY <2>1, <2>2, <2>3, Zenon
  <2> QED
    BY <1>5, <2>4 DEF DispatchOther, LinkTypeOK, HostTypeOK, hostVars
<1> QED
  BY <1>1, <1>2, <1>3, <1>4, <1>5

(* The drive thread keeps the types. *)
LEMMA DriveType ==
  ASSUME LinkTypeOK, HostTypeOK, DriveWrite \/ DriveExit \/ HostDiscard \/ HostKill
  PROVE  LinkTypeOK' /\ HostTypeOK'
<1>1. CASE DriveWrite
  <2>1. out[1] \in HostMessage /\ Tail(out) \in Seq(HostMessage)
    BY <1>1 DEF DriveWrite, HostTypeOK
  <2>2. h2d' \in Seq(HostFrame)
    BY <1>1, <2>1, WriteType DEF DriveWrite
  <2> QED
    BY <1>1, <2>1, <2>2 DEF DriveWrite, LinkTypeOK, HostTypeOK
<1>2. CASE DriveExit
  BY <1>2 DEF DriveExit, LinkTypeOK, HostTypeOK, HostMode, Rate, linkVars
<1>3. CASE HostDiscard
  <2>1. d2h' \in Seq(DeviceFrame)
    BY <1>3, TakeType DEF HostDiscard
  <2> QED
    BY <1>3, <2>1 DEF HostDiscard, LinkTypeOK, HostTypeOK, hostVars
<1>4. CASE HostKill
  BY <1>4, HostExitType DEF HostKill
<1> QED
  BY <1>1, <1>2, <1>3, <1>4

(* The line losing or damaging a frame. *)
LEMMA LinkFaultType ==
  ASSUME LinkTypeOK, LoseH2D \/ LoseD2H \/ CorruptH2D \/ CorruptD2H
  PROVE  LinkTypeOK'
<1>1. CASE LoseH2D
  BY <1>1 DEF LoseH2D, LinkTypeOK
<1>4. CASE LoseD2H
  BY <1>4 DEF LoseD2H, LinkTypeOK
<1>2. CASE CorruptH2D
  <2>1. h2d[1] \in HostFrame /\ 1 \in DOMAIN h2d
    BY <1>2 DEF CorruptH2D, LinkTypeOK
  <2>2. [h2d[1] EXCEPT !.intact = FALSE] \in HostFrame
    BY <2>1 DEF HostFrame
  <2> QED
    BY <1>2, <2>1, <2>2 DEF CorruptH2D, LinkTypeOK
<1>3. CASE CorruptD2H
  <2>1. d2h[1] \in DeviceFrame /\ 1 \in DOMAIN d2h
    BY <1>3 DEF CorruptD2H, LinkTypeOK
  <2>2. [d2h[1] EXCEPT !.intact = FALSE] \in DeviceFrame
    BY <2>1 DEF DeviceFrame
  <2> QED
    BY <1>3, <2>1, <2>2 DEF CorruptD2H, LinkTypeOK
<1> QED
  BY <1>1, <1>2, <1>3, <1>4

(* A step of one side leaves the variables of the other alone. *)
LEMMA DeviceFrameCondition ==
  ASSUME DeviceTypeOK, UNCHANGED deviceVars
  PROVE  DeviceTypeOK'
  BY Zenon DEF DeviceTypeOK, FlagsTypeOK, deviceVars, sessionVars

(* Steps that leave the host's variables alone keep their types. *)
LEMMA HostFrameCondition ==
  ASSUME HostTypeOK, UNCHANGED hostVars
  PROVE  HostTypeOK'
  BY Zenon DEF HostTypeOK, hostVars

(* The types hold at first. *)
LEMMA TypeInit == Init => TypeOK
<1> SUFFICES ASSUME Init PROVE TypeOK
  OBVIOUS
<1>1. LinkTypeOK
  BY DEF Init, LinkInit, LinkTypeOK
<1>2. FlagsTypeOK
  BY Zenon DEF Init, DeviceInit, FlagsTypeOK
<1>3. DeviceTypeOK
  BY NoiseType, <1>2 DEF Init, DeviceInit, DeviceTypeOK, Rate, V2State
<1>4. HostTypeOK
  BY NoiseType DEF Init, HostInit, HostTypeOK, HostMode, Rate
<1>5. runs \in 0 .. MaxRuns /\ faults \in 0 .. MaxFaults
  BY BudgetAssumption DEF Init
<1> QED
  BY <1>1, <1>3, <1>4, <1>5 DEF TypeOK

(* Every step keeps the types. *)
LEMMA TypeStep == TypeOK /\ [Next \/ Corruption]_vars => TypeOK'
<1> SUFFICES ASSUME TypeOK, [Next \/ Corruption]_vars PROVE TypeOK'
  OBVIOUS
<1>0. LinkTypeOK /\ DeviceTypeOK /\ HostTypeOK /\ runs \in 0 .. MaxRuns /\ faults \in 0 .. MaxFaults
  BY DEF TypeOK
<1>1. CASE Device \/ Expire
  <2>1. UNCHANGED <<hostVars, runs, faults>>
    BY <1>1, Zenon DEF Device, Expire, DeviceStep
  <2>2. DeviceReceive \/ DeviceTimer \/ SessionExpire
    BY <1>1, Zenon DEF Device, Expire, DeviceStep
  <2>3. LinkTypeOK' /\ DeviceTypeOK'
    BY <1>0, <2>2, HandshakeType, V2MetadataType, V2MetadataAckAckType, V2ChunkType,
       OtherReceiveType, TimerType, Zenon
    DEF DeviceReceive, DeviceTimer
  <2> QED
    BY <1>0, <2>1, <2>3, HostFrameCondition, Zenon DEF TypeOK
<1>2. CASE Host \/ FallBack
  <2>1. UNCHANGED <<deviceVars, runs, faults>>
    BY <1>2, Zenon DEF Host, FallBack
  <2>2. HostStep \/ HostFallBack
    BY <1>2, Zenon DEF Host, FallBack
  <2>3. LinkTypeOK' /\ HostTypeOK'
    BY <1>0, <2>2, HandshakeHostType, DispatchType, DriveType, Zenon DEF HostStep
  <2> QED
    BY <1>0, <2>1, <2>3, DeviceFrameCondition, Zenon DEF TypeOK
<1>3. CASE Operator
  <2>1. LinkTypeOK' /\ HostTypeOK'
    BY <1>0, <1>3, HandshakeHostType, DriveType, Zenon DEF Operator
  <2>2. UNCHANGED deviceVars /\ UNCHANGED faults
    BY <1>3, Zenon DEF Operator
  <2>3. UNCHANGED runs \/ (runs < MaxRuns /\ runs' = runs + 1)
    BY <1>3, Zenon DEF Operator
  <2>4. runs' \in 0 .. MaxRuns
    BY <1>0, <2>3, BudgetAssumption
  <2> QED
    BY <1>0, <2>1, <2>2, <2>4, DeviceFrameCondition, Zenon DEF TypeOK
<1>4. CASE Loss \/ Reset \/ Corruption
  <2>1. faults < MaxFaults /\ faults' = faults + 1 /\ UNCHANGED runs /\ UNCHANGED hostVars
    BY <1>4, Zenon DEF Loss, Reset, Corruption, Budget
  <2>2. faults' \in 0 .. MaxFaults
    BY <1>0, <2>1, BudgetAssumption
  <2>3. LinkTypeOK' /\ DeviceTypeOK'
    BY <1>0, <1>4, LinkFaultType, TimerType, DeviceFrameCondition, Zenon
    DEF Loss, Reset, Corruption
  <2> QED
    BY <1>0, <2>1, <2>2, <2>3, HostFrameCondition, Zenon DEF TypeOK
<1>5. CASE UNCHANGED vars
  BY <1>0, <1>5, DeviceFrameCondition, HostFrameCondition, Zenon
  DEF vars, linkVars, TypeOK, LinkTypeOK
<1> QED
  BY <1>1, <1>2, <1>3, <1>4, <1>5, Zenon DEF Next

(***************************************************************************)
(* Every state of the noisy system, and so of every quieter one, is well   *)
(* typed: what is on the line are messages, every image is made of pieces. *)
(***************************************************************************)
THEOREM TypeCorrect == NoisySpec => []TypeOK
<1>1. Init => TypeOK
  BY TypeInit
<1>2. TypeOK /\ [Next \/ Corruption]_vars => TypeOK'
  BY TypeStep
<1> QED
  BY <1>1, <1>2, PTL DEF NoisySpec

-----------------------------------------------------------------------------
(* Only intact images are booted *)

(***************************************************************************)
(* BootsIntactImage is not inductive: it says nothing of a device that     *)
(* waits for BootingAck, where the image was already checked, nor of the   *)
(* encoding of what is loaded, which is what keeps ElfLoader's comparison  *)
(* with the checksum of the compressed file from ever succeeding.          *)
(***************************************************************************)
ImageInflated == \A i \in DOMAIN image : image[i].enc = "inflated"

BootReady ==
  proto = "Running" \/ (proto = "V2" /\ state = "Boot")
  => \E g \in Images : g.name = md.name /\ image = Stream(g, "inflated")

BootInv == ImageInflated /\ BootReady

(* finalize succeeds only on the whole inflated image its metadata stands for. *)
LEMMA FinalizeSound ==
  ASSUME NEW g \in Contents, NEW bytes \in Seq(Piece),
         \A i \in DOMAIN bytes : bytes[i].enc = "inflated",
         FinalizeOk(g, bytes)
  PROVE  \E h \in Images : h.name = g.name /\ bytes = Stream(h, "inflated")
<1>1. PICK h \in Images :
        h.name = g.name /\ bytes = Stream(h, IF g.format = "Bin" THEN "inflated" ELSE "deflated")
  BY DEF FinalizeOk
<1>a. h \in Contents /\ h.count \in Nat /\ h.count > 0
  BY ImagesAssumption DEF Contents, ImageRecord
<1>2. CASE g.format = "Bin"
  BY <1>1, <1>2
<1>3. CASE g.format # "Bin"
  <2>1. bytes = Stream(h, "deflated")
    BY <1>1, <1>3
  <2>2. 1 \in DOMAIN bytes /\ bytes[1] = [of |-> h, at |-> 1 - 1, enc |-> "deflated"]
    BY <1>a, <2>1, StreamType
  <2>3. bytes[1].enc = "deflated"
    BY <2>2
  <2>4. bytes[1].enc = "inflated"
    BY <2>2
  <2> QED
    BY <2>3, <2>4
<1> QED
  BY <1>2, <1>3

(* Appending inflated pieces to an inflated image. *)
LEMMA InflatedConcat ==
  ASSUME NEW s \in Seq(Piece), NEW t \in Seq(Piece),
         \A i \in DOMAIN s : s[i].enc = "inflated",
         \A i \in DOMAIN t : t[i].enc = "inflated"
  PROVE  \A i \in DOMAIN (s \o t) : (s \o t)[i].enc = "inflated"
<1> TAKE i \in DOMAIN (s \o t)
<1>1. /\ i \in 1 .. Len(s) + Len(t)
      /\ (s \o t)[i] = IF i <= Len(s) THEN s[i] ELSE t[i - Len(s)]
  BY ConcatProperties
<1>2. CASE i <= Len(s)
  <2>1. i \in DOMAIN s
    BY <1>1, <1>2
  <2> QED
    BY <1>1, <1>2, <2>1
<1>3. CASE ~(i <= Len(s))
  <2>1. i - Len(s) \in DOMAIN t
    BY <1>1, <1>3
  <2> QED
    BY <1>1, <1>3, <2>1
<1> QED
  BY <1>2, <1>3

(* Steps after which no session exists, and steps that leave it alone. *)
LEMMA EndSessionBoot ==
  ASSUME EndSession, proto' \in {"Handshake", "Legacy"}
  PROVE  BootInv'
<1>1. image' = << >> /\ proto' # "Running" /\ proto' # "V2"
  BY DEF EndSession
<1> QED
  BY <1>1 DEF BootInv, ImageInflated, BootReady

(* A step that leaves the loader alone keeps what it has loaded. *)
LEMMA SameSessionBoot ==
  ASSUME BootInv, UNCHANGED <<proto, state, md, image>>
  PROVE  BootInv'
  BY DEF BootInv, ImageInflated, BootReady

(* The packets that change a session. *)
LEMMA ConsumeBoot ==
  ASSUME BootInv, Abcon \/ Abend \/ Ignore
  PROVE  BootInv'
  BY EndSessionBoot, SameSessionBoot, Zenon
  DEF Abcon, Abend, Ignore, StartHandshake, sessionVars

(* An accepted chunk extends what is loaded, or the image is finished and intact. *)
LEMMA AcceptChunkBoot ==
  ASSUME TypeOK, BootInv, proto = "V2", state = "RequestChunk",
         NEW bytes \in Seq(Piece), AcceptChunk(bytes)
  PROVE  BootInv'
<1> DEFINE received == image \o Inflate(bytes)
<1>0. image \in Seq(Piece) /\ md \in Contents /\ received \in Seq(Piece)
  BY InflateType DEF TypeOK, DeviceTypeOK
<1>1. \A i \in DOMAIN received : received[i].enc = "inflated"
  BY <1>0, InflateType, InflatedConcat DEF BootInv, ImageInflated
<1>2. CASE Abend
  BY <1>2, ConsumeBoot
<1>3. CASE ~Abend
  <2>1. /\ image' = received
        /\ UNCHANGED <<proto, md>>
        /\ UNCHANGED state \/ FinalizeOk(md, received)
    BY <1>3 DEF AcceptChunk
  <2>2. ImageInflated'
    BY <1>1, <2>1 DEF ImageInflated
  <2>3. BootReady'
    <3>1. CASE UNCHANGED state
      BY <2>1, <3>1 DEF BootReady
    <3>2. CASE FinalizeOk(md, received)
      BY <1>0, <1>1, <2>1, <3>2, FinalizeSound DEF BootReady
    <3> QED
      BY <2>1, <3>1, <3>2
  <2> QED
    BY <2>2, <2>3 DEF BootInv
<1> QED
  BY <1>2, <1>3

(* Whatever frame is received, only an intact image boots. *)
LEMMA ReceiveBoot ==
  ASSUME TypeOK, BootInv, DeviceReceive
  PROVE  BootInv'
<1>1. CASE HandshakeProbe
  BY <1>1, ConsumeBoot, SameSessionBoot DEF HandshakeProbe
<1>2. CASE HandshakeUseVersion
  <2>1. Abend \/ StartV2
    BY <1>2 DEF HandshakeUseVersion
  <2>2. CASE StartV2
    BY <2>2 DEF StartV2, BootInv, ImageInflated, BootReady
  <2> QED
    BY <2>1, <2>2, ConsumeBoot
<1>3. CASE HandshakeOther \/ V2Other
  BY <1>3, ConsumeBoot DEF HandshakeOther, V2Other
<1>4. CASE V2Metadata
  <2>1. Ignore \/ (proto = "V2" /\ state' = "AckMetadata" /\ UNCHANGED <<proto, image>>)
    BY <1>4 DEF V2Metadata
  <2>2. CASE ~Ignore
    BY <2>1, <2>2 DEF BootInv, ImageInflated, BootReady
  <2> QED
    BY <2>2, ConsumeBoot
<1>5. CASE V2MetadataAckAck
  <2>1. Ignore \/ /\ proto = "V2" /\ proto' = "V2"
                  /\ state' \in {"RequestChunk", "RequestMetadata"} /\ image' = << >>
    BY <1>5 DEF V2MetadataAckAck
  <2>2. CASE ~Ignore
    BY <2>1, <2>2 DEF BootInv, ImageInflated, BootReady
  <2> QED
    BY <2>2, ConsumeBoot
<1>6. CASE V2Chunk
  <2>0. proto = "V2" /\ Received({"Chunk"})
    BY <1>6 DEF V2Chunk
  <2>1. PICK p \in Payload :
          \/ Ignore
          \/ p # ParseError /\ state = "RequestChunk" /\ AcceptChunk(p.bytes)
          \/ UNCHANGED <<proto, state, md, image>>
    BY <1>6 DEF V2Chunk
  <2>2. CASE p # ParseError /\ state = "RequestChunk" /\ AcceptChunk(p.bytes)
    <3>1. p.bytes \in Seq(Piece)
      BY <2>0, <2>2, PayloadType, HostPayload DEF TypeOK, DeviceTypeOK
    <3> QED
      BY <2>0, <2>2, <3>1, AcceptChunkBoot
  <2> QED
    BY <2>1, <2>2, ConsumeBoot, SameSessionBoot
<1>7. CASE V2BootingAck
  <2>1. Ignore \/ (proto = "V2" /\ state = "Boot" /\ UNCHANGED <<md, image>>)
    BY <1>7 DEF V2BootingAck
  <2>2. CASE ~Ignore
    BY <2>1, <2>2 DEF BootInv, ImageInflated, BootReady
  <2> QED
    BY <2>2, ConsumeBoot
<1>8. CASE ReceiveLegacy
  BY <1>8, EndSessionBoot DEF ReceiveLegacy
<1>9. CASE DecodeError \/ DropInError
  BY <1>9, SameSessionBoot DEF DecodeError, DropInError, deviceVars, sessionVars
<1> QED
  BY <1>1, <1>2, <1>3, <1>4, <1>5, <1>6, <1>7, <1>8, <1>9 DEF DeviceReceive

(* Every step keeps the invariant of the loader. *)
LEMMA BootStep == TypeOK /\ BootInv /\ [Next \/ Corruption]_vars => BootInv'
<1> SUFFICES ASSUME TypeOK, BootInv, [Next \/ Corruption]_vars PROVE BootInv'
  OBVIOUS
<1>1. CASE Device \/ Expire
  <2>1. DeviceReceive \/ DeviceTimer \/ SessionExpire
    BY <1>1, Zenon DEF Device, Expire, DeviceStep
  <2>2. CASE DeviceTimer
    BY <2>2, SameSessionBoot, Zenon
    DEF DeviceTimer, Heartbeat, SendGetProgInfo, ErrorRecovered, deviceVars, sessionVars
  <2>3. CASE SessionExpire
    BY <2>3, EndSessionBoot, Zenon DEF SessionExpire, StartHandshake
  <2> QED
    BY <2>1, <2>2, <2>3, ReceiveBoot
<1>2. CASE Reset
  BY <1>2, EndSessionBoot, Zenon DEF Reset, PowerCycle, StartHandshake
<1>3. CASE UNCHANGED deviceVars
  BY <1>3, SameSessionBoot, Zenon DEF deviceVars, sessionVars
<1>4. Host \/ FallBack \/ Operator \/ Loss \/ Corruption \/ UNCHANGED vars => UNCHANGED deviceVars
  BY Zenon DEF Host, FallBack, Operator, Loss, Corruption, vars
<1> QED
  BY <1>1, <1>2, <1>3, <1>4, Zenon DEF Next

(***************************************************************************)
(* The device only ever enters a program whose bytes are, complete and in  *)
(* order, those of the operator's image its metadata stands for: whatever  *)
(* frames the line loses or damages, whatever a damaged Metadata says,     *)
(* however often hosts are killed and boards reset.  The load address is   *)
(* not part of this, as the checksums do not cover it.                     *)
(***************************************************************************)
THEOREM OnlyIntactImagesBoot == NoisySpec => []BootsIntactImage
<1>1. Init => BootInv
  BY DEF Init, DeviceInit, BootInv, ImageInflated, BootReady
<1>2. TypeOK /\ BootInv /\ [Next \/ Corruption]_vars => BootInv'
  BY BootStep
<1>3. BootInv => BootsIntactImage
  BY DEF BootInv, BootReady, BootsIntactImage
<1> QED
  BY <1>1, <1>2, <1>3, TypeCorrect, PTL DEF NoisySpec

-----------------------------------------------------------------------------
(* One session at a time *)

(***************************************************************************)
(* The rest is about a line that damages nothing (Spec).  What keeps the   *)
(* hosts apart is the rate.  A device answers a Probe at the initial rate  *)
(* only, it comes back to that rate by a reset only, and a reset empties   *)
(* the line.  So when AllowedVersions waits for a host, no frame of the    *)
(* fast rate is under way and the device holds no metadata: all it will    *)
(* hear at that rate comes from the host that takes the offer.             *)
(***************************************************************************)
Uploading == mode \in {"Upload", "Closing"}
Fast(f)   == f.rate = V2_BAUD_RATE
Loading   == proto = "V2" /\ state # "RequestMetadata"

(* Nothing on the line is damaged, so no payload is garbled. *)
LineIntact ==
  /\ \A i \in DOMAIN h2d : h2d[i].intact
  /\ \A i \in DOMAIN d2h : d2h[i].intact
  /\ ~rx_stale

Rates ==
  /\ proto = "V2" => uart_baud = V2_BAUD_RATE
  /\ tty_baud = IF Uploading THEN V2_BAUD_RATE ELSE INITIAL_BAUD_RATE
  /\ mode # "Idle" => file \in Images
  /\ out # << >> => Uploading

(* A message of a host that uploads g. *)
OwnMessage(g, m) ==
  /\ m.type # "Probe"
  /\ m.type = "Metadata" => m.metadata = g /\ g \in Images
  /\ m.type = "Chunk" => /\ m.which < g.count
                         /\ m.bytes = <<[of |-> g, at |-> m.which, enc |-> "deflated"]>>

(* All that is sent at the fast rate, and the device, belong to one image. *)
Owner(g) ==
  /\ \A i \in DOMAIN h2d : Fast(h2d[i]) => OwnMessage(g, h2d[i].msg)
  /\ \A i \in DOMAIN out : OwnMessage(g, out[i])
  /\ Uploading => g = file
  /\ Loading => g = md

OneOwner ==
  /\ \E g \in Contents : Owner(g)
  /\ Loading => md \in Images

(* The host that uploads has kept the chunk size when the device needs it. *)
IsYes(m) == m.type = "MetadataAckAck" /\ m.is_ok

SizeKnown ==
  Uploading /\ chunk_size # 1 =>
    /\ \A i \in DOMAIN h2d : Fast(h2d[i]) => ~IsYes(h2d[i].msg)
    /\ \A i \in DOMAIN out : ~IsYes(out[i])
    /\ ~(proto = "V2" /\ state \in {"RequestChunk", "Boot"})

(* An offer nobody has taken. *)
OfferWaits ==
  \A j \in DOMAIN d2h :
    mode \in {"Idle", "Probing"} /\ d2h[j].msg.type = "AllowedVersions" =>
      /\ \A i \in DOMAIN h2d : ~Fast(h2d[i])
      /\ ~Loading
      /\ \A i \in DOMAIN d2h : j < i => d2h[i].msg.type # "ChunkReq"

(* Requests that a host will answer are for chunks it has. *)
ChunksExist ==
  Uploading => \A i \in DOMAIN d2h : d2h[i].msg.type = "ChunkReq" =>
                 chunk_size = 1 /\ d2h[i].msg.which < file.count

(* A device at the initial rate: a Probe is followed by no frame of an     *)
(* earlier session, on the line or still to be provoked.                   *)
ProbesLast ==
  uart_baud = INITIAL_BAUD_RATE =>
    /\ \A i, j \in DOMAIN h2d : j < i /\ h2d[j].msg.type = "Probe" => ~Fast(h2d[i])
    /\ \A i \in DOMAIN d2h : Fast(d2h[i]) =>
         \A j \in DOMAIN h2d : h2d[j].msg.type # "Probe"
    /\ out # << >> => \A j \in DOMAIN h2d : h2d[j].msg.type # "Probe"
    /\ mode = "Idle" => \A i \in DOMAIN d2h : ~Fast(d2h[i])

(* What is loaded is the beginning of the image, and nothing outside a load. *)
LoadedInOrder ==
  /\ proto = "V2" /\ state = "RequestChunk" =>
       /\ which < md.count
       /\ image = [i \in 1 .. which |-> [of |-> md, at |-> i - 1, enc |-> "inflated"]]
  /\ ~(proto = "Running" \/ (proto = "V2" /\ state \in {"RequestChunk", "Boot"})) => image = << >>

SessionInv ==
  /\ LineIntact /\ Rates /\ OneOwner /\ SizeKnown /\ OfferWaits /\ ChunksExist
  /\ ProbesLast /\ LoadedInOrder

(* What is left of a queue when frames are taken from it. *)
Shrinks(t, s) == \E n \in Nat : \A i \in DOMAIN t : i + n \in DOMAIN s /\ t[i] = s[i + n]

(* What taking, losing and flushing frames does to a queue. *)
LEMMA ShrinkFacts ==
  ASSUME NEW S, NEW s \in Seq(S)
  PROVE  /\ Shrinks(s, s)
         /\ Shrinks(<< >>, s)
         /\ s # << >> => Shrinks(Tail(s), s)
         /\ \A n \in 0 .. Len(s) : Shrinks(SubSeq(s, 1, n), s)
         /\ \A n \in 1 .. Len(s) : Shrinks(SubSeq(s, n + 1, Len(s)), s)
<1>1. Shrinks(s, s)
  <2>1. \A i \in DOMAIN s : i + 0 \in DOMAIN s /\ s[i] = s[i + 0]
    OBVIOUS
  <2> QED
    BY <2>1 DEF Shrinks
<1>2. Shrinks(<< >>, s)
  <2>1. \A i \in DOMAIN << >> : i + 0 \in DOMAIN s /\ << >>[i] = s[i + 0]
    OBVIOUS
  <2> QED
    BY <2>1 DEF Shrinks
<1>3. ASSUME s # << >> PROVE Shrinks(Tail(s), s)
  <2>1. \A i \in DOMAIN Tail(s) : i + 1 \in DOMAIN s /\ Tail(s)[i] = s[i + 1]
    BY <1>3
  <2> QED
    BY <2>1 DEF Shrinks
<1>4. ASSUME NEW n \in 0 .. Len(s) PROVE Shrinks(SubSeq(s, 1, n), s)
  <2>1. \A i \in DOMAIN SubSeq(s, 1, n) : i + 0 \in DOMAIN s /\ SubSeq(s, 1, n)[i] = s[i + 0]
    OBVIOUS
  <2> QED
    BY <2>1 DEF Shrinks
<1>5. ASSUME NEW n \in 1 .. Len(s) PROVE Shrinks(SubSeq(s, n + 1, Len(s)), s)
  <2>1. \A i \in DOMAIN SubSeq(s, n + 1, Len(s)) :
          i + n \in DOMAIN s /\ SubSeq(s, n + 1, Len(s))[i] = s[i + n]
    OBVIOUS
  <2> QED
    BY <2>1 DEF Shrinks
<1> QED
  BY <1>1, <1>2, <1>3, <1>4, <1>5

(***************************************************************************)
(* A step that takes frames off the line.  The device may lose its session *)
(* or go on with it; it gets metadata from a frame of the fast rate only,  *)
(* and it comes back to the initial rate on an empty line only.            *)
(***************************************************************************)
LEMMA TakingKeepsSession ==
  ASSUME TypeOK, TypeOK', SessionInv, UNCHANGED hostVars,
         Shrinks(h2d', h2d), Shrinks(d2h', d2h), rx_stale' = rx_stale \/ ~rx_stale',
         \/ uart_baud' = uart_baud \/ uart_baud' = V2_BAUD_RATE
         \/ h2d' = << >> /\ (mode = "Idle" => d2h' = << >>),
         proto' = "V2" => uart_baud' = V2_BAUD_RATE,
         \/ ~Loading'
         \/ Loading /\ md' = md
         \/ \E i \in DOMAIN h2d : /\ Fast(h2d[i]) /\ h2d[i].msg.type = "Metadata"
                                  /\ md' = h2d[i].msg.metadata,
         Uploading /\ chunk_size # 1 => ~(proto' = "V2" /\ state' \in {"RequestChunk", "Boot"}),
         LoadedInOrder'
  PROVE  SessionInv'
<1>0. PICK n \in Nat, k \in Nat :
        /\ \A i \in DOMAIN h2d' : i + n \in DOMAIN h2d /\ h2d'[i] = h2d[i + n]
        /\ \A i \in DOMAIN d2h' : i + k \in DOMAIN d2h /\ d2h'[i] = d2h[i + k]
  BY DEF Shrinks
<1>a. /\ h2d \in Seq(HostFrame) /\ d2h \in Seq(DeviceFrame)
      /\ h2d' \in Seq(HostFrame) /\ d2h' \in Seq(DeviceFrame)
  BY DEF TypeOK, LinkTypeOK
<1>b. UNCHANGED <<mode, file, tty_baud, chunk_size, out>>
  BY DEF hostVars
<1>c. Uploading' = Uploading
  BY <1>b DEF Uploading
<1>1. LineIntact'
  BY <1>0 DEF SessionInv, LineIntact
<1>2. Rates'
  BY <1>0, <1>b, <1>c DEF SessionInv, Rates, Fast
<1>3. OneOwner'
  <2>1. PICK g \in Contents : Owner(g)
    BY DEF SessionInv, OneOwner
  <2>2. Loading' => g = md' /\ md' \in Images
    BY <2>1 DEF SessionInv, OneOwner, Owner, OwnMessage
  <2>3. Owner(g)'
    BY <1>0, <1>b, <1>c, <2>1, <2>2 DEF Owner, Fast
  <2> QED
    BY <2>2, <2>3 DEF OneOwner
<1>4. SizeKnown'
  BY <1>0, <1>b, <1>c DEF SessionInv, SizeKnown, Fast
<1>5. OfferWaits'
  <2> SUFFICES ASSUME NEW j \in DOMAIN d2h', mode \in {"Idle", "Probing"},
                      d2h'[j].msg.type = "AllowedVersions"
               PROVE  /\ \A i \in DOMAIN h2d' : ~Fast(h2d'[i])
                      /\ ~Loading'
                      /\ \A i \in DOMAIN d2h' : j < i => d2h'[i].msg.type # "ChunkReq"
    BY <1>b DEF OfferWaits, Fast
  <2>1. j + k \in DOMAIN d2h /\ d2h[j + k].msg.type = "AllowedVersions"
    BY <1>0
  <2>2. /\ \A i \in DOMAIN h2d : ~Fast(h2d[i])
        /\ ~Loading
        /\ \A i \in DOMAIN d2h : j + k < i => d2h[i].msg.type # "ChunkReq"
    BY <2>1 DEF SessionInv, OfferWaits
  <2>3. ~Loading'
    BY <2>2
  <2>4. \A i \in DOMAIN h2d' : ~Fast(h2d'[i])
    BY <1>0, <2>2
  <2>5. ASSUME NEW i \in DOMAIN d2h', j < i PROVE d2h'[i].msg.type # "ChunkReq"
    <3>1. i + k \in DOMAIN d2h /\ j + k < i + k /\ d2h'[i] = d2h[i + k]
      BY <1>0, <1>a, <2>5
    <3> QED
      BY <2>2, <3>1
  <2> QED
    BY <2>3, <2>4, <2>5
<1>6. ChunksExist'
  BY <1>0, <1>b, <1>c DEF SessionInv, ChunksExist
<1>7. ProbesLast'
  <2> SUFFICES ASSUME uart_baud' = INITIAL_BAUD_RATE PROVE ProbesLast'
    BY DEF ProbesLast
  <2>0. INITIAL_BAUD_RATE # V2_BAUD_RATE
    BY DEF INITIAL_BAUD_RATE, V2_BAUD_RATE
  <2>1. CASE uart_baud = INITIAL_BAUD_RATE
    <3>1. ASSUME NEW i \in DOMAIN h2d', NEW j \in DOMAIN h2d', j < i,
                 h2d'[j].msg.type = "Probe"
          PROVE  ~Fast(h2d'[i])
      <4>1. /\ i + n \in DOMAIN h2d /\ j + n \in DOMAIN h2d /\ j + n < i + n
            /\ h2d'[i] = h2d[i + n] /\ h2d'[j] = h2d[j + n]
        BY <1>0, <1>a, <3>1
      <4> QED
        BY <2>1, <3>1, <4>1 DEF SessionInv, ProbesLast
    <3> QED
      BY <1>0, <1>b, <2>1, <3>1 DEF SessionInv, ProbesLast, Fast
  <2>2. CASE h2d' = << >> /\ (mode = "Idle" => d2h' = << >>)
    BY <1>b, <2>2 DEF ProbesLast
  <2> QED
    BY <2>0, <2>1, <2>2
<1> QED
  BY <1>1, <1>2, <1>3, <1>4, <1>5, <1>6, <1>7 DEF SessionInv

(* A device that sends a frame at its rate, and may have taken one. *)
LEMMA SendingKeepsSession ==
  ASSUME TypeOK, TypeOK', SessionInv,
         UNCHANGED <<hostVars, rx_stale, uart_baud, proto, state, md, which, image>>,
         Shrinks(h2d', h2d), NEW m, d2h' = Append(d2h, Frame(m, uart_baud)),
         m.type = "ChunkReq" => proto = "V2" /\ state = "RequestChunk" /\ m.which = which,
         m.type = "AllowedVersions" => ~Loading /\ \A i \in DOMAIN h2d' : ~Fast(h2d'[i])
  PROVE  SessionInv'
<1> DEFINE f == Frame(m, uart_baud)
<1>0. PICK n \in Nat : \A i \in DOMAIN h2d' : i + n \in DOMAIN h2d /\ h2d'[i] = h2d[i + n]
  BY DEF Shrinks
<1>a. /\ h2d \in Seq(HostFrame) /\ d2h \in Seq(DeviceFrame)
      /\ h2d' \in Seq(HostFrame) /\ d2h' \in Seq(DeviceFrame)
  BY DEF TypeOK, LinkTypeOK
<1>b. UNCHANGED <<mode, file, tty_baud, chunk_size, out>>
  BY DEF hostVars
<1>c. Uploading' = Uploading /\ Loading' = Loading
  BY <1>b DEF Uploading, Loading
<1>d. f.msg = m /\ f.rate = uart_baud /\ f.intact
  BY DEF Frame
<1> HIDE DEF f
<1>e. \A i \in DOMAIN d2h' : \/ i \in DOMAIN d2h /\ d2h'[i] = d2h[i]
                             \/ i = Len(d2h) + 1 /\ d2h'[i] = f
  <2>1. d2h' = Append(d2h, f)
    BY DEF f
  <2> QED
    BY <1>a, <2>1
<1>1. LineIntact'
  BY <1>0, <1>d, <1>e DEF SessionInv, LineIntact
<1>2. Rates'
  BY <1>0, <1>b, <1>c DEF SessionInv, Rates, Fast
<1>3. OneOwner'
  <2>1. PICK g \in Contents : Owner(g)
    BY DEF SessionInv, OneOwner
  <2>2. Owner(g)'
    BY <1>0, <1>b, <1>c, <2>1 DEF Owner, Fast
  <2> QED
    BY <1>c, <2>2 DEF SessionInv, OneOwner
<1>4. SizeKnown'
  BY <1>0, <1>b, <1>c DEF SessionInv, SizeKnown, Fast
<1>5. OfferWaits'
  <2> SUFFICES ASSUME NEW j \in DOMAIN d2h', mode \in {"Idle", "Probing"},
                      d2h'[j].msg.type = "AllowedVersions"
               PROVE  /\ \A i \in DOMAIN h2d' : ~Fast(h2d'[i])
                      /\ ~Loading
                      /\ \A i \in DOMAIN d2h' : j < i => d2h'[i].msg.type # "ChunkReq"
    BY <1>b, <1>c DEF OfferWaits, Fast
  <2>1. CASE j \in DOMAIN d2h /\ d2h'[j] = d2h[j]
    <3>1. /\ \A i \in DOMAIN h2d : ~Fast(h2d[i])
          /\ ~Loading
          /\ \A i \in DOMAIN d2h : j < i => d2h[i].msg.type # "ChunkReq"
      BY <2>1 DEF SessionInv, OfferWaits
    <3>2. \A i \in DOMAIN h2d' : ~Fast(h2d'[i])
      BY <1>0, <3>1
    <3>3. m.type # "ChunkReq"
      BY <3>1 DEF Loading
    <3> QED
      BY <1>d, <1>e, <3>1, <3>2, <3>3
  <2>2. CASE j = Len(d2h) + 1 /\ d2h'[j] = f
    <3>1. ~Loading /\ \A i \in DOMAIN h2d' : ~Fast(h2d'[i])
      BY <1>d, <2>2
    <3>2. \A i \in DOMAIN d2h' : ~(j < i)
      BY <1>a, <1>e, <2>2
    <3> QED
      BY <3>1, <3>2
  <2> QED
    BY <1>e, <2>1, <2>2
<1>6. ChunksExist'
  <2> SUFFICES ASSUME Uploading, NEW i \in DOMAIN d2h', d2h'[i].msg.type = "ChunkReq"
               PROVE  chunk_size = 1 /\ d2h'[i].msg.which < file.count
    BY <1>b, <1>c DEF ChunksExist
  <2>1. CASE i \in DOMAIN d2h /\ d2h'[i] = d2h[i]
    BY <2>1 DEF SessionInv, ChunksExist
  <2>2. CASE d2h'[i] = f
    <3>1. proto = "V2" /\ state = "RequestChunk" /\ m.which = which
      BY <1>d, <2>2
    <3>2. chunk_size = 1
      BY <3>1 DEF SessionInv, SizeKnown
    <3>3. md = file
      BY <3>1 DEF SessionInv, OneOwner, Owner, Loading
    <3>4. which < md.count
      BY <3>1 DEF SessionInv, LoadedInOrder
    <3> QED
      BY <1>d, <2>2, <3>1, <3>2, <3>3, <3>4
  <2> QED
    BY <1>e, <2>1, <2>2
<1>7. ProbesLast'
  <2> SUFFICES ASSUME uart_baud = INITIAL_BAUD_RATE PROVE ProbesLast'
    BY DEF ProbesLast
  <2>1. ~Fast(f)
    BY <1>d DEF Fast, INITIAL_BAUD_RATE, V2_BAUD_RATE
  <2>2. ASSUME NEW i \in DOMAIN h2d', NEW j \in DOMAIN h2d', j < i, h2d'[j].msg.type = "Probe"
        PROVE  ~Fast(h2d'[i])
    <3>1. /\ i + n \in DOMAIN h2d /\ j + n \in DOMAIN h2d /\ j + n < i + n
          /\ h2d'[i] = h2d[i + n] /\ h2d'[j] = h2d[j + n]
      BY <1>0, <1>a, <2>2
    <3> QED
      BY <2>2, <3>1 DEF SessionInv, ProbesLast
  <2>3. \A i \in DOMAIN d2h' : Fast(d2h'[i]) => i \in DOMAIN d2h /\ d2h'[i] = d2h[i]
    BY <1>e, <2>1
  <2> QED
    BY <1>0, <1>b, <2>2, <2>3 DEF SessionInv, ProbesLast, Fast
<1>8. LoadedInOrder'
  BY DEF SessionInv, LoadedInOrder
<1> QED
  BY <1>1, <1>2, <1>3, <1>4, <1>5, <1>6, <1>7, <1>8 DEF SessionInv

-----------------------------------------------------------------------------
(* The device's steps *)

(* A frame that is received is what was sent, at the device's rate. *)
LEMMA ReceivedFacts ==
  ASSUME TypeOK, SessionInv, NEW T, Received(T)
  PROVE  /\ h2d # << >> /\ 1 \in DOMAIN h2d /\ h2d[1].rate = uart_baud
         /\ h2d[1].msg \in HostMessage /\ h2d[1].msg.type \in T
         /\ Payload = {h2d[1].msg}
         /\ ParseError # h2d[1].msg
<1>1. h2d \in Seq(HostFrame) /\ h2d # << >> /\ h2d[1].msg.type \in T /\ h2d[1].rate = uart_baud
  BY DEF TypeOK, LinkTypeOK, Received, Readable
<1>2. 1 \in DOMAIN h2d /\ h2d[1] \in HostFrame
  BY <1>1
<1>3. h2d[1].msg \in HostMessage
  BY <1>2 DEF HostFrame
<1>4. Payload = {h2d[1].msg}
  BY DEF Payload, Parsed, SessionInv, LineIntact
<1>5. ParseError # h2d[1].msg
  BY <1>3 DEF ParseError, HostMessage, Probe, BootingAck, PutProgInfo
<1> QED
  BY <1>1, <1>2, <1>3, <1>4, <1>5

(* What a session that ends or does not change has loaded. *)
LEMMA NoLoad ==
  ASSUME image' = << >>, proto' # "Running", ~(proto' = "V2" /\ state' \in {"RequestChunk", "Boot"})
  PROVE  LoadedInOrder'
  BY DEF LoadedInOrder

(* A step that leaves the loader alone. *)
LEMMA SameLoad ==
  ASSUME SessionInv, UNCHANGED <<proto, state, md, which, image>>
  PROVE  LoadedInOrder'
  BY DEF SessionInv, LoadedInOrder

(* A device step that takes no metadata and keeps or ends its session. *)
LEMMA ConsumeSession ==
  ASSUME TypeOK, TypeOK', SessionInv, UNCHANGED hostVars,
         Shrinks(h2d', h2d), Shrinks(d2h', d2h), rx_stale' = rx_stale \/ ~rx_stale',
         \/ UNCHANGED <<uart_baud, proto, state, md, which, image>>
         \/ EndSession /\ proto' \in {"Handshake", "Legacy"} /\ UNCHANGED uart_baud
         \/ StartV2 /\ uart_baud' = V2_BAUD_RATE
         \/ /\ EndSession /\ proto' = "Handshake" /\ h2d' = << >>
            /\ mode = "Idle" => d2h' = << >>
  PROVE  SessionInv'
<1>1. CASE UNCHANGED <<uart_baud, proto, state, md, which, image>>
  <2>1. Loading' = Loading
    BY <1>1 DEF Loading
  <2>2. LoadedInOrder'
    BY <1>1, SameLoad
  <2> QED
    BY <1>1, <2>1, <2>2, TakingKeepsSession DEF SessionInv, SizeKnown, Rates
<1>2. CASE EndSession /\ proto' \in {"Handshake", "Legacy"} /\ UNCHANGED uart_baud
  <2>1. ~Loading' /\ proto' # "V2" /\ proto' # "Running" /\ image' = << >>
    BY <1>2 DEF Loading, EndSession
  <2>2. LoadedInOrder'
    BY <2>1, NoLoad
  <2> QED
    BY <1>2, <2>1, <2>2, TakingKeepsSession
<1>3. CASE StartV2 /\ uart_baud' = V2_BAUD_RATE
  <2>1. ~Loading' /\ proto' # "Running" /\ image' = << >> /\ state' = "RequestMetadata"
    BY <1>3 DEF Loading, StartV2
  <2>2. LoadedInOrder'
    BY <2>1, NoLoad
  <2> QED
    BY <1>3, <2>1, <2>2, TakingKeepsSession
<1>4. CASE /\ EndSession /\ proto' = "Handshake" /\ h2d' = << >>
           /\ mode = "Idle" => d2h' = << >>
  <2>1. ~Loading' /\ proto' # "V2" /\ proto' # "Running" /\ image' = << >>
    BY <1>4 DEF Loading, EndSession
  <2>2. LoadedInOrder'
    BY <2>1, NoLoad
  <2> QED
    BY <1>4, <2>1, <2>2, TakingKeepsSession
<1> QED
  BY <1>1, <1>2, <1>3, <1>4

(* Finished takes the head of the queue. *)
LEMMA FinishedShrinks ==
  ASSUME TypeOK, h2d # << >>, h2d' = Tail(h2d)
  PROVE  Shrinks(h2d', h2d) /\ Shrinks(d2h, d2h)
<1>1. h2d \in Seq(HostFrame) /\ d2h \in Seq(DeviceFrame)
  BY DEF TypeOK, LinkTypeOK
<1> QED
  BY <1>1, ShrinkFacts

(* The outcomes of a packet that changes nothing but the receiver. *)
LEMMA StatusSession ==
  ASSUME TypeOK, TypeOK', SessionInv, UNCHANGED hostVars, h2d # << >>, Abcon \/ Abend \/ Ignore
  PROVE  SessionInv'
<1>1. h2d' = Tail(h2d) /\ ~rx_stale' /\ d2h' = d2h
  BY Zenon DEF Abcon, Abend, Ignore, Continue, Finished
<1>2. \/ UNCHANGED <<uart_baud, proto, state, md, which, image>>
      \/ EndSession /\ proto' \in {"Handshake", "Legacy"} /\ UNCHANGED uart_baud
  <2>1. CASE Abcon \/ Ignore
    BY <2>1 DEF Abcon, Ignore, sessionVars
  <2>2. CASE Abend
    BY <2>2 DEF Abend, StartHandshake
  <2> QED
    BY <2>1, <2>2
<1>3. Shrinks(h2d', h2d) /\ Shrinks(d2h', d2h)
  BY <1>1, FinishedShrinks
<1> QED
  BY <1>1, <1>2, <1>3, ConsumeSession

(* Handshake::handle_packet.  The offer is made at the initial rate. *)
LEMMA HandshakeSession ==
  ASSUME TypeOK, TypeOK', SessionInv, UNCHANGED hostVars,
         HandshakeProbe \/ HandshakeUseVersion \/ HandshakeOther
  PROVE  SessionInv'
<1>0. h2d # << >>
  BY DEF HandshakeProbe, HandshakeUseVersion, HandshakeOther, Received
<1>1. CASE Abcon \/ Abend
  BY <1>0, <1>1, StatusSession
<1>2. CASE HandshakeProbe /\ ~Abcon
  <2>1. /\ h2d' = Tail(h2d) /\ ~rx_stale'
        /\ UNCHANGED <<uart_baud, proto, state, md, which, image>>
        /\ proto = "Handshake" /\ Received({"Probe"})
        /\ UNCHANGED d2h \/ d2h' = Append(d2h, Frame(AllowedVersions, uart_baud))
    BY <1>2, Zenon DEF HandshakeProbe, Continue, Finished
  <2>2. Shrinks(h2d', h2d) /\ Shrinks(d2h, d2h)
    BY <1>0, <2>1, FinishedShrinks
  <2>3. CASE UNCHANGED d2h
    BY <2>1, <2>2, <2>3, ConsumeSession
  <2>4. CASE d2h' = Append(d2h, Frame(AllowedVersions, uart_baud))
    <3>1. 1 \in DOMAIN h2d /\ h2d[1].rate = uart_baud /\ h2d[1].msg.type = "Probe"
      BY <2>1, ReceivedFacts
    <3>2. uart_baud = INITIAL_BAUD_RATE
      BY <3>1 DEF SessionInv, OneOwner, Owner, OwnMessage, Fast, TypeOK, DeviceTypeOK, Rate
    <3>3. \A i \in DOMAIN h2d' : ~Fast(h2d'[i])
      <4>1. h2d \in Seq(HostFrame)
        BY DEF TypeOK, LinkTypeOK
      <4>2. \A i \in DOMAIN h2d' : i + 1 \in DOMAIN h2d /\ 1 < i + 1 /\ h2d'[i] = h2d[i + 1]
        BY <1>0, <2>1, <4>1
      <4> QED
        BY <3>1, <3>2, <4>2 DEF SessionInv, ProbesLast
    <3>4. AllowedVersions.type = "AllowedVersions"
      BY DEF AllowedVersions
    <3>5. rx_stale' = rx_stale
      BY <2>1 DEF SessionInv, LineIntact, TypeOK, DeviceTypeOK, FlagsTypeOK
    <3> QED
      BY <2>1, <2>2, <2>4, <3>3, <3>4, <3>5, SendingKeepsSession DEF Loading
  <2> QED
    BY <2>1, <2>3, <2>4
<1>3. CASE HandshakeUseVersion /\ ~Abend
  <2>1. h2d' = Tail(h2d) /\ ~rx_stale' /\ StartV2 /\ uart_baud' = V2_BAUD_RATE /\ d2h' = d2h
    BY <1>3, Zenon DEF HandshakeUseVersion, Continue, Finished
  <2>2. Shrinks(h2d', h2d) /\ Shrinks(d2h', d2h)
    BY <1>0, <2>1, FinishedShrinks
  <2> QED
    BY <2>1, <2>2, ConsumeSession
<1> QED
  BY <1>1, <1>2, <1>3 DEF HandshakeOther

(* recv_metadata: what is taken came at the fast rate. *)
LEMMA MetadataSession ==
  ASSUME TypeOK, TypeOK', SessionInv, UNCHANGED hostVars, V2Metadata
  PROVE  SessionInv'
<1>0. h2d # << >> /\ proto = "V2" /\ Received({"Metadata"})
  BY DEF V2Metadata, Received
<1>1. CASE Ignore
  BY <1>0, <1>1, StatusSession
<1>2. CASE ~Ignore
  <2>1. PICK p \in Payload :
          /\ p # ParseError /\ state = "RequestMetadata"
          /\ Continue /\ state' = "AckMetadata" /\ md' = p.metadata /\ once' = TRUE
          /\ UNCHANGED <<uart_baud, d2h, proto, expecting, which, image, retry_buffer>>
    BY <1>2 DEF V2Metadata
  <2>2. p = h2d[1].msg /\ 1 \in DOMAIN h2d /\ h2d[1].msg.type = "Metadata"
    BY <1>0, <2>1, ReceivedFacts
  <2>3. Fast(h2d[1])
    BY <1>0, ReceivedFacts DEF SessionInv, Rates, Fast
  <2>4. h2d' = Tail(h2d) /\ ~rx_stale'
    BY <2>1, Zenon DEF Continue, Finished
  <2>5. Shrinks(h2d', h2d) /\ Shrinks(d2h', d2h)
    BY <1>0, <2>1, <2>4, FinishedShrinks
  <2>6. LoadedInOrder'
    BY <1>0, <2>1, NoLoad DEF SessionInv, LoadedInOrder
  <2>7. \E i \in DOMAIN h2d : /\ Fast(h2d[i]) /\ h2d[i].msg.type = "Metadata"
                              /\ md' = h2d[i].msg.metadata
    BY <2>1, <2>2, <2>3
  <2>8. proto' = "V2" => uart_baud' = V2_BAUD_RATE
    BY <1>0, <2>1 DEF SessionInv, Rates
  <2> QED
    BY <2>1, <2>4, <2>5, <2>6, <2>7, <2>8, TakingKeepsSession
<1> QED
  BY <1>1, <1>2

(* recv_metadata_ack_ack: a host that says yes has kept the chunk size. *)
LEMMA AckAckSession ==
  ASSUME TypeOK, TypeOK', SessionInv, UNCHANGED hostVars, V2MetadataAckAck
  PROVE  SessionInv'
<1>0. h2d # << >> /\ proto = "V2" /\ Received({"MetadataAckAck"})
  BY DEF V2MetadataAckAck, Received
<1>a. 1 \in DOMAIN h2d /\ h2d[1].msg.type = "MetadataAckAck" /\ Payload = {h2d[1].msg}
      /\ Fast(h2d[1])
  BY <1>0, ReceivedFacts DEF SessionInv, Rates, Fast
<1>1. CASE Ignore
  BY <1>0, <1>1, StatusSession
<1>2. CASE ~Ignore
  <2> DEFINE p == h2d[1].msg
  <2>1. /\ state = "AckMetadata" /\ Continue
        /\ IF p.is_ok
             THEN state' = "RequestChunk" /\ once' = TRUE /\ UNCHANGED md
             ELSE state' = "RequestMetadata" /\ md' = Noise /\ UNCHANGED once
        /\ which' = 0 /\ image' = << >>
        /\ UNCHANGED <<uart_baud, d2h, proto, expecting, retry_buffer>>
    BY <1>a, <1>2 DEF V2MetadataAckAck
  <2>2. h2d' = Tail(h2d) /\ ~rx_stale'
    BY <2>1, Zenon DEF Continue, Finished
  <2>3. Shrinks(h2d', h2d) /\ Shrinks(d2h', d2h)
    BY <1>0, <2>1, <2>2, FinishedShrinks
  <2>4. proto' = "V2" /\ uart_baud' = V2_BAUD_RATE
    BY <1>0, <2>1 DEF SessionInv, Rates
  <2>5. CASE p.is_ok
    <3>1. Loading /\ md' = md /\ md \in Images /\ state' = "RequestChunk"
      BY <1>0, <2>1, <2>5 DEF Loading, SessionInv, OneOwner
    <3>2. md.count \in Nat /\ md.count > 0
      BY <3>1, ImagesAssumption DEF ImageRecord
    <3>3. LoadedInOrder'
      BY <2>1, <2>4, <3>1, <3>2 DEF LoadedInOrder
    <3>4. ~(Uploading /\ chunk_size # 1)
      BY <1>a, <2>5 DEF SessionInv, SizeKnown, IsYes
    <3> QED
      BY <2>2, <2>3, <2>4, <3>1, <3>3, <3>4, TakingKeepsSession
  <2>6. CASE ~p.is_ok
    <3>1. state' = "RequestMetadata" /\ image' = << >>
      BY <2>1, <2>6
    <3>2. LoadedInOrder'
      BY <2>4, <3>1, NoLoad
    <3>3. ~Loading'
      BY <3>1 DEF Loading
    <3> QED
      BY <2>2, <2>3, <2>4, <3>1, <3>2, <3>3, TakingKeepsSession
  <2> QED
    BY <2>5, <2>6
<1> QED
  BY <1>1, <1>2

(* The chunk that was asked for continues the image. *)
LEMMA NextPieceLoads ==
  ASSUME NEW g \in Contents, NEW w \in Nat, w < g.count,
         NEW im, im = [i \in 1 .. w |-> [of |-> g, at |-> i - 1, enc |-> "inflated"]]
  PROVE  LET received == im \o Inflate(<<[of |-> g, at |-> w, enc |-> "deflated"]>>)
         IN /\ received = [i \in 1 .. w + 1 |-> [of |-> g, at |-> i - 1, enc |-> "inflated"]]
            /\ received = Append(im, [of |-> g, at |-> w, enc |-> "inflated"])
<1> DEFINE e == [of |-> g, at |-> w, enc |-> "inflated"]
           b == <<[of |-> g, at |-> w, enc |-> "deflated"]>>
<1>1. \A i \in 1 .. w : [of |-> g, at |-> i - 1, enc |-> "inflated"] \in Piece
  BY DEF Piece
<1>2. e \in Piece /\ b[1] \in Piece
  BY DEF Piece
<1>3. im \in Seq(Piece) /\ Len(im) = w
  BY <1>1
<1>4. Inflate(b) = <<e>>
  <2>1. DOMAIN b = {1} /\ [b[1] EXCEPT !.enc = "inflated"] = e
    OBVIOUS
  <2>2. Inflate(b) = [i \in {1} |-> e]
    BY <2>1 DEF Inflate
  <2> HIDE DEF e
  <2> QED
    BY <2>2
<1>5. im \o <<e>> = Append(im, e)
  BY <1>2, <1>3
<1>6. Append(im, e) = [i \in 1 .. w + 1 |-> [of |-> g, at |-> i - 1, enc |-> "inflated"]]
  <2>1. \A i \in 1 .. w : Append(im, e)[i] = [of |-> g, at |-> i - 1, enc |-> "inflated"]
    BY <1>2, <1>3
  <2>2. Append(im, e)[w + 1] = [of |-> g, at |-> (w + 1) - 1, enc |-> "inflated"]
    BY <1>2, <1>3
  <2>3. Append(im, e) \in Seq(Piece) /\ Len(Append(im, e)) = w + 1
    BY <1>2, <1>3
  <2>4. \A i \in 1 .. w + 1 : Append(im, e)[i] = [of |-> g, at |-> i - 1, enc |-> "inflated"]
    BY <2>1, <2>2
  <2> QED
    BY <2>3, <2>4
<1> QED
  BY <1>4, <1>5, <1>6

(* What recv_chunk makes of the chunk that was asked for. *)
LEMMA ChunkLoads ==
  ASSUME TypeOK, SessionInv, proto = "V2", state = "RequestChunk",
         NEW T, Received(T), h2d[1].msg.type = "Chunk", h2d[1].msg.which = which
  PROVE  LET received == image \o Inflate(h2d[1].msg.bytes)
         IN /\ md \in Images /\ md.count \in Nat /\ which \in Nat /\ which + 1 <= md.count
            /\ received = [i \in 1 .. which + 1 |-> [of |-> md, at |-> i - 1, enc |-> "inflated"]]
            /\ received = Append(image, [of |-> md, at |-> which, enc |-> "inflated"])
            /\ Len(image) = which
<1>1. Loading /\ 1 \in DOMAIN h2d /\ Fast(h2d[1])
  BY ReceivedFacts DEF Loading, SessionInv, Rates, Fast
<1>2. OwnMessage(md, h2d[1].msg) /\ md \in Images
  BY <1>1 DEF SessionInv, OneOwner, Owner
<1>3. /\ which < md.count
      /\ h2d[1].msg.bytes = <<[of |-> md, at |-> which, enc |-> "deflated"]>>
  BY <1>2 DEF OwnMessage
<1>4. which \in Nat /\ md.count \in Nat /\ md \in Contents
  BY <1>2, ImagesAssumption DEF TypeOK, DeviceTypeOK, ImageRecord
<1>5. image = [i \in 1 .. which |-> [of |-> md, at |-> i - 1, enc |-> "inflated"]]
  BY DEF SessionInv, LoadedInOrder
<1>6. Len(image) = which
  <2>1. image \in Seq(Piece) /\ DOMAIN image = 1 .. which
    BY <1>5 DEF TypeOK, DeviceTypeOK
  <2> QED
    BY <1>4, <2>1
<1>7. which + 1 <= md.count
  BY <1>3, <1>4
<1> DEFINE b == <<[of |-> md, at |-> which, enc |-> "deflated"]>>
<1>8. /\ image \o Inflate(b)
           = [i \in 1 .. which + 1 |-> [of |-> md, at |-> i - 1, enc |-> "inflated"]]
      /\ image \o Inflate(b) = Append(image, [of |-> md, at |-> which, enc |-> "inflated"])
  BY <1>3, <1>4, <1>5, NextPieceLoads, Zenon
<1>9. h2d[1].msg.bytes = b
  BY <1>3
<1> HIDE DEF b
<1> QED
  BY <1>2, <1>4, <1>6, <1>7, <1>8, <1>9

(* recv_chunk *)
LEMMA ChunkSession ==
  ASSUME TypeOK, TypeOK', SessionInv, UNCHANGED hostVars, V2Chunk
  PROVE  SessionInv'
<1>0. h2d # << >> /\ proto = "V2" /\ Received({"Chunk"})
  BY DEF V2Chunk, Received
<1>a. /\ 1 \in DOMAIN h2d /\ h2d[1].msg.type = "Chunk" /\ Payload = {h2d[1].msg}
      /\ ParseError # h2d[1].msg
  BY <1>0, ReceivedFacts
<1> DEFINE p == h2d[1].msg
<1>1. \/ Ignore \/ Abend
      \/ state = "RequestChunk" /\ p.which = which /\ AcceptChunk(p.bytes)
      \/ Continue /\ UNCHANGED <<uart_baud, d2h, proto, state, md, which, image>>
  BY <1>a DEF V2Chunk
<1>2. CASE Ignore \/ Abend
  BY <1>0, <1>2, StatusSession
<1>3. CASE Continue /\ UNCHANGED <<uart_baud, d2h, proto, state, md, which, image>>
  <2>1. h2d' = Tail(h2d) /\ ~rx_stale'
    BY <1>3, Zenon DEF Continue, Finished
  <2> QED
    BY <1>0, <1>3, <2>1, FinishedShrinks, ConsumeSession
<1>4. CASE state = "RequestChunk" /\ p.which = which /\ AcceptChunk(p.bytes) /\ ~Abend
  <2> DEFINE received == image \o Inflate(p.bytes)
  <2>1. /\ Continue /\ image' = received /\ which' = which + 1
        /\ UNCHANGED <<uart_baud, d2h, proto, md>>
        /\ \/ which + 1 # md.count /\ state' = state
           \/ which + 1 = md.count /\ state' = "Boot"
    BY <1>4 DEF AcceptChunk
  <2>2. /\ md.count \in Nat /\ which \in Nat /\ which + 1 <= md.count
        /\ received = [i \in 1 .. which + 1 |-> [of |-> md, at |-> i - 1, enc |-> "inflated"]]
    BY <1>0, <1>a, <1>4, ChunkLoads
  <2> HIDE DEF received
  <2>3. LoadedInOrder'
    BY <1>0, <1>4, <2>1, <2>2 DEF LoadedInOrder
  <2>4. h2d' = Tail(h2d) /\ ~rx_stale'
    BY <2>1, Zenon DEF Continue, Finished
  <2>5. Shrinks(h2d', h2d) /\ Shrinks(d2h', d2h)
    BY <1>0, <2>1, <2>4, FinishedShrinks
  <2>6. Loading /\ md' = md /\ uart_baud' = V2_BAUD_RATE /\ ~(Uploading /\ chunk_size # 1)
    BY <1>0, <1>4, <2>1 DEF Loading, SessionInv, Rates, SizeKnown
  <2> QED
    BY <2>3, <2>4, <2>5, <2>6, TakingKeepsSession
<1> QED
  BY <1>1, <1>2, <1>3, <1>4

(* The other packets, and bytes that are no packet. *)
LEMMA OtherSession ==
  ASSUME TypeOK, TypeOK', SessionInv, UNCHANGED hostVars,
         V2BootingAck \/ V2Other \/ ReceiveLegacy \/ DecodeError \/ DropInError
  PROVE  SessionInv'
<1>0. h2d # << >> /\ h2d \in Seq(HostFrame)
  BY DEF V2BootingAck, V2Other, ReceiveLegacy, DecodeError, DropInError, Received, TypeOK, LinkTypeOK
<1>1. CASE V2Other \/ (V2BootingAck /\ Ignore)
  BY <1>0, <1>1, StatusSession DEF V2Other
<1>2. CASE V2BootingAck /\ ~Ignore
  <2>1. /\ proto = "V2" /\ state = "Boot" /\ Continue
        /\ proto' = "Running" /\ UNCHANGED <<uart_baud, d2h, state, md, which, image>>
    BY <1>2 DEF V2BootingAck
  <2>2. h2d' = Tail(h2d) /\ ~rx_stale'
    BY <2>1, Zenon DEF Continue, Finished
  <2>3. LoadedInOrder'
    BY <2>1 DEF LoadedInOrder
  <2>4. ~Loading'
    BY <2>1 DEF Loading
  <2>5. Shrinks(h2d', h2d) /\ Shrinks(d2h', d2h)
    BY <1>0, <2>1, <2>2, FinishedShrinks
  <2> QED
    BY <2>1, <2>2, <2>3, <2>4, <2>5, TakingKeepsSession
<1>3. CASE ReceiveLegacy
  <2>1. /\ EndSession /\ proto' = "Legacy" /\ d2h' = d2h /\ UNCHANGED uart_baud
        /\ h2d' = Tail(h2d) /\ ~rx_stale'
    BY <1>3, Zenon DEF ReceiveLegacy, Continue, Finished
  <2> QED
    BY <1>0, <2>1, FinishedShrinks, ConsumeSession
<1>4. CASE DecodeError
  <2>1. /\ h2d' = Tail(h2d) /\ d2h' = d2h /\ UNCHANGED <<uart_baud, proto, state, md, which, image>>
        /\ rx_stale' \in {rx_stale, rx_stale \/ h2d[1].rate = uart_baud}
        /\ ~Readable(h2d[1], uart_baud)
    BY <1>4, Zenon DEF DecodeError, sessionVars
  <2>2. h2d[1].intact
    BY <1>0 DEF SessionInv, LineIntact
  <2>3. ~rx_stale'
    BY <2>1, <2>2 DEF Readable, SessionInv, LineIntact
  <2> QED
    BY <1>0, <2>1, <2>3, FinishedShrinks, ConsumeSession
<1>5. CASE DropInError
  <2>1. /\ h2d' = Tail(h2d) /\ d2h' = d2h
        /\ UNCHANGED <<rx_stale, uart_baud, proto, state, md, which, image>>
    BY <1>5, Zenon DEF DropInError, deviceVars, sessionVars
  <2> QED
    BY <1>0, <2>1, FinishedShrinks, ConsumeSession
<1> QED
  BY <1>1, <1>2, <1>3, <1>4, <1>5

(* The timers and a reset. *)
LEMMA TimerSession ==
  ASSUME TypeOK, TypeOK', SessionInv, UNCHANGED hostVars,
         \/ Heartbeat \/ SendGetProgInfo \/ ErrorRecovered \/ SessionExpire
         \/ PowerCycle /\ (mode = "Idle" => d2h' = << >>)
  PROVE  SessionInv'
<1>0. /\ h2d \in Seq(HostFrame) /\ d2h \in Seq(DeviceFrame)
      /\ Shrinks(h2d, h2d) /\ Shrinks(d2h, d2h) /\ Shrinks(<< >>, h2d)
      /\ \A n \in 0 .. Len(d2h) : Shrinks(SubSeq(d2h, 1, n), d2h)
  BY ShrinkFacts DEF TypeOK, LinkTypeOK
<1>1. CASE Heartbeat
  <2>1. /\ UNCHANGED <<h2d, uart_baud, rx_stale, proto, state, md, which, image>>
        /\ proto = "V2"
        /\ UNCHANGED d2h \/ d2h' = Append(d2h, Frame(RequestOf(state), uart_baud))
    BY <1>1, Zenon DEF Heartbeat
  <2>2. CASE UNCHANGED d2h
    BY <1>0, <2>1, <2>2, ConsumeSession
  <2>3. CASE d2h' = Append(d2h, Frame(RequestOf(state), uart_baud))
    <3> DEFINE m == RequestOf(state)
    <3>1. /\ m.type # "AllowedVersions"
          /\ m.type = "ChunkReq" => state = "RequestChunk" /\ m.which = which
      <4>1. state \in V2State
        BY DEF TypeOK, DeviceTypeOK
      <4> QED
        BY <4>1 DEF RequestOf, V2State, MetadataReq, MetadataAck, ChunkReq, Booting
    <3> HIDE DEF m
    <3>2. d2h' = Append(d2h, Frame(m, uart_baud))
      BY <2>3 DEF m
    <3> QED
      BY <1>0, <2>1, <3>1, <3>2, SendingKeepsSession
  <2> QED
    BY <2>1, <2>2, <2>3
<1>2. CASE SendGetProgInfo
  <2>1. /\ UNCHANGED <<h2d, uart_baud, rx_stale, proto, state, md, which, image>>
        /\ d2h = << >> /\ d2h' = <<Frame(GetProgInfo, uart_baud)>>
    BY <1>2, Zenon DEF SendGetProgInfo, deviceVars, sessionVars
  <2>2. d2h' = Append(d2h, Frame(GetProgInfo, uart_baud))
    BY <2>1
  <2>3. GetProgInfo.type = "GetProgInfo"
    BY DEF GetProgInfo
  <2> QED
    BY <1>0, <2>1, <2>2, <2>3, SendingKeepsSession
<1>3. CASE ErrorRecovered
  <2>1. UNCHANGED <<h2d, d2h, uart_baud, rx_stale, proto, state, md, which, image>>
    BY <1>3, Zenon DEF ErrorRecovered, linkVars, sessionVars
  <2> QED
    BY <1>0, <2>1, ConsumeSession
<1>4. CASE SessionExpire
  <2>1. EndSession /\ proto' = "Handshake" /\ UNCHANGED <<h2d, d2h, uart_baud, rx_stale>>
    BY <1>4, Zenon DEF SessionExpire, StartHandshake, linkVars
  <2> QED
    BY <1>0, <2>1, ConsumeSession
<1>5. CASE PowerCycle /\ (mode = "Idle" => d2h' = << >>)
  <2>1. /\ EndSession /\ proto' = "Handshake" /\ ~rx_stale' /\ h2d' = << >>
        /\ \E n \in 0 .. Len(d2h) : d2h' = SubSeq(d2h, 1, n)
    BY <1>5, Zenon DEF PowerCycle, StartHandshake
  <2>2. Shrinks(h2d', h2d) /\ Shrinks(d2h', d2h)
    BY <1>0, <2>1
  <2> QED
    BY <1>5, <2>1, <2>2, ConsumeSession
<1> QED
  BY <1>1, <1>2, <1>3, <1>4, <1>5

-----------------------------------------------------------------------------
(* The host's steps *)

(* What a step of the host leaves alone. *)
LEMMA DeviceUntouched ==
  ASSUME UNCHANGED deviceVars
  PROVE  /\ UNCHANGED <<uart_baud, rx_stale, proto, state, md, which, image>>
         /\ Loading' = Loading
         /\ SessionInv => LoadedInOrder'
  BY DEF deviceVars, sessionVars, Loading, SessionInv, LoadedInOrder

(* What is appended to a queue is its last element. *)
LEMMA AppendFacts ==
  ASSUME NEW S, NEW s \in Seq(S), NEW e
  PROVE  \A i \in DOMAIN Append(s, e) : \/ i \in DOMAIN s /\ Append(s, e)[i] = s[i]
                                        \/ i = Len(s) + 1 /\ Append(s, e)[i] = e
  OBVIOUS

(* dispatch: upload_inner takes a request and queues its answer. *)
LEMMA AnswerKeepsSession ==
  ASSUME TypeOK, TypeOK', SessionInv, UNCHANGED deviceVars, UNCHANGED <<h2d, file, tty_baud>>,
         mode = "Upload", mode' \in {"Upload", "Closing"},
         d2h # << >>, Fast(d2h[1]), d2h' = Tail(d2h),
         NEW m, out' = Append(out, m), OwnMessage(file, m),
         chunk_size' = chunk_size \/ chunk_size' = 1, IsYes(m) => chunk_size' = 1
  PROVE  SessionInv'
<1>a. /\ d2h \in Seq(DeviceFrame) /\ out \in Seq(HostMessage) /\ 1 \in DOMAIN d2h
      /\ \A i \in DOMAIN d2h' : i + 1 \in DOMAIN d2h /\ d2h'[i] = d2h[i + 1]
  BY DEF TypeOK, LinkTypeOK, HostTypeOK
<1>b. Uploading /\ Uploading'
  BY DEF Uploading
<1>c. /\ UNCHANGED <<uart_baud, rx_stale, proto, state, md, which, image>>
      /\ Loading' = Loading /\ LoadedInOrder'
  BY DeviceUntouched
<1>d. \A i \in DOMAIN out' : (i \in DOMAIN out /\ out'[i] = out[i]) \/ out'[i] = m
  BY <1>a, AppendFacts
<1>1. LineIntact'
  BY <1>a, <1>c DEF SessionInv, LineIntact
<1>2. Rates'
  BY <1>b, <1>c DEF SessionInv, Rates, Fast
<1>3. OneOwner'
  <2>1. PICK g \in Contents : Owner(g)
    BY DEF SessionInv, OneOwner
  <2>2. Owner(g)'
    BY <1>b, <1>c, <1>d, <2>1 DEF Owner, Fast
  <2> QED
    BY <1>c, <2>2 DEF SessionInv, OneOwner
<1>4. SizeKnown'
  BY <1>b, <1>c, <1>d DEF SessionInv, SizeKnown, Fast
<1>5. OfferWaits'
  BY DEF OfferWaits
<1>6. ChunksExist'
  BY <1>a, <1>b DEF SessionInv, ChunksExist
<1>7. ProbesLast'
  <2>1. uart_baud = INITIAL_BAUD_RATE => \A j \in DOMAIN h2d : h2d[j].msg.type # "Probe"
    BY <1>a DEF SessionInv, ProbesLast
  <2> QED
    BY <1>c, <2>1 DEF ProbesLast
<1> QED
  BY <1>c, <1>1, <1>2, <1>3, <1>4, <1>5, <1>6, <1>7 DEF SessionInv

(* drive: an answer is written at the fast rate. *)
LEMMA DriveWriteKeepsSession ==
  ASSUME TypeOK, TypeOK', SessionInv, UNCHANGED deviceVars, DriveWrite
  PROVE  SessionInv'
<1> DEFINE f == Frame(out[1], tty_baud)
<1>0. /\ UNCHANGED <<d2h, mode, file, tty_baud, chunk_size>>
      /\ mode \in {"Upload", "Closing"} /\ out # << >>
      /\ h2d' = Append(h2d, f) /\ out' = Tail(out)
  BY DEF DriveWrite, Write
<1>a. /\ h2d \in Seq(HostFrame) /\ out \in Seq(HostMessage) /\ 1 \in DOMAIN out
      /\ \A i \in DOMAIN out' : i + 1 \in DOMAIN out /\ out'[i] = out[i + 1]
  BY <1>0 DEF TypeOK, LinkTypeOK, HostTypeOK
<1>b. Uploading /\ Uploading' /\ f.msg = out[1] /\ f.rate = tty_baud /\ f.intact
  BY <1>0 DEF Uploading, Frame
<1>c. /\ UNCHANGED <<uart_baud, rx_stale, proto, state, md, which, image>>
      /\ Loading' = Loading /\ LoadedInOrder'
  BY DeviceUntouched
<1> HIDE DEF f
<1>d. \A i \in DOMAIN h2d' : \/ i \in DOMAIN h2d /\ h2d'[i] = h2d[i]
                             \/ i = Len(h2d) + 1 /\ h2d'[i] = f
  BY <1>0, <1>a, AppendFacts
<1>1. LineIntact'
  BY <1>0, <1>b, <1>c, <1>d DEF SessionInv, LineIntact
<1>e. out[1].type # "Probe"
  BY <1>a DEF SessionInv, OneOwner, Owner, OwnMessage
<1>2. Rates'
  BY <1>0, <1>b, <1>c, <1>d, <1>e DEF SessionInv, Rates, Fast
<1>3. OneOwner'
  <2>1. PICK g \in Contents : Owner(g)
    BY DEF SessionInv, OneOwner
  <2>2. Owner(g)'
    BY <1>0, <1>a, <1>b, <1>c, <1>d, <2>1 DEF Owner, Fast
  <2> QED
    BY <1>c, <2>2 DEF SessionInv, OneOwner
<1>4. SizeKnown'
  BY <1>0, <1>a, <1>b, <1>c, <1>d DEF SessionInv, SizeKnown, Fast
<1>5. OfferWaits'
  BY <1>0 DEF OfferWaits
<1>6. ChunksExist'
  BY <1>0, <1>b DEF SessionInv, ChunksExist
<1>7. ProbesLast'
  <2> SUFFICES ASSUME uart_baud = INITIAL_BAUD_RATE PROVE ProbesLast'
    BY <1>c DEF ProbesLast
  <2>1. \A j \in DOMAIN h2d : h2d[j].msg.type # "Probe"
    BY <1>0 DEF SessionInv, ProbesLast
  <2>2. \A j \in DOMAIN h2d' : h2d'[j].msg.type # "Probe"
    BY <1>b, <1>d, <1>e, <2>1
  <2> QED
    BY <1>0, <2>2 DEF ProbesLast
<1> QED
  BY <1>c, <1>1, <1>2, <1>3, <1>4, <1>5, <1>6, <1>7 DEF SessionInv

(* The offer is taken: the line and the device are free of older sessions. *)
LEMMA PromoteKeepsSession ==
  ASSUME TypeOK, TypeOK', SessionInv, UNCHANGED deviceVars, HostPromote
  PROVE  SessionInv'
<1> DEFINE f == Frame(UseVersion(SUPPORTED_VERSION), tty_baud)
<1>0. /\ mode = "Probing" /\ mode' = "Upload" /\ tty_baud' = V2_BAUD_RATE
      /\ d2h # << >> /\ d2h[1].msg.type = "AllowedVersions" /\ d2h' = Tail(d2h)
      /\ h2d' = Append(h2d, f)
      /\ UNCHANGED <<file, chunk_size, out>>
  BY DEF HostPromote, Incoming, TakeD2H, Write
<1>a. /\ d2h \in Seq(DeviceFrame) /\ h2d \in Seq(HostFrame) /\ 1 \in DOMAIN d2h
      /\ \A i \in DOMAIN d2h' : i + 1 \in DOMAIN d2h /\ 1 < i + 1 /\ d2h'[i] = d2h[i + 1]
  BY <1>0 DEF TypeOK, LinkTypeOK
<1>b. ~Uploading /\ Uploading' /\ out = << >> /\ file \in Images
  BY <1>0 DEF Uploading, SessionInv, Rates
<1>c. /\ UNCHANGED <<uart_baud, rx_stale, proto, state, md, which, image>>
      /\ Loading' = Loading /\ LoadedInOrder'
  BY DeviceUntouched
<1>d. f.intact /\ f.msg.type = "UseVersion" /\ ~Fast(f)
  BY <1>b DEF Frame, UseVersion, Fast, SessionInv, Rates, INITIAL_BAUD_RATE, V2_BAUD_RATE
<1> HIDE DEF f
<1>e. \A i \in DOMAIN h2d' : (i \in DOMAIN h2d /\ h2d'[i] = h2d[i]) \/ h2d'[i] = f
  BY <1>0, <1>a, AppendFacts
<1>f. /\ \A i \in DOMAIN h2d : ~Fast(h2d[i])
      /\ ~Loading
      /\ \A i \in DOMAIN d2h : 1 < i => d2h[i].msg.type # "ChunkReq"
  BY <1>0, <1>a DEF SessionInv, OfferWaits
<1>g. \A i \in DOMAIN h2d' : ~Fast(h2d'[i])
  BY <1>d, <1>e, <1>f
<1>1. LineIntact'
  BY <1>a, <1>c, <1>d, <1>e DEF SessionInv, LineIntact
<1>2. Rates'
  BY <1>0, <1>b, <1>c DEF SessionInv, Rates
<1>3. OneOwner'
  <2>1. file \in Contents
    BY <1>b DEF Contents
  <2>2. DOMAIN out' = {}
    BY <1>0, <1>b
  <2>3. Owner(file)'
    BY <1>0, <1>b, <1>c, <1>f, <1>g, <2>2 DEF Owner, Fast
  <2>4. PICK g \in Contents : g = file /\ Owner(g)'
    BY <1>0, <2>1, <2>3 DEF Owner
  <2> QED
    BY <1>c, <1>f, <2>4 DEF OneOwner
<1>4. SizeKnown'
  <2>1. DOMAIN out' = {}
    BY <1>0, <1>b
  <2> QED
    BY <1>c, <1>f, <1>g, <2>1 DEF SizeKnown, Loading
<1>5. OfferWaits'
  BY <1>0 DEF OfferWaits
<1>6. ChunksExist'
  BY <1>a, <1>f DEF ChunksExist
<1>7. ProbesLast'
  <2>1. \A j \in DOMAIN h2d' : h2d'[j].msg.type = "Probe" => j \in DOMAIN h2d /\ h2d'[j] = h2d[j]
    BY <1>d, <1>e
  <2> QED
    BY <1>0, <1>a, <1>b, <1>c, <1>g, <2>1 DEF SessionInv, ProbesLast, Fast
<1> QED
  BY <1>c, <1>1, <1>2, <1>3, <1>4, <1>5, <1>6, <1>7 DEF SessionInv

(* A frame of the initial rate from a host that does not upload. *)
LEMMA SlowWriteKeepsSession ==
  ASSUME TypeOK, TypeOK', SessionInv, UNCHANGED deviceVars,
         NEW f, h2d' = Append(h2d, f), f.intact, ~Fast(f),
         \/ UNCHANGED d2h /\ mode = "Idle" /\ mode' = "Probing"
         \/ d2h' = << >> /\ mode' = "Legacy" /\ f.msg.type # "Probe",
         out' = << >>, tty_baud' = INITIAL_BAUD_RATE, file' \in Images
  PROVE  SessionInv'
<1>a. h2d \in Seq(HostFrame) /\ d2h \in Seq(DeviceFrame)
  BY DEF TypeOK, LinkTypeOK
<1>b. ~Uploading'
  BY DEF Uploading
<1>c. /\ UNCHANGED <<uart_baud, rx_stale, proto, state, md, which, image>>
      /\ Loading' = Loading /\ LoadedInOrder'
  BY DeviceUntouched
<1>e. \A i \in DOMAIN h2d' : \/ i \in DOMAIN h2d /\ h2d'[i] = h2d[i]
                             \/ i = Len(h2d) + 1 /\ h2d'[i] = f
  BY <1>a, AppendFacts
<1>f. DOMAIN out' = {}
  OBVIOUS
<1>1. LineIntact'
  BY <1>c, <1>e DEF SessionInv, LineIntact
<1>2. Rates'
  BY <1>b, <1>c DEF SessionInv, Rates
<1>3. OneOwner'
  <2>1. PICK g \in Contents : Owner(g)
    BY DEF SessionInv, OneOwner
  <2>2. Owner(g)'
    BY <1>b, <1>c, <1>e, <1>f, <2>1 DEF Owner, Fast
  <2> QED
    BY <1>c, <2>2 DEF SessionInv, OneOwner
<1>4. SizeKnown'
  BY <1>b DEF SizeKnown
<1>5. OfferWaits'
  BY <1>c, <1>e DEF SessionInv, OfferWaits, Fast
<1>6. ChunksExist'
  BY <1>b DEF ChunksExist
<1>7. ProbesLast'
  <2> SUFFICES ASSUME uart_baud = INITIAL_BAUD_RATE PROVE ProbesLast'
    BY <1>c DEF ProbesLast
  <2>1. ASSUME NEW i \in DOMAIN h2d', NEW j \in DOMAIN h2d', j < i, h2d'[j].msg.type = "Probe",
               Fast(h2d'[i])
        PROVE  FALSE
    <3>1. i \in DOMAIN h2d /\ h2d'[i] = h2d[i]
      BY <1>e, <2>1
    <3>2. j \in DOMAIN h2d /\ h2d'[j] = h2d[j]
      BY <1>a, <1>e, <2>1, <3>1
    <3> QED
      BY <2>1, <3>1, <3>2 DEF SessionInv, ProbesLast
  <2>2. \A i \in DOMAIN d2h' : ~Fast(d2h'[i])
    BY DEF SessionInv, ProbesLast
  <2> QED
    BY <2>1, <2>2 DEF ProbesLast, Fast
<1> QED
  BY <1>c, <1>1, <1>2, <1>3, <1>4, <1>5, <1>6, <1>7 DEF SessionInv

(* A host that ends, or that is done uploading. *)
LEMMA LeavingKeepsSession ==
  ASSUME TypeOK, TypeOK', SessionInv, UNCHANGED deviceVars, UNCHANGED h2d,
         \/ mode' = "Idle" /\ d2h' = << >>
         \/ mode' = "Echo" /\ UNCHANGED d2h /\ file' \in Images,
         out' = << >>, tty_baud' = INITIAL_BAUD_RATE
  PROVE  SessionInv'
<1>b. ~Uploading' /\ DOMAIN out' = {}
  BY DEF Uploading
<1>c. /\ UNCHANGED <<uart_baud, rx_stale, proto, state, md, which, image>>
      /\ Loading' = Loading /\ LoadedInOrder'
  BY DeviceUntouched
<1>1. LineIntact' /\ Rates'
  BY <1>b, <1>c DEF SessionInv, LineIntact, Rates
<1>3. OneOwner'
  <2>1. PICK g \in Contents : Owner(g)
    BY DEF SessionInv, OneOwner
  <2>2. Owner(g)'
    BY <1>b, <1>c, <2>1 DEF Owner, Fast
  <2> QED
    BY <1>c, <2>2 DEF SessionInv, OneOwner
<1>4. SizeKnown' /\ ChunksExist'
  BY <1>b DEF SizeKnown, ChunksExist
<1>5. OfferWaits'
  BY DEF OfferWaits
<1>7. ProbesLast'
  BY <1>c DEF SessionInv, ProbesLast, Fast
<1> QED
  BY <1>c, <1>1, <1>3, <1>4, <1>5, <1>7 DEF SessionInv

(* upload_inner: what it answers, and that a ChunkReq is for a chunk it has. *)
LEMMA DispatchSession ==
  ASSUME TypeOK, TypeOK', SessionInv, UNCHANGED deviceVars,
         \/ DispatchMetadataReq \/ DispatchMetadataAck \/ DispatchChunkReq \/ DispatchBooting
  PROVE  SessionInv' /\ mode' # "Panicked"
<1>0. /\ mode = "Upload" /\ UNCHANGED <<h2d, file, tty_baud>> /\ d2h' = Tail(d2h)
      /\ d2h # << >> /\ d2h[1].rate = tty_baud
  BY DEF DispatchMetadataReq, DispatchMetadataAck, DispatchChunkReq, DispatchBooting, Incoming,
         TakeD2H, Readable
<1>1. /\ Fast(d2h[1]) /\ file \in Images /\ file \in Contents
      /\ 1 \in DOMAIN d2h /\ d2h[1].msg \in DeviceMessage
  <2>1. Fast(d2h[1]) /\ file \in Images
    BY <1>0 DEF SessionInv, Rates, Uploading, Fast
  <2>2. d2h \in Seq(DeviceFrame)
    BY DEF TypeOK, LinkTypeOK
  <2>3. 1 \in DOMAIN d2h /\ d2h[1] \in DeviceFrame
    BY <1>0, <2>2
  <2> QED
    BY <2>1, <2>3 DEF Contents, DeviceFrame
<1>2. CASE DispatchMetadataReq
  <2>1. out' = Append(out, Metadata(file)) /\ UNCHANGED <<mode, chunk_size>>
    BY <1>2 DEF DispatchMetadataReq, Send
  <2>2. OwnMessage(file, Metadata(file)) /\ ~IsYes(Metadata(file))
    BY <1>1 DEF OwnMessage, Metadata, IsYes
  <2> QED
    BY <1>0, <1>1, <2>1, <2>2, AnswerKeepsSession
<1>3. CASE DispatchMetadataAck
  <2> DEFINE ok == d2h[1].msg.metadata = file
             m == MetadataAckAck(ok)
  <2>1. out' = Append(out, m) /\ UNCHANGED mode /\ chunk_size' = IF ok THEN 1 ELSE chunk_size
    BY <1>3 DEF DispatchMetadataAck, Send
  <2>2. OwnMessage(file, m) /\ (IsYes(m) => ok)
    BY DEF OwnMessage, MetadataAckAck, IsYes
  <2> HIDE DEF m, ok
  <2> QED
    BY <1>0, <1>1, <2>1, <2>2, AnswerKeepsSession
<1>4. CASE DispatchChunkReq
  <2> DEFINE w == d2h[1].msg.which
             m == Chunk(w, ChunkBytes(w))
  <2>0. d2h[1].msg.type = "ChunkReq" /\ w \in Nat
    BY <1>1, <1>4, DevicePayload DEF DispatchChunkReq, Incoming
  <2>1. chunk_size = 1 /\ w < file.count
    BY <1>0, <1>1, <2>0 DEF SessionInv, ChunksExist, Uploading
  <2>2. out' = Append(out, m) /\ UNCHANGED <<mode, chunk_size>>
    BY <1>4, <2>1 DEF DispatchChunkReq, Send
  <2>3. OwnMessage(file, m) /\ ~IsYes(m)
    <3>1. m.type = "Chunk" /\ m.which = w /\ m.bytes = ChunkBytes(w)
      BY DEF Chunk
    <3>2. ChunkBytes(w) = <<Stream(file, "deflated")[w + 1]>>
      BY <2>1 DEF ChunkBytes
    <3>3. file.count \in Nat /\ w + 1 \in 1 .. file.count
      BY <1>1, <2>0, <2>1, ImagesAssumption DEF ImageRecord
    <3>4. Stream(file, "deflated")[w + 1] = [of |-> file, at |-> w, enc |-> "deflated"]
      <4>1. Stream(file, "deflated")[w + 1] = [of |-> file, at |-> (w + 1) - 1, enc |-> "deflated"]
        BY <1>1, <3>3, StreamType
      <4> QED
        BY <2>0, <4>1
    <3> HIDE DEF m, w
    <3> QED
      BY <2>1, <3>1, <3>2, <3>4 DEF OwnMessage, IsYes
  <2> HIDE DEF m, w
  <2> QED
    BY <1>0, <1>1, <2>2, <2>3, AnswerKeepsSession
<1>5. CASE DispatchBooting
  <2>1. out' = Append(out, BootingAck) /\ mode' = "Closing" /\ UNCHANGED chunk_size
    BY <1>5 DEF DispatchBooting, Send
  <2>2. OwnMessage(file, BootingAck) /\ ~IsYes(BootingAck)
    BY DEF OwnMessage, BootingAck, IsYes
  <2> QED
    BY <1>0, <1>1, <2>1, <2>2, AnswerKeepsSession
<1> QED
  BY <1>2, <1>3, <1>4, <1>5

(* The other steps of the host, and those of its operator. *)
LEMMA OtherHostSession ==
  ASSUME TypeOK, TypeOK', SessionInv, UNCHANGED deviceVars,
         \/ HostPromote \/ HostSkip \/ DispatchOther \/ DriveWrite \/ DriveExit \/ HostDiscard
         \/ HostFallBack \/ HostKill \/ \E g \in Images : HostStart(g)
  PROVE  SessionInv' /\ mode' \in {mode} \cup {"Idle", "Probing", "Upload", "Echo", "Legacy"}
<1>0. /\ h2d \in Seq(HostFrame) /\ d2h \in Seq(DeviceFrame)
      /\ Shrinks(h2d, h2d) /\ Shrinks(d2h, d2h)
      /\ d2h # << >> => Shrinks(Tail(d2h), d2h)
      /\ \A n \in 1 .. Len(d2h) : Shrinks(SubSeq(d2h, n + 1, Len(d2h)), d2h)
  BY ShrinkFacts DEF TypeOK, LinkTypeOK
<1>1. CASE HostPromote
  BY <1>1, PromoteKeepsSession DEF HostPromote
<1>2. CASE HostSkip \/ DispatchOther \/ HostDiscard
  <2>1. h2d' = h2d /\ UNCHANGED hostVars /\ UNCHANGED mode
    BY <1>2 DEF HostSkip, DispatchOther, HostDiscard, hostVars
  <2>2. d2h # << >> /\ (d2h' = Tail(d2h) \/ \E n \in 1 .. Len(d2h) : d2h' = SubSeq(d2h, n + 1, Len(d2h)))
    BY <1>2 DEF HostSkip, DispatchOther, HostDiscard, TakeD2H
  <2>3. Shrinks(h2d', h2d) /\ Shrinks(d2h', d2h)
    BY <1>0, <2>1, <2>2
  <2> QED
    BY <2>1, <2>3, DeviceUntouched, ConsumeSession
<1>3. CASE DriveWrite
  BY <1>3, DriveWriteKeepsSession DEF DriveWrite
<1>4. CASE DriveExit
  <2>1. /\ mode = "Closing" /\ mode' = "Echo" /\ UNCHANGED <<h2d, d2h, file>>
        /\ out' = << >> /\ tty_baud' = INITIAL_BAUD_RATE
    BY <1>4 DEF DriveExit, linkVars
  <2>2. file' \in Images
    BY <2>1 DEF SessionInv, Rates
  <2> QED
    BY <2>1, <2>2, LeavingKeepsSession
<1>5. CASE HostExit
  BY <1>5, LeavingKeepsSession DEF HostExit
<1>6. CASE HostFallBack /\ ~HostExit
  <2>1. /\ mode = "Probing" /\ mode' = "Legacy" /\ d2h' = << >>
        /\ h2d' = Append(h2d, Frame(PutProgInfo, tty_baud))
        /\ UNCHANGED <<file, tty_baud, out>>
    BY <1>6 DEF HostFallBack, Write
  <2>2. tty_baud = INITIAL_BAUD_RATE /\ file \in Images /\ out = << >>
    BY <2>1 DEF SessionInv, Rates, Uploading
  <2> DEFINE f == Frame(PutProgInfo, tty_baud)
  <2>3. f.intact /\ ~Fast(f) /\ f.msg.type # "Probe"
    BY <2>2 DEF Frame, PutProgInfo, Fast, INITIAL_BAUD_RATE, V2_BAUD_RATE
  <2> HIDE DEF f
  <2>4. h2d' = Append(h2d, f)
    BY <2>1 DEF f
  <2> QED
    BY <2>1, <2>2, <2>3, <2>4, SlowWriteKeepsSession
<1>7. ASSUME NEW g \in Images, HostStart(g)
      PROVE  SessionInv' /\ mode' = "Probing"
  <2> DEFINE f == Frame(Probe, INITIAL_BAUD_RATE)
  <2>1. /\ mode = "Idle" /\ mode' = "Probing" /\ UNCHANGED d2h /\ h2d' = Append(h2d, f)
        /\ out' = << >> /\ tty_baud' = INITIAL_BAUD_RATE /\ file' \in Images
    BY <1>7 DEF HostStart
  <2>2. f.intact /\ ~Fast(f)
    BY DEF Frame, Fast, INITIAL_BAUD_RATE, V2_BAUD_RATE
  <2> HIDE DEF f
  <2> QED
    BY <2>1, <2>2, SlowWriteKeepsSession
<1>8. HostExit => mode' = "Idle"
  BY DEF HostExit
<1> QED
  BY <1>1, <1>2, <1>3, <1>4, <1>5, <1>6, <1>7, <1>8 DEF HostKill

(* The invariant holds at first. *)
LEMMA SessionInit == Init => SessionInv
<1> SUFFICES ASSUME Init PROVE SessionInv
  OBVIOUS
<1>1. h2d = << >> /\ d2h = << >> /\ out = << >> /\ mode = "Idle" /\ proto = "Handshake"
      /\ image = << >> /\ ~rx_stale /\ tty_baud = INITIAL_BAUD_RATE
  BY DEF Init, LinkInit, DeviceInit, HostInit
<1>2. ~Uploading /\ ~Loading /\ DOMAIN h2d = {} /\ DOMAIN d2h = {} /\ DOMAIN out = {}
  BY <1>1 DEF Uploading, Loading
<1>3. LineIntact /\ Rates /\ SizeKnown /\ OfferWaits /\ ChunksExist /\ ProbesLast /\ LoadedInOrder
  BY <1>1, <1>2 DEF LineIntact, Rates, SizeKnown, OfferWaits, ChunksExist, ProbesLast, LoadedInOrder
<1>4. OneOwner
  <2>1. Noise \in Contents /\ Owner(Noise)
    BY NoiseType, <1>2 DEF Owner
  <2> QED
    BY <1>2, <2>1 DEF OneOwner
<1> QED
  BY <1>3, <1>4 DEF SessionInv

(* Every step keeps the invariant. *)
LEMMA SessionStep == TypeOK /\ TypeOK' /\ SessionInv /\ [Next]_vars => SessionInv'
<1> SUFFICES ASSUME TypeOK, TypeOK', SessionInv, [Next]_vars PROVE SessionInv'
  OBVIOUS
<1>1. CASE Device \/ Expire
  <2>1. UNCHANGED hostVars /\ (DeviceReceive \/ DeviceTimer \/ SessionExpire)
    BY <1>1, Zenon DEF Device, Expire, DeviceStep
  <2> QED
    BY <2>1, HandshakeSession, MetadataSession, AckAckSession, ChunkSession, OtherSession,
       TimerSession, Zenon
    DEF DeviceReceive, DeviceTimer
<1>2. CASE Host \/ FallBack \/ Operator
  <2>1. /\ UNCHANGED deviceVars
        /\ HostStep \/ HostFallBack \/ HostKill \/ \E g \in Images : HostStart(g)
    BY <1>2, Zenon DEF Host, FallBack, Operator
  <2> QED
    BY <2>1, OtherHostSession, DispatchSession, Zenon DEF HostStep
<1>3. CASE Loss
  <2>1. /\ UNCHANGED <<hostVars, rx_stale, uart_baud, proto, state, md, which, image>>
        /\ \/ h2d # << >> /\ h2d' = Tail(h2d) /\ d2h' = d2h
           \/ d2h # << >> /\ d2h' = Tail(d2h) /\ h2d' = h2d
    BY <1>3 DEF Loss, LoseH2D, LoseD2H, deviceVars, sessionVars
  <2>2. Shrinks(h2d', h2d) /\ Shrinks(d2h', d2h)
    BY <2>1, ShrinkFacts DEF TypeOK, LinkTypeOK
  <2> QED
    BY <2>1, <2>2, ConsumeSession
<1>4. CASE Reset
  BY <1>4, TimerSession DEF Reset
<1>5. CASE UNCHANGED vars
  <2>1. /\ UNCHANGED <<hostVars, rx_stale, uart_baud, proto, state, md, which, image>>
        /\ h2d' = h2d /\ d2h' = d2h
    BY <1>5 DEF vars, linkVars, deviceVars, sessionVars
  <2>2. Shrinks(h2d', h2d) /\ Shrinks(d2h', d2h)
    BY <2>1, ShrinkFacts DEF TypeOK, LinkTypeOK
  <2> QED
    BY <2>1, <2>2, ConsumeSession
<1> QED
  BY <1>1, <1>2, <1>3, <1>4, <1>5 DEF Next

(* The facts about every reachable state that the theorems below rest on. *)
LEMMA SessionCorrect == Spec => [](TypeOK /\ BootInv /\ SessionInv)
<1>1. Init => TypeOK /\ BootInv /\ SessionInv
  BY TypeInit, SessionInit DEF Init, DeviceInit, BootInv, ImageInflated, BootReady
<1>2. TypeOK /\ [Next]_vars => TypeOK'
  BY TypeStep
<1>3. TypeOK /\ BootInv /\ [Next]_vars => BootInv'
  BY BootStep
<1>4. TypeOK /\ TypeOK' /\ SessionInv /\ [Next]_vars => SessionInv'
  BY SessionStep
<1> QED
  BY <1>1, <1>2, <1>3, <1>4, PTL DEF Spec

(***************************************************************************)
(* A device that loads or is ready to boot and a host that uploads hold    *)
(* the same metadata, and the host knows the chunk size, whatever hosts    *)
(* were killed before, frames lost and boards reset (recv_metadata,        *)
(* recv_metadata_ack_ack, dispatch_metadata_ack).                          *)
(***************************************************************************)
THEOREM SessionsAgree == Spec => []SessionAgreement
<1>1. TypeOK /\ SessionInv => SessionAgreement
  <2> SUFFICES ASSUME TypeOK, SessionInv, proto = "V2", state \in {"RequestChunk", "Boot"},
                      mode \in {"Upload", "Closing"}
               PROVE  md = file /\ chunk_size = 1
    BY DEF SessionAgreement
  <2>1. Uploading /\ Loading
    BY DEF Uploading, Loading
  <2> QED
    BY <2>1 DEF SessionInv, OneOwner, Owner, SizeKnown
<1> QED
  BY <1>1, SessionCorrect, PTL

(***************************************************************************)
(* dispatch_chunk_req never slices past the end of the compressed file:    *)
(* no ChunkReq for a chunk beyond the host's own image ever reaches it.    *)
(***************************************************************************)
THEOREM ChunkRequestsAreInRange == Spec => []HostNeverPanics
<1>1. Init => HostNeverPanics
  BY DEF Init, HostInit, HostNeverPanics
<1>2. TypeOK /\ TypeOK' /\ SessionInv /\ HostNeverPanics /\ [Next]_vars => HostNeverPanics'
  <2> SUFFICES ASSUME TypeOK, TypeOK', SessionInv, mode # "Panicked", [Next]_vars
               PROVE  mode' # "Panicked"
    BY DEF HostNeverPanics
  <2>1. CASE Host \/ FallBack \/ Operator
    <3>1. /\ UNCHANGED deviceVars
          /\ HostStep \/ HostFallBack \/ HostKill \/ \E g \in Images : HostStart(g)
      BY <2>1, Zenon DEF Host, FallBack, Operator
    <3>2. \/ mode' # "Panicked"
          \/ mode' \in {mode} \cup {"Idle", "Probing", "Upload", "Echo", "Legacy"}
      BY <3>1, OtherHostSession, DispatchSession, Zenon DEF HostStep
    <3> QED
      BY <3>2
  <2>2. CASE Device \/ Expire \/ Loss \/ Reset \/ UNCHANGED vars
    BY <2>2, Zenon DEF Device, Expire, DeviceStep, Loss, Reset, vars, hostVars
  <2> QED
    BY <2>1, <2>2 DEF Next
<1> QED
  BY <1>1, <1>2, SessionCorrect, PTL DEF Spec

-----------------------------------------------------------------------------
(* The device implements ImageTransfer *)

(* The phases. *)
LEMMA PhaseFacts ==
  /\ proto = "Running" => phase = "running"
  /\ proto = "V2" /\ state = "Boot" => phase = "ready"
  /\ proto = "V2" /\ state = "RequestChunk" => phase = "loading"
  /\ ~(proto = "Running" \/ (proto = "V2" /\ state \in {"RequestChunk", "Boot"})) => phase = "none"
  BY DEF phase

(* PhaseFacts of the next state. *)
LEMMA PhaseFactsNext ==
  /\ proto' = "Running" => phase' = "running"
  /\ proto' = "V2" /\ state' = "Boot" => phase' = "ready"
  /\ proto' = "V2" /\ state' = "RequestChunk" => phase' = "loading"
  /\ ~(proto' = "Running" \/ (proto' = "V2" /\ state' \in {"RequestChunk", "Boot"})) => phase' = "none"
  BY DEF phase

(* Nothing is transferred any more, or still nothing. *)
LEMMA EndsTransfer ==
  ASSUME image' = << >>, phase' = "none"
  PROVE  Transfer!Next
  BY DEF Transfer!Next, Transfer!Abandon

(* A step that leaves the session alone is a stutter of the transfer. *)
LEMMA SameTransfer ==
  ASSUME UNCHANGED <<proto, state, md, image>>
  PROVE  UNCHANGED Transfer!vars
  BY DEF phase, Transfer!vars

(* Each packet is a step of the transfer. *)
LEMMA ReceiveTransfers ==
  ASSUME TypeOK, SessionInv, DeviceReceive
  PROVE  [Transfer!Next]_Transfer!vars
<1>0. image' = << >> /\ ~(proto' = "Running" \/ (proto' = "V2" /\ state' \in {"RequestChunk", "Boot"}))
        => Transfer!Next
  BY PhaseFactsNext, EndsTransfer
<1>1. CASE Abcon \/ Ignore
  BY <1>1, SameTransfer DEF Abcon, Ignore, sessionVars
<1>2. CASE Abend \/ ReceiveLegacy
  BY <1>0, <1>2 DEF Abend, ReceiveLegacy, StartHandshake, EndSession
<1>3. CASE HandshakeProbe /\ ~Abcon
  BY <1>3, SameTransfer DEF HandshakeProbe
<1>4. CASE HandshakeUseVersion /\ ~Abend
  BY <1>0, <1>4 DEF HandshakeUseVersion, StartV2
<1>5. CASE V2Metadata /\ ~Ignore
  <2>1. proto = "V2" /\ state = "RequestMetadata" /\ state' = "AckMetadata" /\ UNCHANGED <<proto, image>>
    BY <1>5 DEF V2Metadata
  <2>2. image = << >>
    BY <2>1 DEF SessionInv, LoadedInOrder
  <2> QED
    BY <1>0, <2>1, <2>2
<1>6. CASE V2MetadataAckAck /\ ~Ignore
  <2>1. /\ proto = "V2" /\ state = "AckMetadata" /\ proto' = "V2" /\ image' = << >>
        /\ \/ state' = "RequestChunk" /\ UNCHANGED md
           \/ state' = "RequestMetadata"
    BY <1>6 DEF V2MetadataAckAck
  <2>2. CASE state' = "RequestChunk" /\ UNCHANGED md
    <3>1. md \in Images
      BY <2>1 DEF SessionInv, OneOwner, Loading
    <3>2. phase = "none" /\ phase' = "loading"
      BY <2>1, <2>2, PhaseFacts, PhaseFactsNext
    <3>3. Transfer!Begin(md)
      BY <2>1, <2>2, <3>2 DEF Transfer!Begin
    <3> QED
      BY <3>1, <3>3 DEF Transfer!Next
  <2>3. CASE state' = "RequestMetadata"
    BY <1>0, <2>1, <2>3
  <2> QED
    BY <2>1, <2>2, <2>3
<1>7. CASE V2Chunk /\ ~Ignore /\ ~Abend
  <2> DEFINE p == h2d[1].msg
             received == image \o Inflate(p.bytes)
  <2>0. proto = "V2" /\ Received({"Chunk"}) /\ p.type = "Chunk" /\ Payload = {p} /\ ParseError # p
    BY <1>7, ReceivedFacts DEF V2Chunk
  <2>1. \/ state = "RequestChunk" /\ p.which = which /\ AcceptChunk(p.bytes)
        \/ UNCHANGED <<proto, state, md, image>>
    BY <1>7, <2>0 DEF V2Chunk
  <2>2. CASE state = "RequestChunk" /\ p.which = which /\ AcceptChunk(p.bytes)
    <3>1. /\ image' = received /\ UNCHANGED <<proto, md>>
          /\ \/ which + 1 # md.count /\ state' = state
             \/ which + 1 = md.count /\ state' = "Boot"
      BY <1>7, <2>2 DEF AcceptChunk
    <3>2. /\ md.count \in Nat /\ which \in Nat /\ which + 1 <= md.count
          /\ received = Append(image, [of |-> md, at |-> which, enc |-> "inflated"])
          /\ Len(image) = which
      BY <2>0, <2>2, ChunkLoads
    <3> HIDE DEF received, p
    <3>3. phase = "loading" /\ phase' = IF which + 1 = md.count THEN "ready" ELSE "loading"
      BY <2>0, <2>2, <3>1, PhaseFacts, PhaseFactsNext
    <3>4. Transfer!Deliver
      BY <3>1, <3>2, <3>3 DEF Transfer!Deliver, Transfer!NextPiece
    <3> QED
      BY <3>4 DEF Transfer!Next
  <2>3. CASE UNCHANGED <<proto, state, md, image>>
    BY <2>3, SameTransfer
  <2> QED
    BY <2>1, <2>2, <2>3
<1>8. CASE V2BootingAck /\ ~Ignore
  <2>1. proto = "V2" /\ state = "Boot" /\ proto' = "Running" /\ UNCHANGED <<md, image>>
    BY <1>8 DEF V2BootingAck
  <2>2. phase = "ready" /\ phase' = "running"
    BY <2>1, PhaseFacts, PhaseFactsNext
  <2> QED
    BY <2>1, <2>2 DEF Transfer!Next, Transfer!Run
<1>9. CASE DecodeError \/ DropInError
  BY <1>9, SameTransfer DEF DecodeError, DropInError, deviceVars, sessionVars
<1> QED
  BY <1>1, <1>2, <1>3, <1>4, <1>5, <1>6, <1>7, <1>8, <1>9
  DEF DeviceReceive, HandshakeOther, V2Other

(* Every step is a step of the transfer, or a stutter. *)
LEMMA StepTransfers ==
  ASSUME TypeOK, SessionInv, [Next]_vars
  PROVE  [Transfer!Next]_Transfer!vars
<1>1. CASE Device \/ Expire
  <2>1. DeviceReceive \/ DeviceTimer \/ SessionExpire
    BY <1>1, Zenon DEF Device, Expire, DeviceStep
  <2>2. CASE DeviceTimer
    <3>1. UNCHANGED <<proto, state, md, image>>
      BY <2>2, Zenon
      DEF DeviceTimer, Heartbeat, SendGetProgInfo, ErrorRecovered, deviceVars, sessionVars
    <3> QED
      BY <3>1, SameTransfer
  <2>3. CASE SessionExpire
    BY <2>3, PhaseFactsNext, EndsTransfer DEF SessionExpire, StartHandshake, EndSession
  <2> QED
    BY <2>1, <2>2, <2>3, ReceiveTransfers
<1>2. CASE Reset
  BY <1>2, PhaseFactsNext, EndsTransfer DEF Reset, PowerCycle, StartHandshake, EndSession
<1>3. CASE Host \/ FallBack \/ Operator \/ Loss \/ UNCHANGED vars
  <2>1. UNCHANGED <<proto, state, md, image>>
    BY <1>3, Zenon DEF Host, FallBack, Operator, Loss, vars, deviceVars, sessionVars
  <2> QED
    BY <2>1, SameTransfer
<1> QED
  BY <1>1, <1>2, <1>3 DEF Next

(***************************************************************************)
(* The upload protocol implements ImageTransfer: the device loads one      *)
(* image at a time, each piece once and in order, and runs it only when    *)
(* it is complete, however hosts come and go.                              *)
(***************************************************************************)
THEOREM UploadTransfersImages == Spec => ImplementsTransfer
<1>1. Init => Transfer!Init
  <2> SUFFICES ASSUME Init PROVE Transfer!Init
    OBVIOUS
  <2>1. proto = "Handshake" /\ image = << >>
    BY DEF Init, DeviceInit
  <2>2. phase = "none"
    BY <2>1, PhaseFacts
  <2> QED
    BY <2>1, <2>2 DEF Transfer!Init
<1>2. TypeOK /\ SessionInv /\ [Next]_vars => [Transfer!Next]_Transfer!vars
  BY StepTransfers
<1> QED
  BY <1>1, <1>2, SessionCorrect, PTL DEF Spec, ImplementsTransfer, Transfer!Spec
=============================================================================
