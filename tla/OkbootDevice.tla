---------------------------- MODULE OkbootDevice ----------------------------
(***************************************************************************)
(* The okboot bootloader: the receive loop of protocol.rs `run` with its   *)
(* two protocols, handshake.rs and v2.rs.                                  *)
(*                                                                         *)
(* One pass of the loop per byte is abstracted to one step per frame.      *)
(* Timers are nondeterministic: a resend or a session expiry may happen    *)
(* whenever the code could find its timer elapsed.  What the code fixes    *)
(* about their order is kept in `sends`: two resend periods make one       *)
(* session timeout, so a V2 session has sent its request twice since the   *)
(* last packet when it expires.                                            *)
(***************************************************************************)
EXTENDS UartLink

VARIABLES
  uart_baud,     \* rate programmed in the mini UART divider
  recv_state,    \* "Initial" = Waiting{initial: true}, "Waiting", "Error"
  rx_stale,      \* rx_buffer still holds payload bytes of an aborted frame
  proto,         \* ProtocolEnum, or where control went: "Legacy", "Running"
  expecting,     \* Handshake.expecting
  state,         \* V2.state
  md,            \* the Metadata kept in V2.state (Noise when there is none)
  which,         \* S::RequestChunk.which
  image,         \* bytes the loader has received
  once,          \* V2.once
  retry_buffer,  \* V2.retry_buffer
  sends          \* requests sent since last_packet_received, up to 2

sessionVars == <<proto, expecting, state, md, which, image, once, retry_buffer>>
deviceVars  == <<uart_baud, recv_state, rx_stale, sends, sessionVars>>

V2State == {"RequestMetadata", "AckMetadata", "RequestChunk", "Boot"}

FlagsTypeOK == rx_stale \in BOOLEAN /\ once \in BOOLEAN /\ retry_buffer \in BOOLEAN

DeviceTypeOK ==
  /\ FlagsTypeOK
  /\ uart_baud \in Rate
  /\ recv_state \in {"Initial", "Waiting", "Error"}
  /\ proto \in {"Handshake", "V2", "Legacy", "Running"}
  /\ expecting \in {"Probe", "Version"}
  /\ state \in V2State
  /\ md \in Contents
  /\ which \in Nat
  /\ image \in Seq(Piece)
  /\ sends \in 0 .. 2

DeviceInit ==
  /\ uart_baud = INITIAL_BAUD_RATE
  /\ recv_state = "Initial"
  /\ rx_stale = FALSE
  /\ proto = "Handshake"
  /\ sends = 0
  /\ expecting = "Probe"
  /\ state = "RequestMetadata"
  /\ md = Noise
  /\ which = 0
  /\ image = << >>
  /\ once = FALSE
  /\ retry_buffer = FALSE

-----------------------------------------------------------------------------
(* Receiving *)

(***************************************************************************)
(* What postcard makes of a payload.  After a decode error `run` resets    *)
(* the decoder but not rx_buffer, so the next frame's payload is preceded  *)
(* by the bytes of the aborted one and may parse as anything of the type   *)
(* its header names.                                                       *)
(***************************************************************************)
ParseError == [type |-> "ParseError"]

Garbled(m) ==
  CASE m.type = "UseVersion"     -> {m, UseVersion(0), ParseError}
    [] m.type = "Metadata"       -> {m, ParseError} \cup {Metadata(g) : g \in Misread}
    [] m.type = "MetadataAckAck" -> {m, MetadataAckAck(TRUE), MetadataAckAck(FALSE), ParseError}
    [] m.type = "Chunk"          -> {m, ParseError} \cup
         {Chunk(w, <<[of |-> Noise, at |-> 0, enc |-> "deflated"]>>) : w \in {which, which + 1}}
    [] OTHER                     -> {m}

Parsed(m) == IF rx_stale THEN Garbled(m) ELSE {m}

(* The heartbeat of the next pass consumes V2.once before another byte is read. *)
Listening == proto \in {"Handshake", "V2"} /\ ~once

(* FrameOutput::Finished for a frame of a type in T. *)
Received(T) ==
  /\ Listening
  /\ recv_state \in {"Initial", "Waiting"}
  /\ h2d # << >>
  /\ Readable(h2d[1], uart_baud)
  /\ h2d[1].msg.type \in T

(* The values its payload may parse as. *)
Payload == Parsed(h2d[1].msg)

(* The end of the Finished arm: rx_buffer.clear(), last_packet_received = now. *)
Finished(rs) ==
  /\ h2d' = Tail(h2d)
  /\ recv_state' = rs
  /\ rx_stale' = FALSE
  /\ sends' = 0

(* The protocol object is dropped, and with it everything a session keeps. *)
EndSession ==
  /\ expecting' = "Probe"
  /\ state' = "RequestMetadata"
  /\ md' = Noise
  /\ which' = 0
  /\ image' = << >>
  /\ once' = FALSE
  /\ retry_buffer' = FALSE

StartHandshake == proto' = "Handshake" /\ EndSession

(* ProtocolStatus *)
Continue == Finished("Waiting")
Abcon    == Finished("Error") /\ UNCHANGED <<uart_baud, d2h, sessionVars>>
Abend    == Finished("Error") /\ StartHandshake /\ UNCHANGED <<uart_baud, d2h>>
Ignore   == Continue /\ UNCHANGED <<uart_baud, d2h, sessionVars>>

TxRoom == Len(d2h) < TxCap

-----------------------------------------------------------------------------
(* Handshake::handle_packet *)

HandshakeProbe ==
  /\ proto = "Handshake"
  /\ Received({"Probe"})
  /\ \/ expecting = "Version" /\ Abcon
     \/ /\ expecting = "Probe"
        /\ expecting' = "Version"
        /\ IF TxRoom
             THEN Continue /\ d2h' = Append(d2h, Frame(AllowedVersions, uart_baud))
             ELSE Finished("Error") /\ UNCHANGED d2h
        /\ UNCHANGED <<uart_baud, proto, state, md, which, image, once, retry_buffer>>

(* V2::new *)
StartV2 ==
  /\ proto' = "V2"
  /\ expecting' = "Probe"
  /\ state' = "RequestMetadata"
  /\ md' = Noise
  /\ which' = 0
  /\ image' = << >>
  /\ once' = TRUE
  /\ retry_buffer' = FALSE

HandshakeUseVersion ==
  /\ proto = "Handshake"
  /\ Received({"UseVersion"})
  /\ \E p \in Payload :
       \/ /\ expecting = "Version"
          /\ p = UseVersion(SUPPORTED_VERSION)
          /\ Continue /\ StartV2
          /\ uart_baud' = V2_BAUD_RATE
          /\ UNCHANGED d2h
       \/ Abend  \* wrong phase, bad payload or version, or divider readback failed

HandshakeOther ==
  /\ proto = "Handshake"
  /\ Received({"Metadata", "MetadataAckAck", "Chunk", "BootingAck"})
  /\ Abend

-----------------------------------------------------------------------------
(* V2::handle_packet *)

(* recv_metadata: a Bin's load address is below 0x1000_0000 and 4-byte aligned. *)
AddressOk(g) == g.format = "Bin" => g.address < 268435456 /\ g.address % 4 = 0

V2Metadata ==
  /\ proto = "V2"
  /\ Received({"Metadata"})
  /\ \E p \in Payload :
       IF /\ p # ParseError
          /\ state = "RequestMetadata"
          /\ AddressOk(p.metadata)
          THEN /\ Continue
               /\ state' = "AckMetadata"
               /\ md' = p.metadata
               /\ once' = TRUE
               /\ UNCHANGED <<uart_baud, d2h, proto, expecting, which, image, retry_buffer>>
          ELSE Ignore

V2MetadataAckAck ==
  /\ proto = "V2"
  /\ Received({"MetadataAckAck"})
  /\ \E p \in Payload :
       CASE p = ParseError \/ state # "AckMetadata" -> Ignore
            [] OTHER ->
                 /\ Continue
                 /\ IF p.is_ok
                      THEN state' = "RequestChunk" /\ once' = TRUE /\ UNCHANGED md
                      ELSE state' = "RequestMetadata" /\ md' = Noise /\ UNCHANGED once
                 /\ which' = 0
                 /\ image' = << >>
                 /\ UNCHANGED <<uart_baud, d2h, proto, expecting, retry_buffer>>

(* inflate cannot fail on a prefix of what the host's deflate produced. *)
Inflatable(bytes) ==
  \E g \in Images : Len(bytes) <= g.count /\ bytes = SubSeq(Stream(g, "inflated"), 1, Len(bytes))

(* Mutant: the checksum is never compared. *)
FinalizeAnything(g, bytes) == g.loadable

(***************************************************************************)
(* Loader::finalize.  BinLoader compares the CRC of what it wrote with     *)
(* metadata.inflated_crc, ElfLoader compares the CRC of the same inflated  *)
(* bytes with metadata.deflated_crc.  Neither covers the load address, the *)
(* format or the compressed length.                                        *)
(***************************************************************************)
FinalizeOk(g, bytes) ==
  /\ \E h \in Images :
       h.name = g.name /\ bytes = Stream(h, IF g.format = "Bin" THEN "inflated" ELSE "deflated")
  /\ g.loadable

(* Mutant: one chunk too many is asked for. *)
AcceptChunkOffByOne(bytes) ==
  /\ which' = which + 1
  /\ image' = image \o Inflate(bytes)
  /\ once' = TRUE
  /\ IF which = md.count
       THEN state' = "Boot" /\ Continue
       ELSE UNCHANGED state /\ Continue
  /\ UNCHANGED <<uart_baud, d2h, proto, expecting, md, retry_buffer>>

(***************************************************************************)
(* Bytes that are no prefix of a stream may make inflate fail, or may pass *)
(* for one until the checksum is compared.                                 *)
(***************************************************************************)
AcceptChunk(bytes) ==
  LET received == image \o Inflate(bytes) IN
  \/ ~Inflatable(received) /\ Abend
  \/ /\ which + 1 # md.count
     /\ Continue
     /\ which' = which + 1
     /\ image' = received
     /\ once' = TRUE
     /\ UNCHANGED <<uart_baud, d2h, proto, expecting, state, md, retry_buffer>>
  \/ /\ which + 1 = md.count
     /\ FinalizeOk(md, received)
     /\ Continue
     /\ state' = "Boot"
     /\ which' = which + 1
     /\ image' = received
     /\ once' = TRUE
     /\ UNCHANGED <<uart_baud, d2h, proto, expecting, md, retry_buffer>>
  \/ /\ which + 1 = md.count
     /\ ~FinalizeOk(md, received)
     /\ Abend

(* Mutant: any chunk is taken for the one that was asked for. *)
V2ChunkUnchecked ==
  /\ proto = "V2"
  /\ Received({"Chunk"})
  /\ \E p \in Payload :
       IF p = ParseError \/ state # "RequestChunk" THEN Ignore ELSE AcceptChunk(p.bytes)

V2Chunk ==
  /\ proto = "V2"
  /\ Received({"Chunk"})
  /\ \E p \in Payload :
       CASE p = ParseError \/ state # "RequestChunk" -> Ignore
            [] p # ParseError /\ state = "RequestChunk" /\ p.which = which -> AcceptChunk(p.bytes)
            [] OTHER ->
                 /\ Continue
                 /\ once' = TRUE
                 /\ UNCHANGED <<uart_baud, d2h, proto, expecting, state, md, which, image, retry_buffer>>

(* Booter::enter does not return: control passes to the relocated program. *)
V2BootingAck ==
  /\ proto = "V2"
  /\ Received({"BootingAck"})
  /\ IF state = "Boot"
       THEN /\ Continue
            /\ proto' = "Running"
            /\ UNCHANGED <<uart_baud, d2h, expecting, state, md, which, image, once, retry_buffer>>
       ELSE Ignore

V2Other ==
  /\ proto = "V2"
  /\ Received({"Probe", "UseVersion"})
  /\ Ignore

-----------------------------------------------------------------------------
(* The other arms of the loop *)

(* V2::heartbeat: the first send after a state change, or a resend. *)
RequestOf(s) ==
  CASE s = "RequestMetadata" -> MetadataReq
    [] s = "AckMetadata"     -> MetadataAck(md)
    [] s = "RequestChunk"    -> ChunkReq(which)
    [] s = "Boot"            -> Booting

(* Mutant: a request is sent once and never again. *)
HeartbeatOnce ==
  /\ proto = "V2" /\ once
  /\ once' = FALSE
  /\ sends' = IF sends < 2 THEN sends + 1 ELSE 2
  /\ d2h' = IF TxRoom THEN Append(d2h, Frame(RequestOf(state), uart_baud)) ELSE d2h
  /\ UNCHANGED <<h2d, uart_baud, recv_state, rx_stale, proto, expecting, state, md, which, image,
                 retry_buffer>>

Heartbeat ==
  /\ proto = "V2"
  /\ once' = FALSE
  /\ sends' = IF sends < 2 THEN sends + 1 ELSE 2
  /\ IF TxRoom
       THEN /\ d2h' = Append(d2h, Frame(RequestOf(state), uart_baud))
            /\ retry_buffer' = FALSE
       ELSE /\ retry_buffer' = TRUE
            /\ UNCHANGED d2h
  /\ UNCHANGED <<h2d, uart_baud, recv_state, rx_stale, proto, expecting, state, md, which, image>>

(* GetProgInfoSender::tick *)
SendGetProgInfo ==
  /\ Listening
  /\ recv_state = "Initial"
  /\ d2h = << >>
  /\ d2h' = <<Frame(GetProgInfo, uart_baud)>>
  /\ UNCHANGED <<h2d, deviceVars>>

(* decoder.feed fails somewhere in the frame; the payload bytes before that stay. *)
DecodeError ==
  /\ Listening
  /\ recv_state \in {"Initial", "Waiting"}
  /\ h2d # << >>
  /\ ~Readable(h2d[1], uart_baud)
  /\ h2d' = Tail(h2d)
  /\ recv_state' = "Error"
  /\ rx_stale' \in {rx_stale, rx_stale \/ h2d[1].rate = uart_baud}
  /\ UNCHANGED <<d2h, uart_baud, sends, sessionVars>>

(* Bytes that arrive in ReceiveState::Error are read and dropped. *)
DropInError ==
  /\ Listening
  /\ recv_state = "Error"
  /\ h2d # << >>
  /\ h2d' = Tail(h2d)
  /\ UNCHANGED <<d2h, deviceVars>>

ErrorRecovered ==
  /\ Listening
  /\ recv_state = "Error"
  /\ recv_state' = "Waiting"
  /\ UNCHANGED <<linkVars, uart_baud, rx_stale, sends, sessionVars>>

(* Timeouts return to their initial values; the UART divider does not. *)
SessionExpire ==
  /\ Listening
  /\ recv_state = "Waiting"
  /\ proto = "V2" => sends = 2
  /\ recv_state' = "Initial"
  /\ sends' = 0
  /\ StartHandshake
  /\ UNCHANGED <<linkVars, uart_baud, rx_stale>>

(* FrameOutput::Legacy: legacy::perform_download takes over (SubootDownload). *)
ReceiveLegacy ==
  /\ Received({"PutProgInfo"})
  /\ Continue
  /\ proto' = "Legacy"
  /\ EndSession
  /\ UNCHANGED <<uart_baud, d2h>>

(***************************************************************************)
(* Reset of the board: muart1_init turns the receiver off, programs the    *)
(* initial rate and clears both FIFOs, and run is called 100 ms later.     *)
(* What was on its way to the device is lost, and of what was on its way   *)
(* to the host everything that had not left the transmit ring.             *)
(***************************************************************************)
PowerCycle ==
  /\ uart_baud' = INITIAL_BAUD_RATE
  /\ recv_state' = "Initial"
  /\ rx_stale' = FALSE
  /\ sends' = 0
  /\ StartHandshake
  /\ h2d' = << >>
  /\ \E n \in 0 .. Len(d2h) : d2h' = SubSeq(d2h, 1, n)

DeviceReceive ==
  \/ HandshakeProbe \/ HandshakeUseVersion \/ HandshakeOther
  \/ V2Metadata \/ V2MetadataAckAck \/ V2Chunk \/ V2BootingAck \/ V2Other
  \/ ReceiveLegacy \/ DecodeError \/ DropInError
=============================================================================
