----------------------------- MODULE OkdudeHost -----------------------------
(***************************************************************************)
(* The okdude uploader: the promotion handshake of upload.rs and the two   *)
(* threads of v2.rs, upload_inner (dispatching messages) and drive (the    *)
(* only one that touches the tty).  An operator starts it on an image and  *)
(* may kill and restart it at any time.                                    *)
(*                                                                         *)
(* drive and upload_inner communicate through two unbounded channels.  The *)
(* incoming one only delays what is read from the line, so it is part of   *)
(* d2h; the outgoing one is the variable `out`.                            *)
(***************************************************************************)
EXTENDS UartLink

CONSTANT OutCap   \* messages in the outgoing channel (a bound of the model)

ASSUME OutCapAssumption == OutCap \in Nat \ {0}

VARIABLES
  mode,        \* where the process is, see HostMode
  file,        \* the image it was started on
  tty_baud,    \* rate the tty is set to
  chunk_size,  \* Info.chunk_size, in chunks: 0 before MetadataAck, then 1
  out          \* out_tx / outgoing_messages

hostVars == <<mode, file, tty_baud, chunk_size, out>>

(***************************************************************************)
(* "Probing": in try_promotion_handshake.  "Upload": upload_inner and      *)
(* drive run.  "Closing": upload_inner has returned and `close` is set,    *)
(* drive has not been joined.  "Echo": uploaded, printing what the device  *)
(* sends.  "Legacy": speaking SU-BOOT.  "Panicked": a slice index failed.  *)
(***************************************************************************)
HostMode == {"Idle", "Probing", "Upload", "Closing", "Echo", "Legacy", "Panicked"}

HostTypeOK ==
  /\ mode \in HostMode
  /\ file \in Contents
  /\ tty_baud \in Rate
  /\ chunk_size \in {0, 1}
  /\ out \in Seq(HostMessage)

HostInit ==
  /\ mode = "Idle"
  /\ file = Noise
  /\ tty_baud = INITIAL_BAUD_RATE
  /\ chunk_size = 0
  /\ out = << >>

RxRoom == Len(h2d) < RxCap

Write(m) == RxRoom /\ h2d' = Append(h2d, Frame(m, tty_baud))

-----------------------------------------------------------------------------
(* upload.rs *)

(* Tty::new, then the Probe of try_promotion_handshake. *)
HostStart(g) ==
  /\ mode = "Idle"
  /\ RxRoom
  /\ h2d' = Append(h2d, Frame(Probe, INITIAL_BAUD_RATE))
  /\ mode' = "Probing"
  /\ file' = g
  /\ tty_baud' = INITIAL_BAUD_RATE
  /\ chunk_size' = 0
  /\ out' = << >>
  /\ UNCHANGED d2h

Incoming(T) == d2h # << >> /\ Readable(d2h[1], tty_baud) /\ d2h[1].msg.type \in T
TakeD2H     == d2h' = Tail(d2h)

(* The device allows version 2: answer UseVersion and follow to its rate. *)
HostPromote ==
  /\ mode = "Probing"
  /\ Incoming({"AllowedVersions"})
  /\ TakeD2H
  /\ Write(UseVersion(SUPPORTED_VERSION))
  /\ tty_baud' = V2_BAUD_RATE
  /\ mode' = "Upload"
  /\ UNCHANGED <<file, chunk_size, out>>

(* recv_with_print_string scans past anything that is not a preamble. *)
HostSkip ==
  /\ mode = "Probing"
  /\ d2h # << >>
  /\ Readable(d2h[1], tty_baud) => d2h[1].msg.type = "GetProgInfo"
  /\ TakeD2H
  /\ UNCHANGED <<h2d, hostVars>>

(* The process ends; closing the tty drops its unread input. *)
HostExit ==
  /\ mode' = "Idle"
  /\ file' = Noise
  /\ out' = << >>
  /\ chunk_size' = 0
  /\ tty_baud' = INITIAL_BAUD_RATE
  /\ d2h' = << >>
  /\ UNCHANGED h2d

(***************************************************************************)
(* No AllowedVersions within the timeout, a damaged frame, or another      *)
(* message: PROMOTION_TRIES is 1, so suboot::run follows.  It discards the *)
(* input buffer, then refuses Elf or writes PUT_PROG_INFO at once.         *)
(***************************************************************************)
HostFallBack ==
  /\ mode = "Probing"
  /\ \/ file.format = "Elf" /\ HostExit
     \/ /\ file.format = "Bin"
        /\ Write(PutProgInfo)
        /\ d2h' = << >>
        /\ mode' = "Legacy"
        /\ UNCHANGED <<file, tty_baud, chunk_size, out>>

-----------------------------------------------------------------------------
(* v2.rs: upload_inner *)

Send(m) == Len(out) < OutCap /\ out' = Append(out, m)

DispatchMetadataReq ==
  /\ mode = "Upload"
  /\ Incoming({"MetadataReq"})
  /\ TakeD2H
  /\ Send(Metadata(file))
  /\ UNCHANGED <<h2d, mode, file, tty_baud, chunk_size>>

(* Mutant: the chunk size of the acknowledged metadata is not kept. *)
DispatchMetadataAckForgets ==
  /\ mode = "Upload"
  /\ Incoming({"MetadataAck"})
  /\ TakeD2H
  /\ Send(MetadataAckAck(d2h[1].msg.metadata = file))
  /\ UNCHANGED <<h2d, mode, file, tty_baud, chunk_size>>

(* Mutant: every acknowledgement adds its chunk size. *)
DispatchMetadataAckAdds ==
  /\ mode = "Upload"
  /\ Incoming({"MetadataAck"})
  /\ TakeD2H
  /\ Send(MetadataAckAck(d2h[1].msg.metadata = file))
  /\ chunk_size' = chunk_size + 1
  /\ UNCHANGED <<h2d, mode, file, tty_baud>>


DispatchMetadataAck ==
  /\ mode = "Upload"
  /\ Incoming({"MetadataAck"})
  /\ TakeD2H
  /\ LET ok == d2h[1].msg.metadata = file IN
       /\ Send(MetadataAckAck(ok))
       /\ chunk_size' = IF ok THEN 1 ELSE chunk_size
  /\ UNCHANGED <<h2d, mode, file, tty_baud>>

(* compressed[which * chunk_size .. min((which + 1) * chunk_size, len)] *)
ChunkBytes(w) ==
  IF chunk_size = 0 THEN << >> ELSE <<Stream(file, "deflated")[w + 1]>>

DispatchChunkReq ==
  /\ mode = "Upload"
  /\ Incoming({"ChunkReq"})
  /\ TakeD2H
  /\ LET w == d2h[1].msg.which IN
       IF chunk_size = 0 \/ w < file.count
         THEN Send(Chunk(w, ChunkBytes(w))) /\ UNCHANGED mode
         ELSE mode' = "Panicked" /\ UNCHANGED out
  /\ UNCHANGED <<h2d, file, tty_baud, chunk_size>>

(* Queue BootingAck, report "device is booting", return; upload sets `close`. *)
DispatchBooting ==
  /\ mode = "Upload"
  /\ Incoming({"Booting"})
  /\ TakeD2H
  /\ Send(BootingAck)
  /\ mode' = "Closing"
  /\ UNCHANGED <<h2d, file, tty_baud, chunk_size>>

(***************************************************************************)
(* A leftover AllowedVersions is ignored.  Bytes that are no frame make    *)
(* process_incoming_bytes return, and what was read with them is dropped.  *)
(***************************************************************************)
DispatchOther ==
  /\ mode = "Upload"
  /\ d2h # << >>
  /\ IF Incoming({"AllowedVersions"})
       THEN TakeD2H
       ELSE /\ Incoming({"GetProgInfo"}) \/ ~Readable(d2h[1], tty_baud)
            /\ \E n \in 1 .. Len(d2h) : d2h' = SubSeq(d2h, n + 1, Len(d2h))
  /\ UNCHANGED <<h2d, hostVars>>

-----------------------------------------------------------------------------
(* v2.rs: drive and the end of upload *)

DriveWrite ==
  /\ mode \in {"Upload", "Closing"}
  /\ out # << >>
  /\ Write(out[1])
  /\ out' = Tail(out)
  /\ UNCHANGED <<d2h, mode, file, tty_baud, chunk_size>>

(* drive tests `close` before it drains the outgoing channel. *)
DriveExit ==
  /\ mode = "Closing"
  /\ mode' = "Echo"
  /\ tty_baud' = INITIAL_BAUD_RATE
  /\ out' = << >>
  /\ UNCHANGED <<linkVars, file, chunk_size>>

(* What arrives in echo mode is printed, what arrives for nobody is lost. *)
HostDiscard ==
  /\ mode \in {"Echo", "Legacy", "Idle", "Panicked"}
  /\ d2h # << >>
  /\ TakeD2H
  /\ UNCHANGED <<h2d, hostVars>>

(* The operator kills the process, or it ends by itself. *)
HostKill == mode # "Idle" /\ HostExit

HostStep ==
  \/ HostPromote \/ HostSkip
  \/ DispatchMetadataReq \/ DispatchMetadataAck \/ DispatchChunkReq
  \/ DispatchBooting \/ DispatchOther
  \/ DriveWrite \/ DriveExit \/ HostDiscard
=============================================================================
