------------------------------ MODULE UartLink ------------------------------
(***************************************************************************)
(* The serial line between okdude (host) and okboot (device), and the      *)
(* messages of common/okboot-common that travel over it.                   *)
(*                                                                         *)
(* A frame is one COBS-encoded, CRC-protected message (frame/encode.rs,    *)
(* frame/decode.rs).  It remembers the baud rate it was sent at and        *)
(* whether noise has hit it: the receiver can decode it only when it is    *)
(* intact and its own UART runs at the same rate.                          *)
(***************************************************************************)
EXTENDS Naturals, Sequences

CONSTANTS
  Images,  \* the program images an operator may upload
  Misread, \* what a garbled Metadata payload may describe: no operator's image,
           \* but perhaps one of them at another load address
  Noise,   \* one of these; it also stands for no metadata at all
  TxCap,   \* frames that fit in the device's transmit ring (0x10000 bytes)
  RxCap    \* frames in flight from the host before its write blocks

(***************************************************************************)
(* An image: its name stands for its bytes (inflated_crc, inflated_len and *)
(* deflated_crc), count is the number of chunks of its compressed form (at *)
(* least one: deflate never returns an empty stream), format and address   *)
(* are its format_details, and loadable says whether the checks after the  *)
(* CRC pass: for Bin that verify_integrity reads back the bytes            *)
(* write_bytes wrote (stub.rs), for Elf the header and segment checks of   *)
(* ElfLoader::finalize.                                                    *)
(***************************************************************************)
ImageRecord == [name : STRING, count : Nat, format : {"Bin", "Elf"},
                address : Nat, loadable : BOOLEAN]

Contents == Images \cup Misread

ASSUME ImagesAssumption ==
  /\ Images \subseteq ImageRecord
  /\ \A g \in Images : g.count > 0
  /\ Misread \subseteq ImageRecord \ Images
  /\ Noise \in Misread

ASSUME CapsAssumption == TxCap \in Nat \ {0} /\ RxCap \in Nat \ {0}

(***************************************************************************)
(* The bytes of an image, cut in chunks; enc tells compressed bytes from   *)
(* inflated ones.  CRC32 is taken to be collision free, so a checksum is   *)
(* represented by the bytes it was computed from.                          *)
(***************************************************************************)
Piece == [of : Contents, at : Nat, enc : {"deflated", "inflated"}]

Stream(g, enc) == [i \in 1 .. g.count |-> [of |-> g, at |-> i - 1, enc |-> enc]]

Inflate(bytes) == [i \in DOMAIN bytes |-> [bytes[i] EXCEPT !.enc = "inflated"]]

-----------------------------------------------------------------------------
(* Messages of host.rs *)

Probe             == [type |-> "Probe"]
UseVersion(v)     == [type |-> "UseVersion", version |-> v]
Metadata(g)       == [type |-> "Metadata", metadata |-> g]
MetadataAckAck(b) == [type |-> "MetadataAckAck", is_ok |-> b]
Chunk(w, bytes)   == [type |-> "Chunk", which |-> w, bytes |-> bytes]
BootingAck        == [type |-> "BootingAck"]
PutProgInfo       == [type |-> "PutProgInfo"]     \* SU-BOOT command word

(* Messages of device.rs *)

AllowedVersions   == [type |-> "AllowedVersions"]
MetadataReq       == [type |-> "MetadataReq"]
MetadataAck(g)    == [type |-> "MetadataAck", metadata |-> g]
ChunkReq(w)       == [type |-> "ChunkReq", which |-> w]
Booting           == [type |-> "Booting"]
GetProgInfo       == [type |-> "GetProgInfo"]     \* SU-BOOT command word

HostMessage ==
  {Probe, BootingAck, PutProgInfo}
    \cup [type : {"UseVersion"}, version : Nat]
    \cup [type : {"Metadata"}, metadata : Contents]
    \cup [type : {"MetadataAckAck"}, is_ok : BOOLEAN]
    \cup [type : {"Chunk"}, which : Nat, bytes : Seq(Piece)]

DeviceMessage ==
  {AllowedVersions, MetadataReq, Booting, GetProgInfo}
    \cup [type : {"MetadataAck"}, metadata : Contents]
    \cup [type : {"ChunkReq"}, which : Nat]

INITIAL_BAUD_RATE == 115200
V2_BAUD_RATE      == 1500000
SUPPORTED_VERSION == 2
Rate              == {INITIAL_BAUD_RATE, V2_BAUD_RATE}

-----------------------------------------------------------------------------
VARIABLES
  h2d,     \* frames on their way from the host to the device
  d2h      \* frames in the device's transmit ring and on their way to the host

linkVars == <<h2d, d2h>>

Frame(m, rate) == [msg |-> m, rate |-> rate, intact |-> TRUE]

HostFrame   == [msg : HostMessage,   rate : Rate, intact : BOOLEAN]
DeviceFrame == [msg : DeviceMessage, rate : Rate, intact : BOOLEAN]

Readable(f, rate) == f.intact /\ f.rate = rate

LinkTypeOK == h2d \in Seq(HostFrame) /\ d2h \in Seq(DeviceFrame)

LinkInit == h2d = << >> /\ d2h = << >>

(* UART noise: the frame at the head of a queue is lost or damaged. *)
LoseH2D    == h2d # << >> /\ h2d' = Tail(h2d) /\ UNCHANGED d2h
LoseD2H    == d2h # << >> /\ d2h' = Tail(d2h) /\ UNCHANGED h2d
CorruptH2D == /\ h2d # << >> /\ h2d[1].intact
              /\ h2d' = [h2d EXCEPT ![1].intact = FALSE]
              /\ UNCHANGED d2h
CorruptD2H == /\ d2h # << >> /\ d2h[1].intact
              /\ d2h' = [d2h EXCEPT ![1].intact = FALSE]
              /\ UNCHANGED h2d
=============================================================================
