---------------------------- MODULE TransmitRing ----------------------------
(***************************************************************************)
(* The transmit path of okboot (device/okboot/src/buf.rs): the circular    *)
(* TransmitBuffer, the FrameWriter that COBS-encodes a message into it and  *)
(* the legacy Writer that puts a PRINT_STRING there.  A writer borrows the  *)
(* ring mutably, so nothing is shifted out while one is open.              *)
(*                                                                         *)
(* A byte is represented by what it is for, so that a byte in the wrong     *)
(* place can be told from the right one.                                   *)
(***************************************************************************)
EXTENDS Naturals, Sequences

CONSTANTS
  Size,        \* storage.len(): 0x10000 in STATIC_BUFFERS
  WordLen,     \* bytes in a word: 4
  BlockMax,    \* cursor of a full COBS block: 254
  MaxPayload,  \* longest payload of a message or of an rpc_println
  MaxText      \* longest text of a legacy_print_string

ASSUME RingAssumption ==
  /\ Size \in Nat /\ WordLen \in Nat \ {0} /\ BlockMax \in Nat
  /\ MaxPayload \in Nat /\ MaxText \in Nat
  /\ BlockMax > 1

(* The texts okboot prints are lines of its own source, far shorter than   *)
(* the ring: no legacy text fills it exactly.                              *)
ASSUME TextFits == 2 * WordLen + MaxText < Size

Slot == 0 .. Size - 1

Zero             == <<"zero", 0, 0>>
Word(what, v)    == [i \in 1 .. WordLen |-> <<what, v, i>>]
Body(n)          == [i \in 1 .. n |-> <<"body", 0, i>>]
Byte == {Zero}
  \cup ({"preamble", "print", "getproginfo"} \X {0} \X (1 .. WordLen))
  \cup ({"length"} \X Nat \X (1 .. WordLen))
  \cup ({"body"} \X {0} \X (Nat \ {0}))

(* Frames as the receiver expects them, see frame.rs *)
MessageFrame(n, m) == Word("preamble", 0) \o Word("length", n) \o Body(m)
PrintFrame(n)      == Word("print", 0) \o Word("length", n) \o Body(n)
GetProgInfoFrame   == Word("getproginfo", 0)

VARIABLES
  storage, circle_begin, circle_end, circle_len,  \* TransmitBuffer
  w                                               \* the open writer, if any

ring == <<storage, circle_begin, circle_end, circle_len>>
vars == <<storage, circle_begin, circle_end, circle_len, w>>

(***************************************************************************)
(* A writer: the checkpoint it began at, where its length word goes, and   *)
(* ok.  A FrameWriter also has the cursor of its FrameEncoder.  todo is     *)
(* how many bytes its caller still owes it of the type word or the CRC,    *)
(* payload the length the caller will report, put the encoded bytes handed *)
(* to the ring, and wanted (history) the bytes it asked room for.          *)
(***************************************************************************)
Checkpoint == [begin : Slot, end : Slot, len : 0 .. Size]

Writer == [phase : {"none", "type", "payload", "crc", "text"}, ok : BOOLEAN,
           cp : Checkpoint, len_offset : Slot, cursor : 1 .. BlockMax,
           todo : 0 .. WordLen, payload : Nat, put : Nat, wanted : Nat]

NoWriter == [phase |-> "none", ok |-> TRUE, cp |-> [begin |-> 0, end |-> 0, len |-> 0],
             len_offset |-> 0, cursor |-> 1, todo |-> 0, payload |-> 0, put |-> 0,
             wanted |-> 0]

Init ==
  /\ storage = [i \in Slot |-> Zero]
  /\ circle_begin = 0 /\ circle_end = 0 /\ circle_len = 0
  /\ w = NoWriter

-----------------------------------------------------------------------------
(* TransmitBuffer *)

(* mutant: a frame that fits exactly does not fit *)
RemainingSpaceOneLess == IF circle_len = 0 THEN Size ELSE Size - circle_len - 1

remaining_space == Size - circle_len

wrapped_add(a, b) == (a + b) % Size

(* _write_bytes_at_unchecked: bytes from `offset` on, wrapping *)
Written(store, offset, bytes) ==
  [i \in Slot |-> LET d == wrapped_add(i, Size - offset)
                  IN IF d < Len(bytes) THEN bytes[d + 1] ELSE store[i]]

(* extend_from_slice, on success *)
Extend(bytes) ==
  /\ Len(bytes) <= remaining_space
  /\ storage' = Written(storage, circle_end, bytes)
  /\ circle_end' = wrapped_add(circle_end, Len(bytes))
  /\ circle_len' = circle_len + Len(bytes)
  /\ UNCHANGED circle_begin

(* checkpoint *)
Here == [begin |-> circle_begin, end |-> circle_end, len |-> circle_len]

(* A checkpoint's end equal to circle_end counts as nothing written. *)
bytes_since_checkpoint(cp) ==
  IF circle_end < cp.end THEN (Size - cp.end) + circle_end ELSE circle_end - cp.end

restore(cp) ==
  /\ storage' = Written(storage, cp.end, [i \in 1 .. bytes_since_checkpoint(cp) |-> Zero])
  /\ circle_begin' = cp.begin /\ circle_end' = cp.end /\ circle_len' = cp.len

(* The byte the UART has room for, in run's loop or in flush_to_fifo. *)
ShiftByte ==
  /\ w.phase = "none" /\ circle_len > 0
  /\ storage' = [storage EXCEPT ![circle_begin] = Zero]
  /\ circle_begin' = wrapped_add(circle_begin, 1)
  /\ circle_len' = circle_len - 1
  /\ UNCHANGED <<circle_end, w>>

(* GetProgInfoSender::tick *)
GetProgInfo ==
  /\ w.phase = "none" /\ circle_len = 0
  /\ Extend(GetProgInfoFrame)
  /\ UNCHANGED w

-----------------------------------------------------------------------------
(* Opening a writer: a word, and room for the length *)

HeaderFits == 2 * WordLen <= remaining_space
WordFits   == WordLen <= remaining_space

Open(what, phase) ==
  /\ w.phase = "none"
  /\ w' = [NoWriter EXCEPT !.phase = phase, !.ok = HeaderFits, !.cp = Here,
             !.len_offset = IF HeaderFits THEN wrapped_add(circle_end, WordLen) ELSE 0,
             !.todo = IF phase = "type" THEN WordLen ELSE 0,
             !.wanted = IF WordFits THEN 2 * WordLen ELSE WordLen]
  /\ \/ /\ HeaderFits       \* the word, then reserve(4) leaves the bytes as they are
        /\ storage' = Written(storage, circle_end, Word(what, 0))
        /\ circle_end' = wrapped_add(circle_end, 2 * WordLen)
        /\ circle_len' = circle_len + 2 * WordLen
        /\ UNCHANGED circle_begin
     \/ WordFits /\ ~HeaderFits /\ Extend(Word(what, 0))
     \/ ~WordFits /\ UNCHANGED ring

OpenMessage == Open("preamble", "type")   \* FrameWriter::new
OpenPrint   == Open("print", "text")      \* legacy_print_string

(***************************************************************************)
(* The next k bytes of a writer: all of them or none.                      *)
(***************************************************************************)
NextBytes(k) == [i \in 1 .. k |-> <<"body", 0, w.put + i>>]

-----------------------------------------------------------------------------
(* FrameWriter *)

(***************************************************************************)
(* write_u8 of FrameEncoder: a sentinel (zero) or a full block hands over   *)
(* the block, any other byte only moves the cursor.                        *)
(***************************************************************************)
BlockLen(zero) ==
  IF zero THEN w.cursor ELSE IF w.cursor = BlockMax THEN w.cursor + 1 ELSE 0

(* _add_bytes_unhashed for one byte; `after` is what the caller does next *)
AddByte(zero, after) ==
  LET k == BlockLen(zero) IN
  \/ /\ ~w.ok
     /\ w' = after
     /\ UNCHANGED ring
  \/ /\ w.ok /\ k = 0
     /\ w' = [after EXCEPT !.cursor = w.cursor + 1]
     /\ UNCHANGED ring
  \/ /\ w.ok /\ k > 0 /\ Extend(NextBytes(k))
     /\ w' = [after EXCEPT !.cursor = 1, !.put = w.put + k, !.wanted = w.wanted + k]
  \/ /\ w.ok /\ k > remaining_space
     /\ w' = [after EXCEPT !.cursor = 1, !.ok = FALSE, !.wanted = w.wanted + k]
     /\ UNCHANGED ring

(* write32(TYPE): first thing every sender does *)
TypeByte(zero) ==
  /\ w.phase = "type"
  /\ AddByte(zero, [w EXCEPT !.todo = w.todo - 1,
                             !.phase = IF w.todo = 1 THEN "payload" ELSE "type"])

PayloadByte(zero) ==
  /\ w.phase = "payload" /\ w.payload < MaxPayload
  /\ AddByte(zero, [w EXCEPT !.payload = w.payload + 1])

(* finalize puts the CRC through the encoder *)
BeginCrc ==
  /\ w.phase = "payload" /\ w.ok
  /\ w' = [w EXCEPT !.phase = "crc", !.todo = WordLen]
  /\ UNCHANGED ring

CrcByte(zero) ==
  /\ w.phase = "crc" /\ w.ok /\ w.todo > 0
  /\ AddByte(zero, [w EXCEPT !.todo = w.todo - 1])

(***************************************************************************)
(* finalize, from FrameEncoder::finish on.  encode_length fails from 2^24   *)
(* on, which no payload that fits in the ring reaches.                     *)
(***************************************************************************)
LastBlock == w.cursor + 1

Finalize ==
  /\ w.phase = "crc" /\ w.ok /\ w.todo = 0 /\ LastBlock <= remaining_space
  /\ storage' = Written(Written(storage, circle_end, NextBytes(LastBlock)),
                        w.len_offset, Word("length", w.payload))
  /\ circle_end' = wrapped_add(circle_end, LastBlock)
  /\ circle_len' = circle_len + LastBlock
  /\ w' = NoWriter
  /\ UNCHANGED circle_begin

(* finalize of a frame that overflowed, before the CRC, in it or after it *)
Overflowed ==
  \/ w.phase \in {"payload", "crc"} /\ ~w.ok
  \/ w.phase = "crc" /\ w.ok /\ w.todo = 0 /\ LastBlock > remaining_space

TruncateKeepsBytes == Overflowed /\ w' = NoWriter /\ UNCHANGED ring   \* mutant: no restore

Truncate == Overflowed /\ restore(w.cp) /\ w' = NoWriter

(* abort: postcard could not serialise the message *)
Abort ==
  /\ w.phase = "payload" /\ w.payload = 0
  /\ restore(w.cp)
  /\ w' = NoWriter

-----------------------------------------------------------------------------
(* legacy_compat::Writer *)

(* write_str of a piece of k bytes *)
WriteStr(k) ==
  /\ w.phase = "text" /\ w.payload + k <= MaxText
  /\ \/ /\ w.ok /\ Extend(NextBytes(k))
        /\ w' = [w EXCEPT !.payload = w.payload + k, !.put = w.put + k,
                          !.wanted = w.wanted + k]
     \/ /\ w.ok /\ k > remaining_space
        /\ w' = [w EXCEPT !.payload = w.payload + k, !.ok = FALSE,
                          !.wanted = w.wanted + k]
        /\ UNCHANGED ring
     \/ /\ ~w.ok
        /\ w' = [w EXCEPT !.payload = w.payload + k]
        /\ UNCHANGED ring

FinalizePrint ==
  /\ w.phase = "text"
  /\ w' = NoWriter
  /\ \/ ~w.ok /\ restore(w.cp)
     \/ /\ w.ok
        /\ storage' = Written(storage, w.len_offset,
                              Word("length", bytes_since_checkpoint(w.cp) - 2 * WordLen))
        /\ UNCHANGED <<circle_begin, circle_end, circle_len>>

-----------------------------------------------------------------------------
Next ==
  \/ ShiftByte \/ GetProgInfo
  \/ OpenMessage \/ OpenPrint
  \/ \E zero \in BOOLEAN : TypeByte(zero) \/ PayloadByte(zero) \/ CrcByte(zero)
  \/ BeginCrc \/ Finalize \/ Truncate \/ Abort
  \/ \E k \in 1 .. MaxText : WriteStr(k)
  \/ FinalizePrint

Spec == Init /\ [][Next]_vars

-----------------------------------------------------------------------------
(* Safety *)

TypeOK ==
  /\ storage \in [Slot -> Byte]
  /\ circle_begin \in Slot /\ circle_end \in Slot /\ circle_len \in 0 .. Size
  /\ w \in Writer

(***************************************************************************)
(* "circle_end and circle_len get written properly": begin, end and length *)
(* agree, now and at the checkpoint the open writer may return to, whose   *)
(* bytes are still in front of the writer's own.                           *)
(***************************************************************************)
Agree(begin, end, len) == end = begin + len \/ end + Size = begin + len

RingConsistent ==
  /\ Agree(circle_begin, circle_end, circle_len)
  /\ w.phase # "none" =>
       /\ Agree(w.cp.begin, w.cp.end, w.cp.len)
       /\ w.cp.begin = circle_begin /\ w.cp.len <= circle_len

(***************************************************************************)
(* A frame is given up (Truncated) only if the ring really had no room for *)
(* what was written of it, and a frame that is still ok is in the ring to  *)
(* the last byte (_add_bytes_unhashed, extend_from_slice).                 *)
(***************************************************************************)
DropsOnlyWhatCannotFit ==
  w.phase # "none" =>
    IF w.ok THEN w.cp.len + w.wanted = circle_len
            ELSE w.cp.len + w.wanted > Size

(* The bytes promised to the receiver: all, or those before an open frame. *)
Promised ==
  LET len == IF w.phase = "none" THEN circle_len ELSE w.cp.len
  IN [i \in 1 .. len |-> storage[wrapped_add(circle_begin, i - 1)]]

Frames ==
  {MessageFrame(n, m) : n \in 0 .. MaxPayload, m \in 0 .. Size}
    \cup {PrintFrame(n) : n \in 0 .. MaxText} \cup {GetProgInfoFrame}

Queue == INSTANCE FrameQueue WITH queue <- Promised, Frames <- Frames

(***************************************************************************)
(* Whatever wraps, overflows or is aborted half way, the UART is fed whole *)
(* frames only, in the order they were finalized, each with its own length *)
(* in its header.                                                          *)
(***************************************************************************)
ImplementsFrameQueue == Queue!Spec
=============================================================================
