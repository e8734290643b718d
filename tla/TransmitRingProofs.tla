------------------------- MODULE TransmitRingProofs -------------------------
(***************************************************************************)
(* The transmit ring for every size, word length and block length: its     *)
(* indices stay consistent, and a frame is dropped only when it cannot fit. *)
(***************************************************************************)
EXTENDS TransmitRing, TLAPS

(* `wrapped_add` wraps at most once. *)
LEMMA WrappedAdd ==
  ASSUME NEW a \in Slot, NEW b \in 0 .. Size
  PROVE  /\ wrapped_add(a, b) \in Slot
         /\ wrapped_add(a, b) = IF a + b < Size THEN a + b ELSE a + b - Size
  BY RingAssumption, SMT DEF wrapped_add, Slot

(* Writing bytes into the ring leaves bytes in it. *)
LEMMA WrittenType ==
  ASSUME NEW store \in [Slot -> Byte], NEW offset \in Slot, NEW bytes \in Seq(Byte)
  PROVE  Written(store, offset, bytes) \in [Slot -> Byte]
<1>1. \A i \in Slot : wrapped_add(i, Size - offset) \in Nat
  BY RingAssumption, WrappedAdd DEF Slot
<1>2. \A i \in Slot : LET d == wrapped_add(i, Size - offset)
                      IN  (IF d < Len(bytes) THEN bytes[d + 1] ELSE store[i]) \in Byte
  BY <1>1
<1> QED
  BY <1>2 DEF Written

(* The words of a frame. *)
LEMMA WordType ==
  ASSUME NEW what \in {"preamble", "print", "getproginfo"}, NEW n \in Nat
  PROVE  /\ Word(what, 0) \in Seq(Byte) /\ Len(Word(what, 0)) = WordLen
         /\ Word("length", n) \in Seq(Byte) /\ Len(Word("length", n)) = WordLen
<1>1. WordLen \in Nat
  BY RingAssumption
<1>2. \A i \in 1 .. WordLen : <<what, 0, i>> \in Byte /\ <<"length", n, i>> \in Byte
  BY DEF Byte
<1>3. Word(what, 0) \in [1 .. WordLen -> Byte] /\ Word("length", n) \in [1 .. WordLen -> Byte]
  BY <1>2, Zenon DEF Word
<1> QED
  BY <1>1, <1>3

(* The encoded bytes of a frame. *)
LEMMA BodyType ==
  ASSUME w \in Writer, NEW k \in Nat
  PROVE  NextBytes(k) \in Seq(Byte) /\ Len(NextBytes(k)) = k
<1>1. w.put \in Nat
  BY DEF Writer
<1>2. \A i \in 1 .. k : <<"body", 0, w.put + i>> \in Byte
  BY <1>1 DEF Byte
<1> QED
  BY <1>2 DEF NextBytes

(* The zeros restore writes. *)
LEMMA ZerosType ==
  ASSUME NEW k \in Nat
  PROVE  [i \in 1 .. k |-> Zero] \in Seq(Byte) /\ Len([i \in 1 .. k |-> Zero]) = k
  BY DEF Byte

-----------------------------------------------------------------------------
(***************************************************************************)
(* The ring alone, and the part of a step that extends or restores it.     *)
(***************************************************************************)
RingOK ==
  /\ storage \in [Slot -> Byte]
  /\ circle_begin \in Slot /\ circle_end \in Slot /\ circle_len \in 0 .. Size
  /\ Agree(circle_begin, circle_end, circle_len)

(* extend_from_slice keeps the indices consistent. *)
LEMMA ExtendRing ==
  ASSUME RingOK, NEW bytes \in Seq(Byte), Extend(bytes)
  PROVE  /\ RingOK' /\ circle_begin' = circle_begin
         /\ circle_len' = circle_len + Len(bytes)
<1>1. Len(bytes) \in 0 .. Size /\ circle_len + Len(bytes) \in 0 .. Size
  BY RingAssumption DEF Extend, remaining_space, RingOK
<1>2. storage' \in [Slot -> Byte]
  BY WrittenType DEF RingOK, Extend
<1>3. /\ circle_end' \in Slot
      /\ circle_end' = IF circle_end + Len(bytes) < Size THEN circle_end + Len(bytes)
                       ELSE circle_end + Len(bytes) - Size
  BY <1>1, WrappedAdd DEF RingOK, Extend
<1>4. Agree(circle_begin', circle_end', circle_len')
  BY <1>1, <1>3, RingAssumption DEF RingOK, Extend, Agree, Slot
<1> QED
  BY <1>1, <1>2, <1>3, <1>4 DEF RingOK, Extend

(* What the open writer relies on: its checkpoint and its account. *)
WriterOK ==
  /\ w \in Writer
  /\ w.phase # "none" =>
       /\ Agree(w.cp.begin, w.cp.end, w.cp.len)
       /\ w.cp.begin = circle_begin /\ w.cp.len <= circle_len
  /\ DropsOnlyWhatCannotFit
  /\ w.phase = "type" => w.todo > 0
  /\ w.phase = "text" /\ w.ok => w.wanted = 2 * WordLen + w.payload /\ w.payload <= MaxText

(* The inductive invariant. *)
IInv == RingOK /\ WriterOK

(* The arithmetic of bytes_since_checkpoint. *)
LEMMA Distance ==
  ASSUME NEW begin \in Slot, NEW from \in Slot, NEW to \in Slot,
         NEW len1 \in 0 .. Size, NEW len2 \in 0 .. Size, len1 <= len2,
         Agree(begin, from, len1), Agree(begin, to, len2)
  PROVE  LET d == IF to < from THEN (Size - from) + to ELSE to - from
         IN  d \in Nat /\ (len2 - len1 < Size => d = len2 - len1)
<1>1. Size \in Nat /\ \A x \in Slot : x \in Nat /\ x < Size
  BY RingAssumption DEF Slot
<1>2. len1 \in Nat /\ len2 \in Nat /\ len1 <= Size /\ len2 <= Size
  BY RingAssumption
<1>3. CASE to < from
  BY <1>1, <1>2, <1>3, SMT DEF Agree
<1>4. CASE ~(to < from)
  BY <1>1, <1>2, <1>4, SMT DEF Agree
<1> QED
  BY <1>3, <1>4, Zenon

(* Between two checkpoints less than a ring apart the count is exact. *)
LEMMA BytesSince ==
  ASSUME RingOK, NEW cp \in Checkpoint, Agree(cp.begin, cp.end, cp.len),
         cp.begin = circle_begin, cp.len <= circle_len
  PROVE  /\ bytes_since_checkpoint(cp) \in Nat
         /\ circle_len - cp.len < Size => bytes_since_checkpoint(cp) = circle_len - cp.len
<1>1. cp.begin \in Slot /\ cp.end \in Slot /\ cp.len \in 0 .. Size
  BY DEF Checkpoint
<1> QED
  BY <1>1, Distance DEF RingOK, bytes_since_checkpoint

(* restore leads back to a consistent ring. *)
LEMMA RestoreRing ==
  ASSUME RingOK, WriterOK, w.phase # "none", restore(w.cp)
  PROVE  RingOK'
<1>1. w.cp \in Checkpoint
  BY DEF WriterOK, Writer
<1>2. bytes_since_checkpoint(w.cp) \in Nat
  BY <1>1, BytesSince DEF WriterOK
<1>3. w.cp.begin \in Slot /\ w.cp.end \in Slot /\ w.cp.len \in 0 .. Size
  BY <1>1 DEF Checkpoint
<1>4. storage' \in [Slot -> Byte]
  BY <1>2, <1>3, ZerosType, WrittenType DEF RingOK, restore
<1> QED
  BY <1>3, <1>4 DEF RingOK, WriterOK, restore

(* Between frames no account is open. *)
LEMMA NoWriterOK ==
  ASSUME w' = NoWriter
  PROVE  WriterOK'
<1>1. 0 \in Slot /\ 0 \in 0 .. Size /\ 1 \in 1 .. BlockMax /\ 0 \in 0 .. WordLen
  BY RingAssumption, TextFits DEF Slot
<1>2. NoWriter.cp \in Checkpoint
  BY <1>1 DEF NoWriter, Checkpoint
<1>3. NoWriter \in Writer
  BY <1>1, <1>2 DEF NoWriter, Writer
<1>4. NoWriter.phase = "none"
  BY DEF NoWriter
<1> QED
  BY <1>3, <1>4 DEF WriterOK, DropsOnlyWhatCannotFit
-----------------------------------------------------------------------------
(* The steps *)

(* Only the fields an account is about. *)
LEMMA FrameAccount ==
  ASSUME RingOK', w' \in Writer, w'.phase \in {"type", "payload", "crc"},
         w'.phase = "type" => w'.todo > 0,
         Agree(w'.cp.begin, w'.cp.end, w'.cp.len),
         w'.cp.begin = circle_begin', w'.cp.len <= circle_len',
         w'.ok => w'.cp.len + w'.wanted = circle_len',
         ~w'.ok => w'.cp.len + w'.wanted > Size
  PROVE  IInv'
  BY DEF IInv, WriterOK, DropsOnlyWhatCannotFit

(* The fields a written block changes. *)
LEMMA BlockFields ==
  ASSUME NEW r \in Writer, NEW n \in Nat, NEW m \in Nat
  PROVE  /\ [r EXCEPT !.cursor = 1, !.put = n, !.wanted = m] \in Writer
         /\ [r EXCEPT !.cursor = 1, !.ok = FALSE, !.wanted = m] \in Writer
<1>1. 1 \in 1 .. BlockMax
  BY RingAssumption
<1>2. FALSE \in BOOLEAN
  OBVIOUS
<1>3. [r EXCEPT !.cursor = 1, !.put = n, !.wanted = m] \in Writer
  BY <1>1, Zenon DEF Writer
<1>4. [r EXCEPT !.cursor = 1, !.ok = FALSE, !.wanted = m] \in Writer
  BY <1>1, <1>2, Zenon DEF Writer
<1> QED
  BY <1>3, <1>4

(* One more byte through the encoder, whatever the caller does next. *)
LEMMA AddByteStep ==
  ASSUME IInv, NEW zero \in BOOLEAN, NEW after \in Writer,
         w.phase # "none", after.phase \in {"type", "payload", "crc"},
         after.phase = "type" => after.todo > 0,
         after.cp = w.cp, after.ok = w.ok, after.wanted = w.wanted,
         AddByte(zero, after)
  PROVE  IInv'
<1> DEFINE k == BlockLen(zero)
<1>1. /\ w \in Writer /\ w.cp \in Checkpoint /\ w.wanted \in Nat /\ w.put \in Nat
      /\ w.cursor \in 1 .. BlockMax /\ w.ok \in BOOLEAN
      /\ Agree(w.cp.begin, w.cp.end, w.cp.len)
      /\ w.cp.begin = circle_begin /\ w.cp.len <= circle_len
  BY DEF IInv, WriterOK, Writer
<1>2. w.cp.len \in 0 .. Size /\ circle_len \in 0 .. Size
  BY <1>1 DEF Checkpoint, IInv, RingOK
<1>3. /\ w.ok => w.cp.len + w.wanted = circle_len
      /\ ~w.ok => w.cp.len + w.wanted > Size
  BY DEF IInv, WriterOK, DropsOnlyWhatCannotFit
<1>4. k \in Nat /\ (k = 0 => w.cursor < BlockMax)
  BY <1>1, RingAssumption DEF BlockLen
<1>5. 1 \in 1 .. BlockMax /\ Size \in Nat
  BY RingAssumption
<1>6. CASE ~w.ok /\ w' = after /\ UNCHANGED ring
  <2>1. RingOK'
    BY <1>6 DEF ring, RingOK, IInv
  <2> QED
    BY <1>1, <1>3, <1>6, <2>1, FrameAccount DEF ring
<1>7. CASE w.ok /\ k = 0 /\ w' = [after EXCEPT !.cursor = w.cursor + 1] /\ UNCHANGED ring
  <2>1. RingOK'
    BY <1>7 DEF ring, RingOK, IInv
  <2>2. w' \in Writer
    BY <1>1, <1>4, <1>7, RingAssumption DEF Writer
  <2>3. /\ w'.phase = after.phase /\ w'.todo = after.todo /\ w'.cp = w.cp
        /\ w'.ok = w.ok /\ w'.wanted = w.wanted
    BY <1>7 DEF Writer
  <2> QED
    BY <1>1, <1>3, <1>7, <2>1, <2>2, <2>3, FrameAccount DEF ring
<1>8. CASE /\ w.ok /\ k > 0 /\ Extend(NextBytes(k))
           /\ w' = [after EXCEPT !.cursor = 1, !.put = w.put + k, !.wanted = w.wanted + k]
  <2>1. RingOK' /\ circle_begin' = circle_begin /\ circle_len' = circle_len + k
    BY <1>1, <1>4, <1>8, BodyType, ExtendRing DEF IInv
  <2>2. w' \in Writer
    <3>1. w.put + k \in Nat /\ w.wanted + k \in Nat
      BY <1>1, <1>4
    <3> QED
      BY <1>8, <3>1, BlockFields
  <2>3. /\ w'.phase = after.phase /\ w'.todo = after.todo /\ w'.cp = w.cp
        /\ w'.ok = w.ok /\ w'.wanted = w.wanted + k
    BY <1>8 DEF Writer
  <2>4. w'.cp.len <= circle_len' /\ w'.cp.len + w'.wanted = circle_len'
    BY <1>1, <1>2, <1>3, <1>4, <1>8, <2>1, <2>3
  <2> QED
    BY <1>1, <1>8, <2>1, <2>2, <2>3, <2>4, FrameAccount
<1>9. CASE /\ w.ok /\ k > remaining_space
           /\ w' = [after EXCEPT !.cursor = 1, !.ok = FALSE, !.wanted = w.wanted + k]
           /\ UNCHANGED ring
  <2>1. RingOK' /\ circle_begin' = circle_begin /\ circle_len' = circle_len
    BY <1>9 DEF ring, RingOK, IInv
  <2>2. w' \in Writer
    <3>1. w.wanted + k \in Nat
      BY <1>1, <1>4
    <3> QED
      BY <1>9, <3>1, BlockFields
  <2>3. /\ w'.phase = after.phase /\ w'.todo = after.todo /\ w'.cp = w.cp
        /\ w'.ok = FALSE /\ w'.wanted = w.wanted + k
    BY <1>9 DEF Writer
  <2>4. w'.cp.len + w'.wanted > Size
    BY <1>1, <1>2, <1>3, <1>4, <1>5, <1>9, <2>3 DEF remaining_space
  <2> QED
    BY <1>1, <1>9, <2>1, <2>2, <2>3, <2>4, FrameAccount
<1> QED
  BY <1>6, <1>7, <1>8, <1>9, Zenon DEF AddByte
(* write32(TYPE), payload and CRC bytes. *)
LEMMA FrameByteStep ==
  ASSUME IInv, NEW zero \in BOOLEAN, TypeByte(zero) \/ PayloadByte(zero) \/ CrcByte(zero)
  PROVE  IInv'
<1>1. /\ w \in Writer /\ w.todo \in 0 .. WordLen /\ w.payload \in Nat /\ WordLen \in Nat
      /\ w.phase = "type" => w.todo > 0
  BY RingAssumption DEF IInv, WriterOK, Writer
<1>2. CASE TypeByte(zero)
  <2> DEFINE after == [w EXCEPT !.todo = w.todo - 1,
                                !.phase = IF w.todo = 1 THEN "payload" ELSE "type"]
  <2>1. w.phase = "type" /\ AddByte(zero, after)
    BY <1>2, Zenon DEF TypeByte
  <2>2. w.todo - 1 \in 0 .. WordLen /\ (w.todo # 1 => w.todo - 1 > 0)
    BY <1>1, <2>1
  <2>3. after \in Writer
    BY <1>1, <2>2 DEF Writer
  <2>4. /\ after.phase \in {"type", "payload", "crc"}
        /\ after.phase = "type" => after.todo > 0
        /\ after.cp = w.cp /\ after.ok = w.ok /\ after.wanted = w.wanted
    BY <1>1, <2>2 DEF Writer
  <2> QED
    BY <2>1, <2>3, <2>4, AddByteStep
<1>3. CASE PayloadByte(zero)
  <2> DEFINE after == [w EXCEPT !.payload = w.payload + 1]
  <2>1. w.phase = "payload" /\ AddByte(zero, after)
    BY <1>3, Zenon DEF PayloadByte
  <2>2. after \in Writer
    BY <1>1 DEF Writer
  <2>3. /\ after.phase = "payload"
        /\ after.cp = w.cp /\ after.ok = w.ok /\ after.wanted = w.wanted
    BY <1>1, <2>1 DEF Writer
  <2> QED
    BY <2>1, <2>2, <2>3, AddByteStep
<1>4. CASE CrcByte(zero)
  <2> DEFINE after == [w EXCEPT !.todo = w.todo - 1]
  <2>1. w.phase = "crc" /\ w.todo > 0 /\ AddByte(zero, after)
    BY <1>4, Zenon DEF CrcByte
  <2>2. after \in Writer
    BY <1>1, <2>1 DEF Writer
  <2>3. /\ after.phase = "crc"
        /\ after.cp = w.cp /\ after.ok = w.ok /\ after.wanted = w.wanted
    BY <1>1, <2>1 DEF Writer
  <2> QED
    BY <2>1, <2>2, <2>3, AddByteStep
<1> QED
  BY <1>2, <1>3, <1>4

(* Opening a frame or a text. *)
LEMMA OpenStep ==
  ASSUME IInv, NEW what \in {"preamble", "print", "getproginfo"},
         NEW phase \in {"type", "text"}, Open(what, phase)
  PROVE  IInv'
<1> DEFINE offset == IF HeaderFits THEN wrapped_add(circle_end, WordLen) ELSE 0
           todo   == IF phase = "type" THEN WordLen ELSE 0
           wanted == IF WordFits THEN 2 * WordLen ELSE WordLen
<1>1. /\ RingOK /\ Size \in Nat /\ WordLen \in Nat \ {0} /\ MaxText \in Nat
      /\ 2 * WordLen < Size /\ circle_len \in 0 .. Size
  BY RingAssumption, TextFits DEF IInv, RingOK
<1>2. Here \in Checkpoint /\ Agree(Here.begin, Here.end, Here.len)
      /\ Here.begin = circle_begin /\ Here.len = circle_len
  BY <1>1 DEF RingOK, Here, Checkpoint
<1>3. HeaderFits \in BOOLEAN /\ (HeaderFits => WordFits)
  BY <1>1 DEF HeaderFits, WordFits, remaining_space
<1>4. offset \in Slot
  <2>1. WordLen \in 0 .. Size /\ 0 \in Slot /\ circle_end \in Slot
    BY <1>1 DEF RingOK, Slot
  <2> QED
    BY <2>1, WrappedAdd
<1>5. todo \in 0 .. WordLen /\ wanted \in Nat /\ (phase = "type" => todo > 0)
  BY <1>1
<1>6. w' = [NoWriter EXCEPT !.phase = phase, !.ok = HeaderFits, !.cp = Here,
              !.len_offset = offset, !.todo = todo, !.wanted = wanted]
  BY Zenon DEF Open
<1>7. /\ w'.phase = phase /\ w'.ok = HeaderFits /\ w'.cp = Here /\ w'.todo = todo
      /\ w'.wanted = wanted /\ w'.payload = 0
  BY <1>6 DEF NoWriter
<1>8. w' \in Writer
  <2>1. 1 \in 1 .. BlockMax /\ 0 \in Nat
    BY RingAssumption
  <2>2. w' = [phase |-> phase, ok |-> HeaderFits, cp |-> Here, len_offset |-> offset,
              cursor |-> 1, todo |-> todo, payload |-> 0, put |-> 0, wanted |-> wanted]
    BY <1>6 DEF NoWriter
  <2>3. phase \in {"none", "type", "payload", "crc", "text"}
    OBVIOUS
  <2> QED
    BY <1>2, <1>3, <1>4, <1>5, <2>1, <2>2, <2>3, Zenon DEF Writer
<1>9. /\ RingOK' /\ circle_begin' = circle_begin /\ circle_len <= circle_len'
      /\ HeaderFits => circle_len' = circle_len + 2 * WordLen
  <2>1. CASE /\ HeaderFits
             /\ storage' = Written(storage, circle_end, Word(what, 0))
             /\ circle_end' = wrapped_add(circle_end, 2 * WordLen)
             /\ circle_len' = circle_len + 2 * WordLen
             /\ UNCHANGED circle_begin
    <3>1. storage' \in [Slot -> Byte]
      BY <2>1, <1>1, WordType, WrittenType DEF RingOK
    <3>2. 2 * WordLen \in 0 .. Size /\ circle_len' \in 0 .. Size
      BY <1>1, <2>1 DEF HeaderFits, remaining_space
    <3>3. /\ circle_end' \in Slot
          /\ circle_end' = IF circle_end + 2 * WordLen < Size THEN circle_end + 2 * WordLen
                           ELSE circle_end + 2 * WordLen - Size
      BY <1>1, <2>1, <3>2, WrappedAdd DEF RingOK
    <3>4. Agree(circle_begin', circle_end', circle_len')
      BY <1>1, <2>1, <3>2, <3>3 DEF RingOK, Agree, Slot
    <3> QED
      BY <1>1, <2>1, <3>1, <3>2, <3>3, <3>4 DEF RingOK
  <2>2. CASE ~HeaderFits /\ Extend(Word(what, 0))
    <3>1. Word(what, 0) \in Seq(Byte) /\ Len(Word(what, 0)) = WordLen
      BY WordType
    <3> QED
      BY <1>1, <2>2, <3>1, ExtendRing
  <2>3. CASE ~WordFits /\ UNCHANGED ring
    BY <1>1, <1>3, <2>3 DEF ring, RingOK
  <2> QED
    BY <2>1, <2>2, <2>3, Zenon DEF Open
<1>10. /\ HeaderFits => circle_len + wanted = circle_len'
       /\ HeaderFits => wanted = 2 * WordLen
       /\ ~HeaderFits => circle_len + wanted > Size
  BY <1>1, <1>3, <1>9 DEF HeaderFits, WordFits, remaining_space
<1>11. 2 * WordLen = 2 * WordLen + 0 /\ 0 <= MaxText
  BY <1>1
<1>12. /\ w'.ok => w'.cp.len + w'.wanted = circle_len'
       /\ ~w'.ok => w'.cp.len + w'.wanted > Size
       /\ w'.ok => w'.wanted = 2 * WordLen + w'.payload /\ w'.payload <= MaxText
  BY <1>2, <1>7, <1>10, <1>11
<1>13. w'.phase # "none" =>
         /\ Agree(w'.cp.begin, w'.cp.end, w'.cp.len)
         /\ w'.cp.begin = circle_begin' /\ w'.cp.len <= circle_len'
  BY <1>2, <1>7, <1>9
<1>14. w'.phase = "type" => w'.todo > 0
  BY <1>5, <1>7
<1> QED
  BY <1>8, <1>9, <1>12, <1>13, <1>14 DEF IInv, WriterOK, DropsOnlyWhatCannotFit
(* Steps between frames: nothing but the ring changes. *)
LEMMA IdleStep ==
  ASSUME IInv, ShiftByte \/ GetProgInfo
  PROVE  IInv'
<1>1. /\ RingOK /\ w \in Writer /\ w.phase = "none" /\ w' = w
      /\ Size \in Nat /\ WordLen \in Nat
  BY RingAssumption DEF IInv, WriterOK, ShiftByte, GetProgInfo
<1>2. WriterOK'
  BY <1>1 DEF WriterOK, DropsOnlyWhatCannotFit
<1>3. CASE ShiftByte
  <2>1. /\ circle_begin \in Slot /\ circle_len \in 1 .. Size /\ 1 \in 0 .. Size
        /\ circle_begin' = wrapped_add(circle_begin, 1)
        /\ circle_len' = circle_len - 1 /\ circle_end' = circle_end
        /\ storage' = [storage EXCEPT ![circle_begin] = Zero]
    BY <1>1, <1>3 DEF ShiftByte, RingOK
  <2>2. /\ circle_begin' \in Slot
        /\ circle_begin' = IF circle_begin + 1 < Size THEN circle_begin + 1
                           ELSE circle_begin + 1 - Size
    BY <2>1, WrappedAdd
  <2>3. storage' \in [Slot -> Byte]
    BY <1>1, <2>1 DEF RingOK, Byte
  <2>4. Agree(circle_begin', circle_end', circle_len')
    BY <1>1, <2>1, <2>2 DEF RingOK, Agree, Slot
  <2>5. circle_len' \in 0 .. Size
    BY <1>1, <2>1
  <2> QED
    BY <1>1, <1>2, <2>1, <2>2, <2>3, <2>4, <2>5 DEF RingOK, IInv
<1>4. CASE GetProgInfo
  <2>1. GetProgInfoFrame \in Seq(Byte)
    BY WordType DEF GetProgInfoFrame
  <2> QED
    BY <1>1, <1>2, <1>4, <2>1, ExtendRing DEF GetProgInfo, IInv
<1> QED
  BY <1>3, <1>4

(* The beginning of finalize. *)
LEMMA BeginCrcStep ==
  ASSUME IInv, BeginCrc
  PROVE  IInv'
<1>1. /\ w \in Writer /\ WordLen \in 0 .. WordLen /\ w.phase = "payload"
      /\ w' = [w EXCEPT !.phase = "crc", !.todo = WordLen] /\ UNCHANGED ring
  BY RingAssumption DEF IInv, WriterOK, BeginCrc
<1>2. w' \in Writer
  BY <1>1 DEF Writer
<1>3. /\ w'.phase = "crc" /\ w'.cp = w.cp /\ w'.ok = w.ok /\ w'.wanted = w.wanted
  BY <1>1 DEF Writer
<1>4. RingOK' /\ circle_begin' = circle_begin /\ circle_len' = circle_len
  BY <1>1 DEF ring, RingOK, IInv
<1>5. /\ Agree(w.cp.begin, w.cp.end, w.cp.len)
      /\ w.cp.begin = circle_begin /\ w.cp.len <= circle_len
      /\ w.ok => w.cp.len + w.wanted = circle_len
      /\ ~w.ok => w.cp.len + w.wanted > Size
  BY <1>1 DEF IInv, WriterOK, DropsOnlyWhatCannotFit
<1> QED
  BY <1>2, <1>3, <1>4, <1>5, FrameAccount

(* The end of finalize, when everything fitted. *)
LEMMA FinalizeStep ==
  ASSUME IInv, Finalize
  PROVE  IInv'
<1>1. /\ RingOK /\ w \in Writer /\ w.cursor \in 1 .. BlockMax /\ w.payload \in Nat
      /\ w.len_offset \in Slot /\ BlockMax \in Nat /\ Size \in Nat
  BY RingAssumption DEF IInv, WriterOK, Writer
<1>2. /\ LastBlock \in 0 .. Size /\ circle_len + LastBlock \in 0 .. Size
      /\ circle_end' = wrapped_add(circle_end, LastBlock)
      /\ circle_len' = circle_len + LastBlock /\ circle_begin' = circle_begin
      /\ w' = NoWriter
  BY <1>1 DEF Finalize, LastBlock, remaining_space, RingOK
<1>3. storage' \in [Slot -> Byte]
  <2>1. LastBlock \in Nat
    BY <1>1 DEF LastBlock
  <2>2. NextBytes(LastBlock) \in Seq(Byte)
    BY <1>1, <2>1, BodyType
  <2>3. Written(storage, circle_end, NextBytes(LastBlock)) \in [Slot -> Byte]
    BY <1>1, <2>2, WrittenType DEF RingOK
  <2>4. Word("length", w.payload) \in Seq(Byte)
    BY <1>1, WordType
  <2> QED
    BY <1>1, <2>3, <2>4, WrittenType DEF Finalize
<1>4. /\ circle_end' \in Slot
      /\ circle_end' = IF circle_end + LastBlock < Size THEN circle_end + LastBlock
                       ELSE circle_end + LastBlock - Size
  BY <1>1, <1>2, WrappedAdd DEF RingOK
<1>5. Agree(circle_begin', circle_end', circle_len')
  BY <1>1, <1>2, <1>4 DEF RingOK, Agree, Slot
<1>6. RingOK'
  BY <1>1, <1>2, <1>3, <1>4, <1>5 DEF RingOK
<1> QED
  BY <1>2, <1>6, NoWriterOK DEF IInv

(* finalize of a frame that did not fit, and abort. *)
LEMMA RollBackStep ==
  ASSUME IInv, Truncate \/ Abort
  PROVE  IInv'
<1>1. w.phase # "none" /\ restore(w.cp) /\ w' = NoWriter
  BY DEF Truncate, Overflowed, Abort
<1> QED
  BY <1>1, RestoreRing, NoWriterOK DEF IInv

(* finalize of a text: its length is the number of bytes it has. *)
LEMMA FinalizePrintStep ==
  ASSUME IInv, FinalizePrint
  PROVE  IInv'
<1>1. w.phase = "text" /\ w' = NoWriter
  BY DEF FinalizePrint
<1>2. CASE ~w.ok /\ restore(w.cp)
  BY <1>1, <1>2, RestoreRing, NoWriterOK DEF IInv
<1>3. CASE /\ w.ok
           /\ storage' = Written(storage, w.len_offset,
                                 Word("length", bytes_since_checkpoint(w.cp) - 2 * WordLen))
           /\ UNCHANGED <<circle_begin, circle_end, circle_len>>
  <2>1. /\ RingOK /\ w \in Writer /\ w.cp \in Checkpoint /\ w.len_offset \in Slot
        /\ Agree(w.cp.begin, w.cp.end, w.cp.len)
        /\ w.cp.begin = circle_begin /\ w.cp.len <= circle_len
        /\ w.cp.len + w.wanted = circle_len
        /\ w.wanted = 2 * WordLen + w.payload /\ w.payload <= MaxText
        /\ w.payload \in Nat
    BY <1>1, <1>3 DEF IInv, WriterOK, Writer, DropsOnlyWhatCannotFit
  <2>2. w.cp.len \in Nat /\ circle_len \in Nat
    BY <2>1, RingAssumption DEF Checkpoint, RingOK
  <2>3. circle_len - w.cp.len < Size
    BY <2>1, <2>2, RingAssumption, TextFits
  <2>4. bytes_since_checkpoint(w.cp) = circle_len - w.cp.len
    BY <2>1, <2>3, BytesSince
  <2>5. bytes_since_checkpoint(w.cp) - 2 * WordLen = w.payload
    BY <2>1, <2>2, <2>4, RingAssumption
  <2>6. storage' \in [Slot -> Byte]
    BY <1>3, <2>1, <2>5, WordType, WrittenType DEF RingOK
  <2>7. RingOK'
    BY <1>3, <2>1, <2>6 DEF RingOK
  <2> QED
    BY <1>1, <2>7, NoWriterOK DEF IInv
<1> QED
  BY <1>2, <1>3, Zenon DEF FinalizePrint
(* A piece of a text: all of it or nothing. *)
LEMMA WriteStrStep ==
  ASSUME IInv, NEW k \in 1 .. MaxText, WriteStr(k)
  PROVE  IInv'
<1>1. /\ RingOK /\ w \in Writer /\ w.cp \in Checkpoint /\ k \in Nat /\ k > 0
      /\ w.payload \in Nat /\ w.put \in Nat /\ w.wanted \in Nat
      /\ WordLen \in Nat /\ Size \in Nat /\ MaxText \in Nat
  BY RingAssumption DEF IInv, WriterOK, Writer
<1>2. /\ w.phase = "text" /\ w.payload + k <= MaxText
      /\ Agree(w.cp.begin, w.cp.end, w.cp.len)
      /\ w.cp.begin = circle_begin /\ w.cp.len <= circle_len
      /\ w.ok => w.cp.len + w.wanted = circle_len
      /\ ~w.ok => w.cp.len + w.wanted > Size
      /\ w.ok => w.wanted = 2 * WordLen + w.payload
  BY DEF IInv, WriterOK, WriteStr, DropsOnlyWhatCannotFit
<1>3. w.cp.len \in 0 .. Size /\ circle_len \in 0 .. Size
  BY <1>1 DEF Checkpoint, RingOK
<1>4. w.payload + k \in Nat /\ w.put + k \in Nat /\ w.wanted + k \in Nat
  BY <1>1
<1>5. ASSUME RingOK', circle_begin' = circle_begin, w.cp.len <= circle_len',
             w' \in Writer, w'.phase = "text", w'.cp = w.cp,
             w'.ok => w.cp.len + w'.wanted = circle_len',
             ~w'.ok => w.cp.len + w'.wanted > Size,
             w'.ok => w'.wanted = 2 * WordLen + w'.payload /\ w'.payload <= MaxText
      PROVE  IInv'
  BY <1>2, <1>5 DEF IInv, WriterOK, DropsOnlyWhatCannotFit
<1>6. CASE /\ w.ok /\ Extend(NextBytes(k))
           /\ w' = [w EXCEPT !.payload = w.payload + k, !.put = w.put + k,
                             !.wanted = w.wanted + k]
  <2>1. RingOK' /\ circle_begin' = circle_begin /\ circle_len' = circle_len + k
    BY <1>1, <1>6, BodyType, ExtendRing
  <2>2. w' \in Writer
    BY <1>1, <1>4, <1>6, Zenon DEF Writer
  <2>3. /\ w'.phase = w.phase /\ w'.cp = w.cp /\ w'.ok = w.ok
        /\ w'.payload = w.payload + k /\ w'.wanted = w.wanted + k
    BY <1>1, <1>6 DEF Writer
  <2>4. /\ w.cp.len <= circle_len' /\ w.cp.len + w'.wanted = circle_len'
        /\ w'.wanted = 2 * WordLen + w'.payload /\ w'.payload <= MaxText
    BY <1>1, <1>2, <1>3, <1>6, <2>1, <2>3
  <2> QED
    BY <1>2, <1>5, <1>6, <2>1, <2>2, <2>3, <2>4
<1>7. CASE /\ w.ok /\ k > remaining_space
           /\ w' = [w EXCEPT !.payload = w.payload + k, !.ok = FALSE,
                             !.wanted = w.wanted + k]
           /\ UNCHANGED ring
  <2>1. RingOK' /\ circle_begin' = circle_begin /\ circle_len' = circle_len
    BY <1>1, <1>7 DEF ring, RingOK
  <2>2. w' \in Writer
    <3>1. FALSE \in BOOLEAN
      OBVIOUS
    <3> QED
      BY <1>1, <1>4, <1>7, <3>1, Zenon DEF Writer
  <2>3. /\ w'.phase = w.phase /\ w'.cp = w.cp /\ w'.ok = FALSE
        /\ w'.wanted = w.wanted + k
    BY <1>1, <1>7 DEF Writer
  <2>4. w.cp.len <= circle_len' /\ w.cp.len + w'.wanted > Size
    BY <1>1, <1>2, <1>3, <1>7, <2>1, <2>3 DEF remaining_space
  <2> QED
    BY <1>2, <1>5, <2>1, <2>2, <2>3, <2>4
<1>8. CASE ~w.ok /\ w' = [w EXCEPT !.payload = w.payload + k] /\ UNCHANGED ring
  <2>1. RingOK' /\ circle_begin' = circle_begin /\ circle_len' = circle_len
    BY <1>1, <1>8 DEF ring, RingOK
  <2>2. w' \in Writer
    BY <1>1, <1>4, <1>8, Zenon DEF Writer
  <2>3. /\ w'.phase = w.phase /\ w'.cp = w.cp /\ w'.ok = w.ok /\ w'.wanted = w.wanted
    BY <1>1, <1>8 DEF Writer
  <2> QED
    BY <1>2, <1>5, <1>8, <2>1, <2>2, <2>3
<1> QED
  BY <1>6, <1>7, <1>8, Zenon DEF WriteStr

-----------------------------------------------------------------------------
(* Every step keeps the inductive invariant. *)
LEMMA IInvStep ==
  ASSUME IInv, [Next]_vars
  PROVE  IInv'
<1>1. CASE UNCHANGED vars
  BY <1>1 DEF vars, IInv, RingOK, WriterOK, DropsOnlyWhatCannotFit
<1>2. CASE ShiftByte \/ GetProgInfo
  BY <1>2, IdleStep
<1>3. CASE OpenMessage \/ OpenPrint
  BY <1>3, OpenStep DEF OpenMessage, OpenPrint
<1>4. CASE \E zero \in BOOLEAN : TypeByte(zero) \/ PayloadByte(zero) \/ CrcByte(zero)
  BY <1>4, FrameByteStep
<1>5. CASE BeginCrc
  BY <1>5, BeginCrcStep
<1>6. CASE Finalize
  BY <1>6, FinalizeStep
<1>7. CASE Truncate \/ Abort
  BY <1>7, RollBackStep
<1>8. CASE \E k \in 1 .. MaxText : WriteStr(k)
  BY <1>8, WriteStrStep
<1>9. CASE FinalizePrint
  BY <1>9, FinalizePrintStep
<1> QED
  BY <1>1, <1>2, <1>3, <1>4, <1>5, <1>6, <1>7, <1>8, <1>9 DEF Next

(* The empty ring is consistent. *)
LEMMA IInvInit == Init => IInv
<1> SUFFICES ASSUME Init PROVE IInv
  OBVIOUS
<1>1. Size \in Nat /\ Size > 0 /\ BlockMax \in Nat /\ BlockMax > 1 /\ WordLen \in Nat
  BY RingAssumption, TextFits
<1>2. 0 \in Slot /\ 0 \in 0 .. Size /\ 1 \in 1 .. BlockMax /\ 0 \in 0 .. WordLen
  BY <1>1 DEF Slot
<1>3. RingOK
  BY <1>1, <1>2 DEF Init, RingOK, Agree, Byte
<1>4. NoWriter.cp \in Checkpoint
  BY <1>2 DEF NoWriter, Checkpoint
<1>5. w \in Writer /\ w.phase = "none"
  BY <1>2, <1>4 DEF Init, NoWriter, Writer
<1> QED
  BY <1>3, <1>5 DEF IInv, WriterOK, DropsOnlyWhatCannotFit

(***************************************************************************)
(* For every size, word length and block length: the types are right, the  *)
(* indices of the ring agree with its length, now and at the checkpoint    *)
(* restore goes back to, and a frame is dropped only when it cannot fit.   *)
(***************************************************************************)
THEOREM RingCorrect == Spec => [](TypeOK /\ RingConsistent /\ DropsOnlyWhatCannotFit)
<1>1. Init => IInv
  BY IInvInit
<1>2. IInv /\ [Next]_vars => IInv'
  BY IInvStep
<1>3. IInv => TypeOK /\ RingConsistent /\ DropsOnlyWhatCannotFit
  BY DEF IInv, RingOK, WriterOK, TypeOK, RingConsistent
<1> QED
  BY <1>1, <1>2, <1>3, PTL DEF Spec
-----------------------------------------------------------------------------
(* The bytes of the ring, seen from circle_begin *)

(* Distances: from the slot j bytes behind begin to the slot p bytes behind it. *)
LEMMA SlotDistance ==
  ASSUME NEW begin \in Slot, NEW offset \in Slot, NEW p \in 0 .. Size,
         Agree(begin, offset, p), NEW j \in Slot
  PROVE  /\ wrapped_add(begin, j) \in Slot
         /\ p <= j => wrapped_add(wrapped_add(begin, j), Size - offset) = j - p
         /\ j < p => wrapped_add(wrapped_add(begin, j), Size - offset) = j - p + Size
<1>1. /\ Size \in Nat /\ begin \in Nat /\ offset \in Nat /\ p \in Nat /\ j \in Nat
      /\ begin < Size /\ offset < Size /\ p <= Size /\ j < Size
  BY RingAssumption DEF Slot
<1>2. j \in 0 .. Size /\ Size - offset \in 0 .. Size
  BY <1>1
<1> DEFINE i == wrapped_add(begin, j)
<1>3. i \in Slot /\ i = IF begin + j < Size THEN begin + j ELSE begin + j - Size
  BY <1>2, WrappedAdd
<1>4. /\ wrapped_add(i, Size - offset)
           = IF i + (Size - offset) < Size THEN i + (Size - offset)
             ELSE i + (Size - offset) - Size
  BY <1>2, <1>3, WrappedAdd
<1>5. i \in Nat /\ i < Size
  BY <1>3, RingAssumption DEF Slot
<1> HIDE DEF i
<1>6. p <= j => wrapped_add(i, Size - offset) = j - p
  BY <1>1, <1>3, <1>4, <1>5 DEF Agree
<1>7. j < p => wrapped_add(i, Size - offset) = j - p + Size
  BY <1>1, <1>3, <1>4, <1>5 DEF Agree
<1> QED
  BY <1>3, <1>6, <1>7 DEF i

(* What _write_bytes_at_unchecked changes, seen from begin. *)
LEMMA WrittenAt ==
  ASSUME NEW store, NEW begin \in Slot, NEW offset \in Slot, NEW p \in 0 .. Size,
         Agree(begin, offset, p), NEW bytes \in Seq(Byte), p + Len(bytes) <= Size,
         NEW j \in Slot
  PROVE  Written(store, offset, bytes)[wrapped_add(begin, j)]
           = IF p <= j /\ j < p + Len(bytes) THEN bytes[j - p + 1]
             ELSE store[wrapped_add(begin, j)]
<1> DEFINE i == wrapped_add(begin, j)
           d == wrapped_add(i, Size - offset)
<1>1. /\ i \in Slot
      /\ p <= j => d = j - p
      /\ j < p => d = j - p + Size
  BY SlotDistance
<1>2. Written(store, offset, bytes)[i] = IF d < Len(bytes) THEN bytes[d + 1] ELSE store[i]
  BY <1>1 DEF Written
<1>3. Size \in Nat /\ p \in Nat /\ j \in Nat /\ Len(bytes) \in Nat
  BY RingAssumption DEF Slot
<1>4. CASE p <= j
  BY <1>1, <1>2, <1>3, <1>4
<1>5. CASE j < p
  BY <1>1, <1>2, <1>3, <1>5
<1> QED
  BY <1>3, <1>4, <1>5

(* The same, byte by byte, for the storage of the next state. *)
LEMMA CellsWritten ==
  ASSUME NEW begin \in Slot, NEW offset \in Slot, NEW p \in 0 .. Size,
         Agree(begin, offset, p), NEW bytes \in Seq(Byte), p + Len(bytes) <= Size,
         NEW store, NEW new, new = Written(store, offset, bytes)
  PROVE  /\ \A j \in Slot : j < p => new[wrapped_add(begin, j)] = store[wrapped_add(begin, j)]
         /\ \A i \in 1 .. Len(bytes) : new[wrapped_add(begin, p + i - 1)] = bytes[i]
         /\ \A j \in Slot : p + Len(bytes) <= j =>
              new[wrapped_add(begin, j)] = store[wrapped_add(begin, j)]
<1>1. Size \in Nat /\ p \in Nat /\ Len(bytes) \in Nat
  BY RingAssumption
<1>2. \A j \in Slot :
        new[wrapped_add(begin, j)] = IF p <= j /\ j < p + Len(bytes) THEN bytes[j - p + 1]
                                     ELSE store[wrapped_add(begin, j)]
  BY WrittenAt
<1>3. \A j \in Slot : j < p => new[wrapped_add(begin, j)] = store[wrapped_add(begin, j)]
  BY <1>1, <1>2 DEF Slot
<1>4. ASSUME NEW i \in 1 .. Len(bytes)
      PROVE  new[wrapped_add(begin, p + i - 1)] = bytes[i]
  <2>1. p + i - 1 \in Slot /\ p <= p + i - 1 /\ p + i - 1 < p + Len(bytes)
        /\ (p + i - 1) - p + 1 = i
    BY <1>1 DEF Slot
  <2> QED
    BY <1>2, <2>1
<1>5. \A j \in Slot : p + Len(bytes) <= j =>
        new[wrapped_add(begin, j)] = store[wrapped_add(begin, j)]
  BY <1>1, <1>2 DEF Slot
<1> QED
  BY <1>3, <1>4, <1>5

(* The bytes s are in the store, from the slot `from` bytes behind begin on. *)
Holds(store, begin, from, s) ==
  \A i \in 1 .. Len(s) : store[wrapped_add(begin, from + i - 1)] = s[i]

(* Bytes that were written are there. *)
LEMMA WrittenHolds ==
  ASSUME NEW begin \in Slot, NEW offset \in Slot, NEW p \in 0 .. Size,
         Agree(begin, offset, p), NEW bytes \in Seq(Byte), p + Len(bytes) <= Size,
         NEW store, NEW new, new = Written(store, offset, bytes)
  PROVE  Holds(new, begin, p, bytes)
  BY CellsWritten DEF Holds

(* Bytes beside the ones that were written stay. *)
LEMMA HoldsKept ==
  ASSUME NEW begin \in Slot, NEW offset \in Slot, NEW p \in 0 .. Size,
         Agree(begin, offset, p), NEW bytes \in Seq(Byte), p + Len(bytes) <= Size,
         NEW store, NEW new, new = Written(store, offset, bytes),
         NEW from \in Nat, NEW s \in Seq(Byte), from + Len(s) <= Size,
         from + Len(s) <= p \/ p + Len(bytes) <= from,
         Holds(store, begin, from, s)
  PROVE  Holds(new, begin, from, s)
<1> SUFFICES ASSUME NEW i \in 1 .. Len(s)
             PROVE  new[wrapped_add(begin, from + i - 1)] = s[i]
  BY DEF Holds
<1>1. Size \in Nat /\ p \in Nat /\ Len(bytes) \in Nat /\ Len(s) \in Nat
  BY RingAssumption
<1>2. PICK j \in Slot : j = from + i - 1
  BY <1>1 DEF Slot
<1>3. j < p \/ p + Len(bytes) <= j
  BY <1>1, <1>2
<1>4. new[wrapped_add(begin, j)] = store[wrapped_add(begin, j)]
  <2>1. /\ \A k \in Slot : k < p => new[wrapped_add(begin, k)] = store[wrapped_add(begin, k)]
        /\ \A k \in Slot : p + Len(bytes) <= k =>
             new[wrapped_add(begin, k)] = store[wrapped_add(begin, k)]
    BY CellsWritten
  <2> QED
    BY <1>3, <2>1
<1>5. store[wrapped_add(begin, from + i - 1)] = s[i]
  BY DEF Holds
<1> QED
  BY <1>2, <1>4, <1>5

(* Two sequences, one behind the other. *)
LEMMA HoldsConcat ==
  ASSUME NEW store, NEW begin, NEW from \in Nat, NEW s \in Seq(Byte), NEW t \in Seq(Byte),
         NEW next, next = from + Len(s),
         Holds(store, begin, from, s), Holds(store, begin, next, t)
  PROVE  /\ s \o t \in Seq(Byte) /\ Len(s \o t) = Len(s) + Len(t)
         /\ Holds(store, begin, from, s \o t)
<1>1. /\ Len(s) \in Nat /\ Len(t) \in Nat /\ s \o t \in Seq(Byte)
      /\ Len(s \o t) = Len(s) + Len(t)
      /\ \A i \in 1 .. Len(s) : (s \o t)[i] = s[i]
      /\ \A i \in 1 .. Len(t) : (s \o t)[Len(s) + i] = t[i]
  OBVIOUS
<1>2. ASSUME NEW i \in 1 .. Len(s \o t)
      PROVE  store[wrapped_add(begin, from + i - 1)] = (s \o t)[i]
  <2>1. CASE i <= Len(s)
    <3>1. i \in 1 .. Len(s)
      BY <1>1, <2>1
    <3> QED
      BY <1>1, <3>1 DEF Holds
  <2>2. CASE i > Len(s)
    <3> i - Len(s) \in 1 .. Len(t)
      BY <1>1, <2>2
    <3>1. PICK k \in 1 .. Len(t) : k = i - Len(s)
      OBVIOUS
    <3>2. next + k - 1 = from + i - 1 /\ Len(s) + k = i
      BY <1>1, <3>1
    <3>3. store[wrapped_add(begin, next + k - 1)] = t[k] /\ (s \o t)[Len(s) + k] = t[k]
      BY <1>1 DEF Holds
    <3> QED
      BY <3>2, <3>3
  <2> QED
    BY <1>1, <2>1, <2>2
<1> QED
  BY <1>1, <1>2 DEF Holds

(* There is one sequence of each length. *)
LEMMA HoldsUnique ==
  ASSUME NEW store, NEW begin, NEW from, NEW s \in Seq(Byte), NEW t \in Seq(Byte),
         Len(s) = Len(t), Holds(store, begin, from, s), Holds(store, begin, from, t)
  PROVE  s = t
<1>1. \A i \in 1 .. Len(s) : s[i] = t[i]
  BY DEF Holds
<1> QED
  BY <1>1

(***************************************************************************)
(* The frame being written, as far as it is in the ring, and its length    *)
(* word still to come.                                                     *)
(***************************************************************************)
Opening == IF w.phase = "text" THEN "print" ELSE "preamble"

Draft ==
  w.phase # "none" =>
    /\ w.phase # "text" => w.payload <= MaxPayload
    /\ w.ok =>
         /\ w.wanted = 2 * WordLen + w.put
         /\ w.phase = "text" => w.put = w.payload
         /\ w.len_offset = wrapped_add(w.cp.end, WordLen)
         /\ Holds(storage, circle_begin, w.cp.len, Word(Opening, 0))
         /\ Holds(storage, circle_begin, w.cp.len + 2 * WordLen, Body(w.put))

DraftInv == IInv /\ Draft

(* The number of bytes promised. *)
PromisedLen == IF w.phase = "none" THEN circle_len ELSE w.cp.len

(* Numbers in an open writer. *)
LEMMA WriterNumbers ==
  ASSUME IInv, w.phase # "none"
  PROVE  /\ Size \in Nat /\ WordLen \in Nat /\ WordLen > 0 /\ circle_begin \in Slot
         /\ circle_len \in Nat /\ circle_len <= Size
         /\ w.cp.len \in Nat /\ w.cp.len <= circle_len /\ w.cp.end \in Slot
         /\ w.cp.begin = circle_begin /\ Agree(circle_begin, w.cp.end, w.cp.len)
         /\ w \in Writer /\ w.put \in Nat /\ w.wanted \in Nat /\ w.payload \in Nat
         /\ w.ok \in BOOLEAN
         /\ w.ok => w.cp.len + w.wanted = circle_len
<1>1. /\ w \in Writer /\ w.cp \in Checkpoint
      /\ w.put \in Nat /\ w.wanted \in Nat /\ w.payload \in Nat /\ w.ok \in BOOLEAN
  BY DEF IInv, WriterOK, Writer
<1>2. w.cp.len \in 0 .. Size /\ w.cp.end \in Slot
  BY <1>1 DEF Checkpoint
<1> QED
  BY <1>1, <1>2, RingAssumption DEF IInv, RingOK, WriterOK, DropsOnlyWhatCannotFit

(* What is promised is there, at the beginning of the ring. *)
LEMMA PromisedHolds ==
  IInv => /\ Promised \in Seq(Byte) /\ Len(Promised) = PromisedLen
          /\ PromisedLen \in Nat /\ PromisedLen <= Size
          /\ Holds(storage, circle_begin, 0, Promised)
<1> SUFFICES ASSUME IInv
             PROVE  /\ Promised \in Seq(Byte) /\ Len(Promised) = PromisedLen
                    /\ PromisedLen \in Nat /\ PromisedLen <= Size
                    /\ Holds(storage, circle_begin, 0, Promised)
  OBVIOUS
<1>1. PromisedLen \in Nat /\ PromisedLen <= Size /\ Size \in Nat
  BY WriterNumbers, RingAssumption DEF IInv, RingOK, PromisedLen
<1>2. Promised = [i \in 1 .. PromisedLen |-> storage[wrapped_add(circle_begin, i - 1)]]
  BY DEF Promised, PromisedLen
<1>3. ASSUME NEW i \in 1 .. PromisedLen PROVE storage[wrapped_add(circle_begin, i - 1)] \in Byte
  <2>1. i - 1 \in 0 .. Size
    BY <1>1
  <2>2. wrapped_add(circle_begin, i - 1) \in Slot
    BY <2>1, WrappedAdd DEF IInv, RingOK
  <2> QED
    BY <2>2 DEF IInv, RingOK
<1>4. Promised \in [1 .. PromisedLen -> Byte]
  BY <1>2, <1>3
<1>5. Promised \in Seq(Byte) /\ Len(Promised) = PromisedLen
  BY <1>1, <1>4
<1>6. \A i \in 1 .. PromisedLen :
        /\ storage[wrapped_add(circle_begin, i - 1)] = Promised[i]
        /\ 0 + i - 1 = i - 1
  BY <1>1, <1>2
<1>7. Holds(storage, circle_begin, 0, Promised)
  BY <1>5, <1>6 DEF Holds
<1> QED
  BY <1>1, <1>5, <1>7

(* And nothing else is. *)
LEMMA PromisedIs ==
  ASSUME IInv', NEW t \in Seq(Byte), Len(t) = PromisedLen',
         Holds(storage', circle_begin', 0, t)
  PROVE  Promised' = t
<1>1. (IInv => /\ Promised \in Seq(Byte) /\ Len(Promised) = PromisedLen
               /\ Holds(storage, circle_begin, 0, Promised))'
  BY PromisedHolds, PTL
<1>2. /\ Promised' \in Seq(Byte) /\ Len(Promised') = Len(t)
      /\ Holds(storage', circle_begin', 0, Promised')
  BY <1>1 DEF Holds, wrapped_add
<1>3. PICK s \in Seq(Byte) : s = Promised'
  BY <1>2
<1> QED
  BY <1>2, <1>3, HoldsUnique
(* A sequence that continues another one with f is their concatenation. *)
LEMMA Continues ==
  ASSUME NEW s \in Seq(Byte), NEW f \in Seq(Byte), NEW t \in Seq(Byte),
         Len(t) = Len(s) + Len(f),
         \A i \in 1 .. Len(s) : t[i] = s[i],
         \A i \in 1 .. Len(f) : t[Len(s) + i] = f[i]
  PROVE  t = s \o f
<1>1. /\ Len(s) \in Nat /\ Len(f) \in Nat /\ s \o f \in Seq(Byte)
      /\ Len(s \o f) = Len(s) + Len(f)
      /\ \A i \in 1 .. Len(s) : (s \o f)[i] = s[i]
      /\ \A i \in 1 .. Len(f) : (s \o f)[Len(s) + i] = f[i]
  OBVIOUS
<1>2. ASSUME NEW i \in 1 .. Len(t)
      PROVE  t[i] = (s \o f)[i]
  <2>1. CASE i <= Len(s)
    BY <1>1, <2>1
  <2>2. CASE i > Len(s)
    <3>1. i - Len(s) \in 1 .. Len(f) /\ Len(s) + (i - Len(s)) = i
      BY <1>1, <2>2
    <3> QED
      BY <1>1, <3>1
  <2> QED
    BY <1>1, <2>1, <2>2
<1> QED
  BY <1>1, <1>2

(* The body of a frame is a sequence of bytes, and grows by NextBytes. *)
LEMMA BodyGrows ==
  ASSUME w \in Writer, NEW k \in Nat
  PROVE  /\ Body(w.put) \in Seq(Byte) /\ Len(Body(w.put)) = w.put
         /\ Body(w.put + k) \in Seq(Byte) /\ Len(Body(w.put + k)) = w.put + k
         /\ Body(w.put + k) = Body(w.put) \o NextBytes(k)
<1>1. w.put \in Nat
  BY DEF Writer
<1>2. ASSUME NEW n \in Nat
      PROVE  Body(n) \in Seq(Byte) /\ Len(Body(n)) = n
  <2>1. \A i \in 1 .. n : <<"body", 0, i>> \in Byte
    BY DEF Byte
  <2> QED
    BY <2>1 DEF Body
<1>3. NextBytes(k) \in Seq(Byte) /\ Len(NextBytes(k)) = k
  BY BodyType
<1>4. PICK n \in Nat : n = w.put
  BY <1>1
<1>5. PICK s \in Seq(Byte) : s = Body(n)
  BY <1>2
<1>6. PICK t \in Seq(Byte) : t = NextBytes(k)
  BY <1>3
<1>7. PICK u \in Seq(Byte) : u = Body(n + k)
  BY <1>2
<1>8. /\ Len(s) = n /\ Len(t) = k /\ Len(u) = n + k
      /\ \A i \in 1 .. n : s[i] = <<"body", 0, i>>
      /\ \A i \in 1 .. n + k : u[i] = <<"body", 0, i>>
      /\ \A i \in 1 .. k : t[i] = <<"body", 0, n + i>>
  <2>1. Len(s) = n /\ Len(t) = k /\ Len(u) = n + k
    BY <1>2, <1>3, <1>5, <1>6, <1>7
  <2> QED
    BY <1>4, <1>5, <1>6, <1>7, <2>1, Zenon DEF Body, NextBytes
<1>9. \A i \in 1 .. Len(s) : u[i] = s[i]
  <2>1. \A i \in 1 .. n : i \in 1 .. n + k
    OBVIOUS
  <2> QED
    BY <1>8, <2>1, Zenon
<1>10. \A i \in 1 .. Len(t) : u[Len(s) + i] = t[i]
  <2>1. \A i \in 1 .. k : n + i \in 1 .. n + k
    OBVIOUS
  <2> QED
    BY <1>8, <2>1, Zenon
<1>11. Len(u) = Len(s) + Len(t)
  BY <1>8
<1>12. u = s \o t
  BY <1>9, <1>10, <1>11, Continues
<1>13. /\ Body(n) \in Seq(Byte) /\ Len(Body(n)) = n
       /\ Body(n + k) \in Seq(Byte) /\ Len(Body(n + k)) = n + k
  BY <1>2
<1> QED
  BY <1>4, <1>5, <1>6, <1>7, <1>12, <1>13, Zenon

(* The opening word. *)
LEMMA OpeningType ==
  Word(Opening, 0) \in Seq(Byte) /\ Len(Word(Opening, 0)) = WordLen
  BY WordType DEF Opening

(* Writing the next bytes at circle_end extends the draft. *)
LEMMA DraftGrows ==
  ASSUME IInv, Draft, w.phase # "none", w.ok, NEW k \in Nat, k <= remaining_space,
         NEW new, new = Written(storage, circle_end, NextBytes(k))
  PROVE  /\ Holds(new, circle_begin, 0, Promised)
         /\ Holds(new, circle_begin, w.cp.len, Word(Opening, 0))
         /\ Holds(new, circle_begin, w.cp.len + 2 * WordLen, Body(w.put + k))
         /\ w.cp.len + 2 * WordLen + (w.put + k) = circle_len + k
         /\ circle_len + k <= Size
<1>1. /\ Size \in Nat /\ WordLen \in Nat /\ WordLen > 0 /\ w.cp.len \in Nat
      /\ circle_len \in Nat /\ w.put \in Nat /\ w \in Writer
      /\ w.cp.len + 2 * WordLen + w.put = circle_len /\ circle_len + k <= Size
  BY WriterNumbers DEF Draft, remaining_space
<1>2. PICK b \in Seq(Byte) : b = NextBytes(k) /\ Len(b) = k
  BY <1>1, BodyType
<1>3. PICK p \in 0 .. Size : p = circle_len
  BY <1>1
<1>4. /\ circle_begin \in Slot /\ circle_end \in Slot /\ Agree(circle_begin, circle_end, p)
      /\ p + Len(b) <= Size /\ new = Written(storage, circle_end, b)
  BY <1>1, <1>2, <1>3 DEF IInv, RingOK
<1>5. ASSUME NEW from \in Nat, NEW s \in Seq(Byte), from + Len(s) <= p,
             Holds(storage, circle_begin, from, s)
      PROVE  Holds(new, circle_begin, from, s)
  <2>1. from + Len(s) <= Size
    BY <1>1, <1>3, <1>5
  <2> QED
    BY <1>4, <1>5, <2>1, HoldsKept
<1>6. Holds(new, circle_begin, 0, Promised)
  <2>1. PICK s \in Seq(Byte) : s = Promised /\ Len(s) = w.cp.len
                               /\ Holds(storage, circle_begin, 0, s)
    BY PromisedHolds DEF PromisedLen
  <2>2. 0 \in Nat /\ 0 + Len(s) <= p
    BY <1>1, <1>3, <2>1
  <2> QED
    BY <1>5, <2>1, <2>2
<1>7. Holds(new, circle_begin, w.cp.len, Word(Opening, 0))
  <2>1. PICK s \in Seq(Byte) : s = Word(Opening, 0) /\ Len(s) = WordLen
    BY OpeningType
  <2>2. PICK from \in Nat : from = w.cp.len
    BY <1>1
  <2>3. from + Len(s) <= p /\ Holds(storage, circle_begin, from, s)
    BY <1>1, <1>3, <2>1, <2>2 DEF Draft
  <2> QED
    BY <1>5, <2>1, <2>2, <2>3
<1>8. Holds(new, circle_begin, w.cp.len + 2 * WordLen, Body(w.put + k))
  <2>1. PICK s \in Seq(Byte) : s = Body(w.put) /\ Len(s) = w.put
                               /\ Body(w.put + k) = s \o b
    BY <1>1, <1>2, BodyGrows
  <2>2. PICK from \in Nat : from = w.cp.len + 2 * WordLen
    BY <1>1
  <2>3. from + Len(s) <= p /\ Holds(storage, circle_begin, from, s)
    BY <1>1, <1>3, <2>1, <2>2 DEF Draft
  <2>4. Holds(new, circle_begin, from, s)
    BY <1>5, <2>3
  <2>5. Holds(new, circle_begin, p, b)
    BY <1>4, WrittenHolds
  <2>6. p = from + Len(s)
    BY <1>1, <1>3, <2>1, <2>2
  <2>7. Holds(new, circle_begin, from, s \o b)
    BY <2>4, <2>5, <2>6, HoldsConcat
  <2> QED
    BY <2>1, <2>2, <2>7
<1> QED
  BY <1>1, <1>6, <1>7, <1>8
(* A step of an open writer that leaves the ring alone. *)
LEMMA DraftUnchanged ==
  ASSUME IInv, IInv', Draft, UNCHANGED ring, w.phase # "none", w'.phase # "none",
         w'.cp = w.cp, w'.phase = "text" <=> w.phase = "text",
         w'.phase # "text" => w'.payload <= MaxPayload,
         w'.ok => /\ w.ok /\ w'.wanted = w.wanted /\ w'.put = w.put
                  /\ w'.len_offset = w.len_offset /\ (w.phase = "text" => w'.payload = w.payload)
  PROVE  Draft' /\ Promised' = Promised
<1>1. storage' = storage /\ circle_begin' = circle_begin /\ Opening' = Opening
  BY DEF ring, Opening
<1>2. Draft'
  BY <1>1 DEF Draft, Holds, Word, Body, wrapped_add
<1>3. PICK t \in Seq(Byte) : t = Promised /\ Len(t) = PromisedLen
                             /\ Holds(storage, circle_begin, 0, t)
  BY PromisedHolds
<1>4. PromisedLen' = PromisedLen
  BY DEF PromisedLen
<1>5. Len(t) = PromisedLen' /\ Holds(storage', circle_begin', 0, t)
  BY <1>1, <1>3, <1>4
<1>6. Promised' = t
  BY <1>5, PromisedIs
<1> QED
  BY <1>2, <1>3, <1>6

(* A step of an open writer that appends k bytes. *)
LEMMA DraftExtended ==
  ASSUME IInv, IInv', Draft, w.phase # "none", w.ok, NEW k \in Nat, Extend(NextBytes(k)),
         w'.phase # "none", w'.cp = w.cp, w'.phase = "text" <=> w.phase = "text",
         w'.phase # "text" => w'.payload <= MaxPayload,
         w'.phase = "text" => w'.payload = w.payload + k,
         w'.wanted = w.wanted + k, w'.put = w.put + k, w'.len_offset = w.len_offset
  PROVE  Draft' /\ Promised' = Promised
<1>1. /\ WordLen \in Nat /\ w.put \in Nat /\ w.wanted \in Nat /\ w \in Writer
  BY WriterNumbers
<1>2. /\ k <= remaining_space /\ storage' = Written(storage, circle_end, NextBytes(k))
      /\ circle_begin' = circle_begin /\ Opening' = Opening
  BY <1>1, BodyType DEF Extend, Opening
<1>3. /\ Holds(storage', circle_begin, 0, Promised)
      /\ Holds(storage', circle_begin, w.cp.len, Word(Opening, 0))
      /\ Holds(storage', circle_begin, w.cp.len + 2 * WordLen, Body(w.put + k))
  BY <1>2, DraftGrows, Zenon
<1>4. /\ w'.wanted = 2 * WordLen + w'.put
      /\ w'.phase = "text" => w'.put = w'.payload
      /\ w'.len_offset = wrapped_add(w'.cp.end, WordLen)
  BY <1>1 DEF Draft
<1>5. /\ Holds(storage', circle_begin', w'.cp.len, Word(Opening', 0))
      /\ Holds(storage', circle_begin', w'.cp.len + 2 * WordLen, Body(w'.put))
  BY <1>2, <1>3
<1>6. Draft'
  BY <1>4, <1>5 DEF Draft, Holds, Word, Body, wrapped_add
<1>7. PICK t \in Seq(Byte) : t = Promised /\ Len(t) = PromisedLen
  BY PromisedHolds
<1>8. PromisedLen' = PromisedLen
  BY DEF PromisedLen
<1>9. Len(t) = PromisedLen' /\ Holds(storage', circle_begin', 0, t)
  BY <1>2, <1>3, <1>7, <1>8
<1>10. Promised' = t
  BY <1>9, PromisedIs
<1> QED
  BY <1>6, <1>7, <1>10

(* A byte through the encoder keeps the draft and what is promised. *)
LEMMA AddByteDraft ==
  ASSUME IInv, IInv', Draft, NEW zero \in BOOLEAN, NEW after \in Writer,
         w.phase \notin {"none", "text"}, after.phase \in {"type", "payload", "crc"},
         after.cp = w.cp, after.ok = w.ok, after.wanted = w.wanted, after.put = w.put,
         after.len_offset = w.len_offset, after.payload <= MaxPayload,
         AddByte(zero, after)
  PROVE  Draft' /\ Promised' = Promised
<1> DEFINE k == BlockLen(zero)
<1>1. k \in Nat
  BY RingAssumption DEF IInv, WriterOK, Writer, BlockLen
<1>2. CASE ~w.ok /\ UNCHANGED ring /\ w' = after
  BY <1>2, DraftUnchanged
<1>3. CASE w.ok /\ UNCHANGED ring /\ w' = [after EXCEPT !.cursor = w.cursor + 1]
  <2>1. /\ w'.phase = after.phase /\ w'.cp = w.cp /\ w'.ok = w.ok /\ w'.wanted = w.wanted
        /\ w'.put = w.put /\ w'.len_offset = w.len_offset /\ w'.payload = after.payload
    BY <1>3 DEF Writer
  <2> QED
    BY <1>3, <2>1, DraftUnchanged
<1>4. CASE /\ w.ok /\ Extend(NextBytes(k))
           /\ w' = [after EXCEPT !.cursor = 1, !.put = w.put + k, !.wanted = w.wanted + k]
  <2>1. /\ w'.phase = after.phase /\ w'.cp = w.cp /\ w'.wanted = w.wanted + k
        /\ w'.put = w.put + k /\ w'.len_offset = w.len_offset /\ w'.payload = after.payload
    BY <1>4 DEF Writer
  <2> QED
    BY <1>1, <1>4, <2>1, DraftExtended
<1>5. CASE /\ UNCHANGED ring
           /\ w' = [after EXCEPT !.cursor = 1, !.ok = FALSE, !.wanted = w.wanted + k]
  <2>1. /\ w'.phase = after.phase /\ w'.cp = w.cp /\ w'.ok = FALSE
        /\ w'.payload = after.payload
    BY <1>5 DEF Writer
  <2> QED
    BY <1>5, <2>1, DraftUnchanged
<1> QED
  BY <1>2, <1>3, <1>4, <1>5, Zenon DEF AddByte

(* The bytes of a message. *)
LEMMA FrameByteDraft ==
  ASSUME IInv, IInv', Draft, NEW zero \in BOOLEAN,
         TypeByte(zero) \/ PayloadByte(zero) \/ CrcByte(zero)
  PROVE  Draft' /\ Promised' = Promised
<1>1. /\ w \in Writer /\ w.todo \in 0 .. WordLen /\ w.payload \in Nat /\ WordLen \in Nat
      /\ w.phase = "type" => w.todo > 0
      /\ MaxPayload \in Nat
  BY RingAssumption DEF IInv, WriterOK, Writer
<1>2. CASE TypeByte(zero)
  <2> DEFINE after == [w EXCEPT !.todo = w.todo - 1,
                                !.phase = IF w.todo = 1 THEN "payload" ELSE "type"]
  <2>1. w.phase = "type" /\ AddByte(zero, after)
    BY <1>2, Zenon DEF TypeByte
  <2>2. w.todo - 1 \in 0 .. WordLen
    BY <1>1, <2>1
  <2>3. after \in Writer
    BY <1>1, <2>2 DEF Writer
  <2>4. /\ after.phase \in {"type", "payload", "crc"}
        /\ after.cp = w.cp /\ after.ok = w.ok /\ after.wanted = w.wanted
        /\ after.put = w.put /\ after.len_offset = w.len_offset /\ after.payload = w.payload
    BY <1>1 DEF Writer
  <2>5. w.payload <= MaxPayload
    BY <2>1 DEF Draft
  <2> QED
    BY <2>1, <2>3, <2>4, <2>5, AddByteDraft
<1>3. CASE PayloadByte(zero)
  <2> DEFINE after == [w EXCEPT !.payload = w.payload + 1]
  <2>1. w.phase = "payload" /\ w.payload < MaxPayload /\ AddByte(zero, after)
    BY <1>3, Zenon DEF PayloadByte
  <2>2. after \in Writer
    BY <1>1 DEF Writer
  <2>3. /\ after.phase = "payload"
        /\ after.cp = w.cp /\ after.ok = w.ok /\ after.wanted = w.wanted
        /\ after.put = w.put /\ after.len_offset = w.len_offset
        /\ after.payload = w.payload + 1
    BY <1>1, <2>1 DEF Writer
  <2>4. after.payload <= MaxPayload
    BY <1>1, <2>1, <2>3
  <2> QED
    BY <2>1, <2>2, <2>3, <2>4, AddByteDraft
<1>4. CASE CrcByte(zero)
  <2> DEFINE after == [w EXCEPT !.todo = w.todo - 1]
  <2>1. w.phase = "crc" /\ w.todo > 0 /\ AddByte(zero, after)
    BY <1>4, Zenon DEF CrcByte
  <2>2. after \in Writer
    BY <1>1, <2>1 DEF Writer
  <2>3. /\ after.phase = "crc"
        /\ after.cp = w.cp /\ after.ok = w.ok /\ after.wanted = w.wanted
        /\ after.put = w.put /\ after.len_offset = w.len_offset /\ after.payload = w.payload
    BY <1>1, <2>1 DEF Writer
  <2>4. w.payload <= MaxPayload
    BY <2>1 DEF Draft
  <2> QED
    BY <2>1, <2>2, <2>3, <2>4, AddByteDraft
<1> QED
  BY <1>2, <1>3, <1>4

(* finalize begins. *)
LEMMA BeginCrcDraft ==
  ASSUME IInv, IInv', Draft, BeginCrc
  PROVE  Draft' /\ Promised' = Promised
<1>1. /\ w \in Writer /\ w.phase = "payload" /\ UNCHANGED ring
      /\ w' = [w EXCEPT !.phase = "crc", !.todo = WordLen]
  BY DEF IInv, WriterOK, BeginCrc
<1>2. /\ w'.phase = "crc" /\ w'.cp = w.cp /\ w'.ok = w.ok /\ w'.wanted = w.wanted
      /\ w'.put = w.put /\ w'.len_offset = w.len_offset /\ w'.payload = w.payload
  BY <1>1 DEF Writer
<1>3. w.payload <= MaxPayload
  BY <1>1 DEF Draft
<1> QED
  BY <1>1, <1>2, <1>3, DraftUnchanged

(* A piece of a text. *)
LEMMA WriteStrDraft ==
  ASSUME IInv, IInv', Draft, NEW k \in 1 .. MaxText, WriteStr(k)
  PROVE  Draft' /\ Promised' = Promised
<1>1. w \in Writer /\ k \in Nat /\ w.phase = "text"
  BY RingAssumption DEF IInv, WriterOK, WriteStr
<1>2. CASE /\ w.ok /\ Extend(NextBytes(k))
           /\ w' = [w EXCEPT !.payload = w.payload + k, !.put = w.put + k,
                             !.wanted = w.wanted + k]
  <2>1. /\ w'.phase = "text" /\ w'.cp = w.cp /\ w'.wanted = w.wanted + k
        /\ w'.put = w.put + k /\ w'.len_offset = w.len_offset
        /\ w'.payload = w.payload + k
    BY <1>1, <1>2 DEF Writer
  <2> QED
    BY <1>1, <1>2, <2>1, DraftExtended
<1>3. CASE /\ w' = [w EXCEPT !.payload = w.payload + k, !.ok = FALSE,
                             !.wanted = w.wanted + k]
           /\ UNCHANGED ring
  <2>1. w'.phase = "text" /\ w'.cp = w.cp /\ w'.ok = FALSE
    BY <1>1, <1>3 DEF Writer
  <2> QED
    BY <1>1, <1>3, <2>1, DraftUnchanged
<1>4. CASE ~w.ok /\ w' = [w EXCEPT !.payload = w.payload + k] /\ UNCHANGED ring
  <2>1. w'.phase = "text" /\ w'.cp = w.cp /\ w'.ok = w.ok
    BY <1>1, <1>4 DEF Writer
  <2> QED
    BY <1>1, <1>4, <2>1, DraftUnchanged
<1> QED
  BY <1>2, <1>3, <1>4, Zenon DEF WriteStr
(* Opening a writer: what was in the ring stays promised. *)
LEMMA OpenDraft ==
  ASSUME IInv, IInv', NEW what \in {"preamble", "print"}, NEW phase \in {"type", "text"},
         what = (IF phase = "text" THEN "print" ELSE "preamble"), Open(what, phase)
  PROVE  Draft' /\ Promised' = Promised
<1> DEFINE offset == IF HeaderFits THEN wrapped_add(circle_end, WordLen) ELSE 0
           todo   == IF phase = "type" THEN WordLen ELSE 0
           wanted == IF WordFits THEN 2 * WordLen ELSE WordLen
<1>1. /\ Size \in Nat /\ WordLen \in Nat /\ WordLen > 0 /\ MaxPayload \in Nat
      /\ circle_len \in Nat /\ circle_len <= Size
      /\ circle_begin \in Slot /\ circle_end \in Slot
      /\ Agree(circle_begin, circle_end, circle_len)
  BY RingAssumption DEF IInv, RingOK
<1>2. w.phase = "none" /\ w' = [NoWriter EXCEPT !.phase = phase, !.ok = HeaderFits,
        !.cp = Here, !.len_offset = offset, !.todo = todo, !.wanted = wanted]
  BY Zenon DEF Open
<1>3. /\ w'.phase = phase /\ w'.ok = HeaderFits /\ w'.cp.len = circle_len
      /\ w'.cp.end = circle_end /\ w'.wanted = wanted /\ w'.payload = 0 /\ w'.put = 0
      /\ w'.len_offset = offset
  BY <1>2 DEF NoWriter, Here
<1>4. PICK b \in Seq(Byte) : b = Word(what, 0) /\ Len(b) = WordLen
  BY WordType
<1>5. PICK t \in Seq(Byte) : t = Promised /\ Len(t) = circle_len
                             /\ Holds(storage, circle_begin, 0, t)
  BY <1>2, PromisedHolds DEF PromisedLen
<1>6. PICK p \in 0 .. Size : p = circle_len
  BY <1>1
<1>7. HeaderFits => WordFits /\ circle_len + WordLen <= Size
  BY <1>1 DEF HeaderFits, WordFits, remaining_space
<1>8. /\ circle_begin' = circle_begin
      /\ Holds(storage', circle_begin, 0, t)
      /\ HeaderFits => Holds(storage', circle_begin, p, b)
  <2>1. CASE UNCHANGED ring /\ ~WordFits
    BY <1>5, <1>7, <2>1 DEF ring
  <2>2. CASE /\ storage' = Written(storage, circle_end, Word(what, 0))
             /\ circle_begin' = circle_begin /\ circle_len + WordLen <= Size
    <3>1. /\ Agree(circle_begin, circle_end, p) /\ p + Len(b) <= Size
          /\ storage' = Written(storage, circle_end, b)
      BY <1>1, <1>4, <1>6, <2>2
    <3>2. Holds(storage', circle_begin, p, b)
      BY <1>1, <3>1, WrittenHolds
    <3>3. 0 \in Nat /\ 0 + Len(t) <= Size /\ 0 + Len(t) <= p
      BY <1>1, <1>5, <1>6
    <3>4. Holds(storage', circle_begin, 0, t)
      BY <1>1, <1>5, <3>1, <3>3, HoldsKept
    <3> QED
      BY <2>2, <3>2, <3>4
  <2>3. CASE HeaderFits /\ storage' = Written(storage, circle_end, Word(what, 0))
                        /\ UNCHANGED circle_begin
    BY <1>7, <2>2, <2>3
  <2>4. CASE Extend(Word(what, 0))
    <3>1. Len(Word(what, 0)) = WordLen
      BY <1>4
    <3>2. circle_len + WordLen <= Size
      BY <1>1, <2>4, <3>1 DEF Extend, remaining_space
    <3> QED
      BY <2>2, <2>4, <3>2 DEF Extend
  <2> QED
    BY <2>1, <2>3, <2>4, Zenon DEF Open
<1>9. PromisedLen' = circle_len
  BY <1>3 DEF PromisedLen
<1>10. Promised' = Promised
  <2>1. Len(t) = PromisedLen' /\ Holds(storage', circle_begin', 0, t)
    BY <1>5, <1>8, <1>9
  <2>2. Promised' = t
    BY <2>1, PromisedIs
  <2> QED
    BY <1>5, <2>2
<1>11. Draft'
  <2>1. HeaderFits => wanted = 2 * WordLen + 0 /\ offset = wrapped_add(circle_end, WordLen)
    BY <1>1, <1>7
  <2>2. HeaderFits => Holds(storage', circle_begin', w'.cp.len, Word(Opening', 0))
    BY <1>3, <1>4, <1>6, <1>8 DEF Opening
  <2>3. \A n : Holds(storage', circle_begin', n, Body(0))
    <3>1. Body(0) = << >> /\ Len(<< >>) = 0
      BY DEF Body
    <3> QED
      BY <3>1 DEF Holds
  <2>4. w'.payload <= MaxPayload
    BY <1>1, <1>3
  <2>5. CASE ~HeaderFits
    BY <1>3, <2>4, <2>5 DEF Draft
  <2>6. CASE HeaderFits
    <3>1. /\ w'.wanted = 2 * WordLen + w'.put
          /\ w'.put = w'.payload
          /\ w'.len_offset = wrapped_add(w'.cp.end, WordLen)
      BY <1>3, <2>1, <2>6
    <3>2. /\ Holds(storage', circle_begin', w'.cp.len, Word(Opening', 0))
          /\ Holds(storage', circle_begin', w'.cp.len + 2 * WordLen, Body(w'.put))
      BY <1>3, <2>2, <2>3, <2>6
    <3> QED
      BY <2>4, <3>1, <3>2 DEF Draft, Holds, Word, Body, wrapped_add
  <2> QED
    BY <2>5, <2>6
<1> QED
  BY <1>10, <1>11

(* restore: what was promised before the frame is what is left. *)
LEMMA RestorePromise ==
  ASSUME IInv, IInv', w.phase # "none", restore(w.cp), w' = NoWriter
  PROVE  Draft' /\ Promised' = Promised
<1> DEFINE k == bytes_since_checkpoint(w.cp)
<1>1. /\ Size \in Nat /\ circle_len \in Nat /\ circle_len <= Size
      /\ w.cp.len \in Nat /\ w.cp.len <= circle_len /\ w.cp.end \in Slot
      /\ w.cp.begin = circle_begin /\ Agree(circle_begin, w.cp.end, w.cp.len)
      /\ circle_begin \in Slot /\ w.cp \in Checkpoint
  BY WriterNumbers DEF Writer
<1>2. k \in Nat /\ (circle_len - w.cp.len < Size => k = circle_len - w.cp.len)
  BY <1>1, BytesSince DEF IInv
<1>3. w.cp.len + k <= Size
  <2>1. CASE circle_len - w.cp.len < Size
    BY <1>1, <1>2, <2>1
  <2>2. CASE ~(circle_len - w.cp.len < Size)
    <3>1. w.cp.len = 0 /\ circle_len = Size
      BY <1>1, <2>2
    <3>2. w.cp.end = circle_begin /\ circle_end = circle_begin
      BY <1>1, <3>1 DEF IInv, RingOK, Agree, Slot
    <3>3. k = 0
      BY <1>1, <3>2 DEF bytes_since_checkpoint, Slot
    <3> QED
      BY <1>1, <3>1, <3>3
  <2> QED
    BY <2>1, <2>2
<1>4. PICK b \in Seq(Byte) : b = [i \in 1 .. k |-> Zero] /\ Len(b) = k
  BY <1>2, ZerosType
<1>5. PICK p \in 0 .. Size : p = w.cp.len
  BY <1>1
<1>6. PICK offset \in Slot : offset = w.cp.end
  BY <1>1
<1>7. PICK t \in Seq(Byte) : t = Promised /\ Len(t) = p /\ Holds(storage, circle_begin, 0, t)
  BY <1>5, PromisedHolds DEF PromisedLen
<1>8. /\ Agree(circle_begin, offset, p) /\ p + Len(b) <= Size
      /\ storage' = Written(storage, offset, b)
      /\ circle_begin' = circle_begin /\ circle_len' = p
  BY <1>1, <1>3, <1>4, <1>5, <1>6 DEF restore
<1>9. 0 \in Nat /\ 0 + Len(t) <= Size /\ 0 + Len(t) <= p
  BY <1>1, <1>7
<1>10. Holds(storage', circle_begin, 0, t)
  BY <1>1, <1>7, <1>8, <1>9, HoldsKept
<1>11. w'.phase = "none"
  BY DEF NoWriter
<1>12. Len(t) = PromisedLen' /\ Holds(storage', circle_begin', 0, t)
  BY <1>7, <1>8, <1>10, <1>11 DEF PromisedLen
<1>13. Promised' = t
  BY <1>12, PromisedIs
<1> QED
  BY <1>7, <1>11, <1>13 DEF Draft
(* The room that was reserved for the length word. *)
LEMMA LengthSlot ==
  ASSUME NEW begin \in Slot, NEW end \in Slot, NEW len \in Nat, Agree(begin, end, len),
         len + 2 * WordLen <= Size
  PROVE  /\ wrapped_add(end, WordLen) \in Slot /\ len + WordLen \in 0 .. Size
         /\ Agree(begin, wrapped_add(end, WordLen), len + WordLen)
<1>1. Size \in Nat /\ WordLen \in Nat /\ WordLen > 0
  BY RingAssumption
<1>2. WordLen \in 0 .. Size
  BY <1>1
<1>3. /\ wrapped_add(end, WordLen) \in Slot
      /\ wrapped_add(end, WordLen) = IF end + WordLen < Size THEN end + WordLen
                                     ELSE end + WordLen - Size
  BY <1>2, WrappedAdd
<1> QED
  BY <1>1, <1>3 DEF Agree, Slot

(* A complete draft whose length word is written becomes one more frame. *)
LEMMA FrameComplete ==
  ASSUME IInv, IInv', w.phase # "none", w'.phase = "none",
         NEW what \in {"preamble", "print"}, NEW n \in Nat, NEW m \in Nat, NEW mid,
         w.len_offset = wrapped_add(w.cp.end, WordLen),
         w.cp.len + 2 * WordLen + m <= Size,
         Holds(mid, circle_begin, 0, Promised),
         Holds(mid, circle_begin, w.cp.len, Word(what, 0)),
         Holds(mid, circle_begin, w.cp.len + 2 * WordLen, Body(m)),
         storage' = Written(mid, w.len_offset, Word("length", n)),
         circle_begin' = circle_begin, circle_len' = w.cp.len + 2 * WordLen + m
  PROVE  Promised' = Promised \o (Word(what, 0) \o Word("length", n) \o Body(m))
<1>1. /\ Size \in Nat /\ WordLen \in Nat /\ WordLen > 0 /\ circle_begin \in Slot
      /\ w.cp.len \in Nat /\ w.cp.end \in Slot /\ Agree(circle_begin, w.cp.end, w.cp.len)
  BY WriterNumbers
<1>2. PICK len \in Nat : len = w.cp.len
  BY <1>1
<1>3. PICK a \in Seq(Byte) : a = Word(what, 0) /\ Len(a) = WordLen
  BY WordType
<1>4. PICK b \in Seq(Byte) : b = Word("length", n) /\ Len(b) = WordLen
  BY WordType
<1>5. PICK c \in Seq(Byte) : c = Body(m) /\ Len(c) = m
  <2>1. \A i \in 1 .. m : <<"body", 0, i>> \in Byte
    BY DEF Byte
  <2>2. Body(m) \in Seq(Byte) /\ Len(Body(m)) = m
    BY <2>1 DEF Body
  <2> QED
    BY <2>2
<1>6. PICK s \in Seq(Byte) : s = Promised /\ Len(s) = len
  BY <1>2, PromisedHolds DEF PromisedLen
<1>7. PICK offset \in Slot : offset = w.len_offset
  BY <1>1, <1>2, LengthSlot
<1> DEFINE Numbers == /\ Size \in Nat /\ WordLen \in Nat /\ len + 2 * WordLen + m <= Size
                      /\ Len(a) = WordLen /\ Len(b) = WordLen /\ Len(c) = m /\ Len(s) = len
<1>n. Numbers
  BY <1>1, <1>2, <1>3, <1>4, <1>5, <1>6
<1>8. PICK p \in 0 .. Size : p = len + WordLen
  <2>1. len + WordLen \in 0 .. Size
    BY <1>n
  <2> QED
    BY <2>1
<1>9. Agree(circle_begin, offset, p) /\ p + Len(b) <= Size
  <2>1. len + 2 * WordLen <= Size /\ Agree(circle_begin, w.cp.end, len)
    BY <1>1, <1>2
  <2>2. Agree(circle_begin, wrapped_add(w.cp.end, WordLen), len + WordLen)
    BY <1>1, <2>1, LengthSlot
  <2> QED
    BY <1>1, <1>4, <1>7, <1>8, <2>1, <2>2
<1>10. storage' = Written(mid, offset, b)
  BY <1>4, <1>7
<1>11. ASSUME NEW from \in Nat, NEW t \in Seq(Byte), from + Len(t) <= Size,
              from + Len(t) <= p \/ p + Len(b) <= from, Holds(mid, circle_begin, from, t)
       PROVE  Holds(storage', circle_begin, from, t)
  BY <1>1, <1>9, <1>10, <1>11, HoldsKept
<1>12. Holds(storage', circle_begin, 0, s)
  <2>1. 0 \in Nat /\ 0 + Len(s) <= p /\ 0 + Len(s) <= Size
    BY <1>n, <1>8
  <2> QED
    BY <1>6, <1>11, <2>1
<1>13. Holds(storage', circle_begin, len, a)
  <2>1. len + Len(a) <= p /\ len + Len(a) <= Size
    BY <1>1, <1>2, <1>3, <1>8
  <2>2. Holds(mid, circle_begin, len, a)
    BY <1>2, <1>3
  <2> QED
    BY <1>11, <2>1, <2>2
<1>14. Holds(storage', circle_begin, p, b)
  BY <1>1, <1>9, <1>10, WrittenHolds
<1>15. PICK q \in Nat : q = len + 2 * WordLen
  BY <1>1
<1>16. Holds(storage', circle_begin, q, c)
  <2>1. p + Len(b) <= q /\ q + Len(c) <= Size
    BY <1>n, <1>8, <1>15
  <2>2. Holds(mid, circle_begin, q, c)
    BY <1>2, <1>5, <1>15
  <2> QED
    BY <1>11, <2>1, <2>2
<1>17. PICK ab \in Seq(Byte) : ab = a \o b /\ Len(ab) = Len(a) + Len(b)
                               /\ Holds(storage', circle_begin, len, ab)
  <2>1. p = len + Len(a)
    BY <1>3, <1>8
  <2> QED
    BY <1>13, <1>14, <2>1, HoldsConcat
<1>18. PICK f \in Seq(Byte) : f = ab \o c /\ Len(f) = Len(ab) + Len(c)
                              /\ Holds(storage', circle_begin, len, f)
  <2>1. q = len + Len(ab)
    <3>1. Len(ab) = Len(a) + Len(b)
      BY <1>17
    <3> QED
      BY <1>n, <1>15, <3>1
  <2> QED
    BY <1>16, <1>17, <2>1, HoldsConcat
<1>19. PICK t \in Seq(Byte) : t = s \o f /\ Len(t) = Len(s) + Len(f)
                              /\ Holds(storage', circle_begin, 0, t)
  <2>1. 0 \in Nat /\ len = 0 + Len(s)
    BY <1>6
  <2> QED
    BY <1>12, <1>18, <2>1, HoldsConcat
<1>20. Len(t) = PromisedLen'
  <2>1. PromisedLen' = circle_len'
    BY DEF PromisedLen
  <2>2. circle_len' = len + 2 * WordLen + m
    BY <1>2
  <2>3. Len(t) = Len(s) + ((Len(a) + Len(b)) + Len(c))
    BY <1>17, <1>18, <1>19
  <2>4. Len(t) = len + 2 * WordLen + m
    <3>1. Len(t) = len + ((WordLen + WordLen) + m)
      BY <1>3, <1>4, <1>5, <1>6, <2>3
    <3>2. len + ((WordLen + WordLen) + m) = len + 2 * WordLen + m
      BY <1>1
    <3> QED
      BY <3>1, <3>2
  <2> QED
    BY <2>1, <2>2, <2>4
<1>21. Promised' = t
  <2>1. Holds(storage', circle_begin', 0, t)
    BY <1>19
  <2> QED
    BY <1>20, <2>1, PromisedIs
<1> QED
  BY <1>3, <1>4, <1>5, <1>6, <1>17, <1>18, <1>19, <1>21

(* finalize puts one message in the queue. *)
LEMMA FinalizePuts ==
  ASSUME IInv, IInv', Draft, Finalize
  PROVE  Draft' /\ \E f \in Frames : Promised' = Promised \o f
<1> DEFINE k == LastBlock
           mid == Written(storage, circle_end, NextBytes(k))
<1>1. /\ w.phase = "crc" /\ w.ok /\ k <= remaining_space /\ w' = NoWriter
      /\ storage' = Written(mid, w.len_offset, Word("length", w.payload))
      /\ circle_len' = circle_len + k /\ circle_begin' = circle_begin
  BY Zenon DEF Finalize
<1>2. k \in Nat /\ w.payload \in Nat /\ w.put \in Nat
  BY RingAssumption DEF IInv, WriterOK, Writer, LastBlock
<1>3. w'.phase = "none"
  BY <1>1 DEF NoWriter
<1>4. w.payload <= MaxPayload /\ w.len_offset = wrapped_add(w.cp.end, WordLen)
      /\ Opening = "preamble"
  BY <1>1 DEF Draft, Opening
<1>5. PICK m \in Nat : m = w.put + k
  BY <1>2
<1> HIDE DEF k, mid
<1>6. /\ Holds(mid, circle_begin, 0, Promised)
      /\ Holds(mid, circle_begin, w.cp.len, Word("preamble", 0))
      /\ Holds(mid, circle_begin, w.cp.len + 2 * WordLen, Body(m))
      /\ w.cp.len + 2 * WordLen + m = circle_len + k
      /\ circle_len + k <= Size
  <2>1. mid = Written(storage, circle_end, NextBytes(k)) /\ w.phase # "none"
    BY <1>1 DEF mid
  <2>2. /\ Holds(mid, circle_begin, 0, Promised)
        /\ Holds(mid, circle_begin, w.cp.len, Word(Opening, 0))
        /\ Holds(mid, circle_begin, w.cp.len + 2 * WordLen, Body(w.put + k))
        /\ w.cp.len + 2 * WordLen + (w.put + k) = circle_len + k
        /\ circle_len + k <= Size
    BY <1>1, <1>2, <2>1, DraftGrows, Zenon
  <2> QED
    BY <1>4, <1>5, <2>2
<1>7. Promised' = Promised \o (Word("preamble", 0) \o Word("length", w.payload) \o Body(m))
  <2>1. w.phase # "none" /\ w.cp.len + 2 * WordLen + m <= Size
        /\ circle_len' = w.cp.len + 2 * WordLen + m
    BY <1>1, <1>6
  <2> QED
    BY <1>1, <1>2, <1>3, <1>4, <1>6, <2>1, FrameComplete, Zenon
<1>8. w.payload \in 0 .. MaxPayload /\ m \in 0 .. Size
  <2>1. w.cp.len \in Nat /\ WordLen \in Nat /\ Size \in Nat /\ MaxPayload \in Nat
    BY <1>1, WriterNumbers, RingAssumption
  <2> QED
    BY <1>2, <1>4, <1>6, <2>1
<1>9. MessageFrame(w.payload, m) \in Frames
  BY <1>8 DEF Frames
<1> QED
  BY <1>3, <1>7, <1>9 DEF MessageFrame, Draft
(* finalize of a text puts one PRINT_STRING in the queue, or nothing. *)
LEMMA FinalizePrintPuts ==
  ASSUME IInv, IInv', Draft, FinalizePrint
  PROVE  Draft' /\ (Promised' = Promised \/ \E f \in Frames : Promised' = Promised \o f)
<1>1. w.phase = "text" /\ w' = NoWriter
  BY DEF FinalizePrint
<1>2. w'.phase = "none"
  BY <1>1 DEF NoWriter
<1>3. CASE ~w.ok /\ restore(w.cp)
  BY <1>1, <1>3, RestorePromise
<1>4. CASE /\ w.ok
           /\ storage' = Written(storage, w.len_offset,
                                 Word("length", bytes_since_checkpoint(w.cp) - 2 * WordLen))
           /\ UNCHANGED <<circle_begin, circle_end, circle_len>>
  <2>1. /\ w.cp \in Checkpoint /\ RingOK
        /\ w.wanted = 2 * WordLen + w.payload /\ w.payload <= MaxText
    BY <1>1, <1>4 DEF IInv, WriterOK, Writer
  <2>2. /\ Size \in Nat /\ WordLen \in Nat /\ circle_len \in Nat /\ circle_len <= Size
        /\ w.cp.len \in Nat /\ w.payload \in Nat /\ w.cp.len + w.wanted = circle_len
        /\ w.cp.begin = circle_begin /\ Agree(w.cp.begin, w.cp.end, w.cp.len)
        /\ w.cp.len <= circle_len
    BY <1>1, <1>4, WriterNumbers
  <2>3. circle_len - w.cp.len < Size
    BY <2>1, <2>2, RingAssumption, TextFits
  <2>4. bytes_since_checkpoint(w.cp) = circle_len - w.cp.len
    BY <2>1, <2>2, <2>3, BytesSince
  <2>5. bytes_since_checkpoint(w.cp) - 2 * WordLen = w.payload
    BY <2>1, <2>2, <2>4
  <2>6. /\ w.put = w.payload /\ w.len_offset = wrapped_add(w.cp.end, WordLen)
        /\ Opening = "print"
        /\ Holds(storage, circle_begin, w.cp.len, Word("print", 0))
        /\ Holds(storage, circle_begin, w.cp.len + 2 * WordLen, Body(w.payload))
        /\ Holds(storage, circle_begin, 0, Promised)
    BY <1>1, <1>4, PromisedHolds DEF Draft, Opening
  <2>7. w.cp.len + 2 * WordLen + w.payload = circle_len
    BY <2>1, <2>2
  <2>8. /\ w.phase # "none" /\ w.cp.len + 2 * WordLen + w.payload <= Size
        /\ circle_len' = w.cp.len + 2 * WordLen + w.payload /\ circle_begin' = circle_begin
        /\ storage' = Written(storage, w.len_offset, Word("length", w.payload))
    BY <1>1, <1>4, <2>2, <2>5, <2>7
  <2>9. Promised' = Promised \o (Word("print", 0) \o Word("length", w.payload) \o Body(w.payload))
    BY <1>2, <2>2, <2>6, <2>8, FrameComplete, Zenon
  <2>10. w.payload \in 0 .. MaxText
    BY <2>1, <2>2, RingAssumption
  <2>11. PrintFrame(w.payload) \in Frames
    BY <2>10 DEF Frames
  <2> QED
    BY <1>2, <2>9, <2>11 DEF PrintFrame, Draft
<1> QED
  BY <1>3, <1>4, Zenon DEF FinalizePrint

(* GET_PROG_INFO is a frame of its own. *)
LEMMA GetProgInfoPuts ==
  ASSUME IInv, IInv', GetProgInfo
  PROVE  Draft' /\ \E f \in Frames : Promised' = Promised \o f
<1>1. w.phase = "none" /\ w' = w /\ circle_len = 0 /\ Extend(GetProgInfoFrame)
  BY DEF GetProgInfo
<1>2. PICK f \in Seq(Byte) : f = GetProgInfoFrame /\ Len(f) = WordLen
  BY WordType DEF GetProgInfoFrame
<1>3. PICK p \in 0 .. Size : p = circle_len
  BY DEF IInv, RingOK
<1>4. /\ circle_begin \in Slot /\ circle_end \in Slot /\ Agree(circle_begin, circle_end, p)
      /\ p = 0 /\ p + Len(f) <= Size /\ storage' = Written(storage, circle_end, f)
      /\ circle_begin' = circle_begin /\ circle_len' = Len(f) /\ Size \in Nat
  BY <1>1, <1>2, <1>3, RingAssumption DEF IInv, RingOK, Extend, remaining_space
<1>5. Holds(storage', circle_begin', 0, f)
  BY <1>4, WrittenHolds
<1>6. Len(f) = PromisedLen'
  BY <1>1, <1>4 DEF PromisedLen
<1>7. Promised' = f
  BY <1>5, <1>6, PromisedIs
<1>8. Promised = << >>
  <2>1. PICK s \in Seq(Byte) : s = Promised /\ Len(s) = 0
    BY <1>1, PromisedHolds DEF PromisedLen
  <2> QED
    BY <2>1
<1>9. << >> \o f = f
  OBVIOUS
<1> QED
  BY <1>1, <1>2, <1>7, <1>8, <1>9 DEF Frames, Draft

(* shift_byte takes the first byte. *)
LEMMA ShiftTakes ==
  ASSUME IInv, IInv', ShiftByte
  PROVE  Draft' /\ Promised # << >> /\ Promised' = Tail(Promised)
<1>1. /\ w.phase = "none" /\ w' = w /\ circle_len \in 1 .. Size /\ Size \in Nat
      /\ circle_begin \in Slot /\ circle_len' = circle_len - 1
      /\ circle_begin' = wrapped_add(circle_begin, 1)
      /\ storage' = [storage EXCEPT ![circle_begin] = Zero] /\ storage \in [Slot -> Byte]
  BY RingAssumption DEF ShiftByte, IInv, RingOK
<1>2. PICK s \in Seq(Byte) : s = Promised /\ Len(s) = circle_len
                             /\ Holds(storage, circle_begin, 0, s)
  BY <1>1, PromisedHolds DEF PromisedLen
<1>3. PICK t \in Seq(Byte) : t = Tail(s) /\ Len(t) = Len(s) - 1
                             /\ \A i \in 1 .. Len(t) : t[i] = s[i + 1]
  <2>1. s # << >>
    BY <1>1, <1>2
  <2>2. Tail(s) \in Seq(Byte) /\ Len(Tail(s)) = Len(s) - 1
        /\ \A i \in 1 .. Len(Tail(s)) : Tail(s)[i] = s[i + 1]
    BY <2>1
  <2> QED
    BY <2>2
<1>4. ASSUME NEW i \in 1 .. Len(t)
      PROVE  storage'[wrapped_add(circle_begin', 0 + i - 1)] = t[i]
  <2>1. i \in Nat /\ i > 0 /\ i < Size /\ i + 1 \in 1 .. Len(s)
    BY <1>1, <1>2, <1>3
  <2>2. i \in 0 .. Size /\ 0 + i - 1 \in 0 .. Size /\ 1 \in 0 .. Size /\ 0 + (i + 1) - 1 = i
    BY <1>1, <2>1
  <2>3. PICK j \in Slot : j = wrapped_add(circle_begin, i)
                          /\ j = IF circle_begin + i < Size THEN circle_begin + i
                                 ELSE circle_begin + i - Size
    BY <1>1, <2>2, WrappedAdd
  <2>4. /\ circle_begin' \in Slot
        /\ circle_begin' = IF circle_begin + 1 < Size THEN circle_begin + 1
                           ELSE circle_begin + 1 - Size
    BY <1>1, <2>2, WrappedAdd
  <2>5. wrapped_add(circle_begin', 0 + i - 1)
          = IF circle_begin' + (0 + i - 1) < Size THEN circle_begin' + (0 + i - 1)
            ELSE circle_begin' + (0 + i - 1) - Size
    BY <2>2, <2>4, WrappedAdd
  <2>6. circle_begin \in Nat /\ circle_begin < Size /\ Size \in Nat
    BY <1>1 DEF Slot
  <2>7. wrapped_add(circle_begin', 0 + i - 1) = j /\ j # circle_begin
    BY <2>1, <2>3, <2>4, <2>5, <2>6
  <2>8. storage'[j] = storage[j]
    BY <1>1, <2>7
  <2>9. storage[wrapped_add(circle_begin, 0 + (i + 1) - 1)] = s[i + 1]
    BY <1>2, <2>1 DEF Holds
  <2> QED
    BY <1>3, <2>2, <2>3, <2>7, <2>8, <2>9
<1>5. Holds(storage', circle_begin', 0, t)
  BY <1>4 DEF Holds
<1>6. Len(t) = PromisedLen'
  BY <1>1, <1>2, <1>3 DEF PromisedLen
<1>7. Promised' = t
  BY <1>5, <1>6, PromisedIs
<1>8. Promised # << >>
  BY <1>1, <1>2
<1> QED
  BY <1>1, <1>2, <1>3, <1>7, <1>8 DEF Draft

-----------------------------------------------------------------------------
(* Every step of the ring is a step of the queue. *)
LEMMA QueueStep ==
  ASSUME IInv, IInv', Draft, [Next]_vars
  PROVE  Draft' /\ [Queue!Next]_Promised
<1>1. SUFFICES Draft' /\ \/ Promised' = Promised
                         \/ \E f \in Frames : Promised' = Promised \o f
                         \/ Promised # << >> /\ Promised' = Tail(Promised)
  BY Zenon DEF Queue!Next, Queue!Put, Queue!Take
<1>2. CASE UNCHANGED vars
  <2>1. Promised' = Promised
    BY <1>2 DEF vars, Promised, wrapped_add
  <2>2. Draft'
    BY <1>2 DEF vars, Draft, Opening, Holds, Word, Body, wrapped_add
  <2> QED
    BY <2>1, <2>2
<1>3. CASE ShiftByte
  BY <1>3, ShiftTakes
<1>4. CASE GetProgInfo
  BY <1>4, GetProgInfoPuts
<1>5. CASE OpenMessage \/ OpenPrint
  BY <1>5, OpenDraft DEF OpenMessage, OpenPrint
<1>6. CASE \E zero \in BOOLEAN : TypeByte(zero) \/ PayloadByte(zero) \/ CrcByte(zero)
  BY <1>6, FrameByteDraft
<1>7. CASE BeginCrc
  BY <1>7, BeginCrcDraft
<1>8. CASE Finalize
  BY <1>8, FinalizePuts
<1>9. CASE Truncate \/ Abort
  <2>1. w.phase # "none" /\ restore(w.cp) /\ w' = NoWriter
    BY <1>9 DEF Truncate, Overflowed, Abort
  <2> QED
    BY <2>1, RestorePromise
<1>10. CASE \E k \in 1 .. MaxText : WriteStr(k)
  BY <1>10, WriteStrDraft
<1>11. CASE FinalizePrint
  BY <1>11, FinalizePrintPuts
<1> QED
  BY <1>2, <1>3, <1>4, <1>5, <1>6, <1>7, <1>8, <1>9, <1>10, <1>11 DEF Next

(***************************************************************************)
(* The ring, with its writers, wrap-around, overflow and roll-back,        *)
(* implements a queue of whole frames, for every size of the ring.         *)
(***************************************************************************)
THEOREM RingIsFrameQueue == Spec => ImplementsFrameQueue
<1>1. Init => IInv
  BY IInvInit
<1>2. Init => Draft
  BY DEF Init, NoWriter, Draft
<1>3. Init => Queue!Init
  <2> SUFFICES ASSUME Init PROVE Promised = << >>
    BY DEF Queue!Init
  <2>1. PICK s \in Seq(Byte) : s = Promised /\ Len(s) = PromisedLen
    BY IInvInit, PromisedHolds
  <2>2. PromisedLen = 0
    BY DEF Init, NoWriter, PromisedLen
  <2> QED
    BY <2>1, <2>2
<1>4. IInv /\ [Next]_vars => IInv'
  BY IInvStep
<1>5. IInv /\ IInv' /\ Draft /\ [Next]_vars => Draft' /\ [Queue!Next]_Promised
  BY QueueStep
<1> QED
  BY <1>1, <1>2, <1>3, <1>4, <1>5, PTL DEF Spec, ImplementsFrameQueue, Queue!Spec
=============================================================================
