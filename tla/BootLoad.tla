------------------------------ MODULE BootLoad ------------------------------
(***************************************************************************)
(* From the first byte of a program to its first instruction: okboot       *)
(* places the bytes in memory, verifies their checksum, copies the         *)
(* relocation stub and jumps to it, and the stub moves the program to its  *)
(* load address and enters it.  Two ways in:                               *)
(*   "v2"  the BinLoader of a V2 session; the session itself is modelled   *)
(*         by Upload, here the inflated pieces simply arrive;              *)
(*   "su"  the legacy SU-BOOT conversation of okdude's suboot::run and     *)
(*         okboot's perform_download, over a line that may lose or alter   *)
(*         a token (a 32-bit word, or a byte of the program).              *)
(*                                                                         *)
(* A checksum is right exactly when the bytes are those of the program.    *)
(***************************************************************************)
EXTENDS Relocation

CONSTANTS
  MemTop,      \* memory is 0 .. MemTop
  Loads,       \* load addresses the operator may ask for
  Lens,        \* lengths of programs
  Words,       \* what an address or a length may be altered to: any u32
  MaxPiece,    \* bytes inflated at a time
  MaxFaults    \* tokens lost or altered

(***************************************************************************)
(* Memory has room for side buffer, tail and stub of such a program.       *)
(***************************************************************************)
Roomy(a, n) ==
  RoundUp(MaxOf(SelfEnd, a + n), PageSize) + n + Word + StubLen <= MemTop

ASSUME BootAssumption ==
  /\ MemTop \in Nat /\ MaxPiece \in Nat \ {0} /\ MaxFaults \in Nat
  /\ MemTop + 1 < WordLimit /\ Words \subseteq 0 .. WordLimit - 1
  /\ Loads \subseteq Nat /\ Lens \subseteq Nat \ {0}
  /\ \A a \in Loads, n \in Lens : Roomy(a, n)

VARIABLES
  proto,      \* "v2" or "su"
  addr, len,  \* the program's load address and length, as the host has them
  phase,      \* of the device
  words,      \* received by perform_download: address, length, checksum
  place,      \* Relocation, or perform_download's relocate_* variables
  mem,
  written,    \* bytes written so far
  copied,     \* bytes the stub has copied
  host,       \* state of suboot::run
  h2d, d2h,   \* the line
  straddled,  \* history: a piece began below and ended above base + first
  faults      \* history

device == <<phase, words, place, mem, written, copied>>
vars == <<proto, addr, len, device, host, h2d, d2h, straddled, faults>>

Program == [i \in 1 .. len |-> i]
Crc == 1    \* the program's checksum

\* okboot_common::su_boot::Command
PutProgInfo == 1
GetCode == 2
PutCode == 3
BootSuccess == 4
BootError == 5

Magic(c) == <<"magic", c>>

Init ==
  /\ proto \in {"v2", "su"} /\ addr \in Loads /\ len \in Lens
  /\ proto = "v2" => addr % Word = 0      \* V2::recv_metadata; SU-BOOT takes any
  /\ phase = (IF proto = "v2" THEN "load" ELSE "wait")
  /\ words = <<>>
  /\ place = calculate(addr, len)         \* BinLoader::new
  /\ mem = [a \in 0 .. MemTop |-> IF a \in Own THEN Okboot ELSE Other]
  /\ written = 0 /\ copied = 0
  /\ host = (IF proto = "v2" THEN "away" ELSE "start")
  /\ h2d = <<>> /\ d2h = <<>> /\ straddled = FALSE /\ faults = 0

(***************************************************************************)
(* Writing over the instructions being executed is the end of it, and so   *)
(* is writing where there is no memory, and a branch to an address that is *)
(* no word's, which leaves ARM state.                                      *)
(***************************************************************************)
Write(to, bytes, code, then) ==
  /\ mem' = Copy(mem, to, bytes)
  /\ phase' = IF Span(to, Len(bytes)) \subseteq (0 .. MemTop) \ code
              THEN then ELSE "crashed"

Enter(address, then) == IF address % Word = 0 THEN then ELSE "crashed"

(***************************************************************************)
(* BinLoader::receive_bytes and finalize                                   *)
(***************************************************************************)
receive_bytes(n) ==
  LET address == place.base + written
      bytes == SubSeq(Program, written + 1, written + n)
  IN  /\ phase = "load" /\ written + n <= len
      /\ Write(write_to(place, address), bytes, Own, phase)
      /\ written' = written + n
      /\ straddled' = (straddled \/ place.first \in written + 1 .. written' - 1)
      /\ UNCHANGED <<proto, addr, len, words, place, copied, host, h2d, d2h, faults>>

finalize ==
  /\ phase = "load" /\ written = len
  /\ phase' = IF verified(place, mem, len) = Program THEN "boot" ELSE "rejected"
  /\ UNCHANGED <<proto, addr, len, words, place, mem, written, copied,
                 host, h2d, d2h, straddled, faults>>

(***************************************************************************)
(* perform_download.  run calls it on PUT_PROG_INFO and halts when it      *)
(* returns: __symbol_kreboot does not reboot.                              *)
(***************************************************************************)
\* FrameLayer::feed, FrameOutput::Legacy
Legacy ==
  /\ phase = "wait" /\ h2d # <<>>
  /\ h2d' = Tail(h2d)
  /\ phase' = IF Head(h2d) = Magic(PutProgInfo) THEN "info" ELSE "wait"
  /\ UNCHANGED <<proto, addr, len, words, place, mem, written, copied,
                 host, d2h, straddled, faults>>

ReadInfo ==
  /\ phase = "info" /\ h2d # <<>>
  /\ h2d' = Tail(h2d)
  /\ words' = Append(words, Head(h2d)[2])
  /\ IF Len(words') < 3
     THEN UNCHANGED <<phase, place, d2h>>
     ELSE /\ place' = legacy_calculate(words'[1], words'[2])
          /\ d2h' = d2h \o <<Magic(GetCode), <<"crc", words'[3]>>>>
          /\ phase' = "putcode"
  /\ UNCHANGED <<proto, addr, len, mem, written, copied, host, straddled, faults>>

WaitPutCode ==
  /\ phase = "putcode" /\ h2d # <<>>
  /\ h2d' = Tail(h2d)
  /\ phase' = IF Head(h2d) = Magic(PutCode) THEN "code" ELSE "putcode"
  /\ UNCHANGED <<proto, addr, len, words, place, mem, written, copied,
                 host, d2h, straddled, faults>>

\* write_bytes_from_uart
ReadCode ==
  /\ phase = "code" /\ written < words[2] /\ h2d # <<>>
  /\ h2d' = Tail(h2d)
  /\ Write((IF place.entry < SelfEnd THEN place.side ELSE place.entry) + written,
           <<Head(h2d)[2]>>, Own, phase)
  /\ written' = written + 1
  /\ UNCHANGED <<proto, addr, len, words, place, copied, host, d2h, straddled, faults>>

VerifyCrc ==
  /\ phase = "code" /\ written = words[2]
  /\ IF words[3] = Crc /\ legacy_verified(place, mem, words[2]) = Program
     THEN /\ phase' = "boot" /\ UNCHANGED d2h
     ELSE /\ phase' = "halted" /\ d2h' = Append(d2h, Magic(BootError))
  /\ UNCHANGED <<proto, addr, len, words, place, mem, written, copied,
                 host, h2d, straddled, faults>>

(***************************************************************************)
(* final_relocation, relocate_stub_inner: copy the stub, say so, and jump  *)
(* to it.                                                                  *)
(***************************************************************************)
\* Mutant: BOOT_SUCCESS is not sent
final_relocation_silent ==
  /\ phase = "boot"
  /\ Write(place.stub, [i \in 1 .. StubLen |-> Stub], Own,
           Enter(place.stub, "stub"))
  /\ UNCHANGED <<proto, addr, len, words, place, written, copied,
                 host, h2d, d2h, straddled, faults>>

final_relocation ==
  /\ phase = "boot"
  /\ Write(place.stub, [i \in 1 .. StubLen |-> Stub], Own,
           Enter(place.stub, "stub"))
  /\ d2h' = IF proto = "su" THEN Append(d2h, Magic(BootSuccess)) ELSE d2h
  /\ UNCHANGED <<proto, addr, len, words, place, written, copied,
                 host, h2d, straddled, faults>>

(***************************************************************************)
(* extern/stub.S: a word at a time until the count is exactly used up,     *)
(* then bx to the entry.                                                   *)
(***************************************************************************)
StubBegin ==
  /\ phase = "stub" /\ copied = 0 /\ place.first = 0
  /\ phase' = Enter(place.entry, "running")
  /\ UNCHANGED <<proto, addr, len, words, place, mem, written, copied,
                 host, h2d, d2h, straddled, faults>>

\* Mutant: the count is tested before it is decremented
StubWordLate ==
  /\ phase = "stub" /\ copied < place.first
  /\ copied' = copied + Word
  /\ Write(place.base + copied, Slice(mem, place.side + copied, Word),
           Span(place.stub, StubLen),
           IF copied' < place.first THEN "stub" ELSE "runaway")
  /\ UNCHANGED <<proto, addr, len, words, place, written,
                 host, h2d, d2h, straddled, faults>>

StubWord ==
  /\ phase = "stub" /\ copied < place.first
  /\ copied' = copied + Word
  /\ Write(place.base + copied, Slice(mem, place.side + copied, Word),
           Span(place.stub, StubLen),
           CASE copied' < place.first -> "stub"
             [] copied' = place.first -> Enter(place.entry, "running")
             [] copied' > place.first -> "runaway")
  /\ UNCHANGED <<proto, addr, len, words, place, written,
                 host, h2d, d2h, straddled, faults>>

(***************************************************************************)
(* suboot::run                                                             *)
(***************************************************************************)
HostPutProgInfo ==
  /\ host = "start"
  /\ host' = "getcode"
  /\ h2d' = h2d \o <<Magic(PutProgInfo), <<"addr", addr>>, <<"len", len>>, <<"crc", Crc>>>>
  /\ UNCHANGED <<proto, addr, len, device, d2h, straddled, faults>>

\* the two matching loops: anything else is passed over
HostMatch ==
  /\ host \in {"getcode", "result"} /\ d2h # <<>>
  /\ d2h' = Tail(d2h)
  /\ host' = CASE Head(d2h) = Magic(BootError) -> "failed"
               [] Head(d2h) = Magic(GetCode) /\ host = "getcode" -> "crc"
               [] Head(d2h) = Magic(BootSuccess) /\ host = "result" -> "booted"
               [] OTHER -> host
  /\ UNCHANGED <<proto, addr, len, device, h2d, straddled, faults>>

HostCrc ==
  /\ host = "crc" /\ d2h # <<>>
  /\ d2h' = Tail(d2h)
  /\ IF Head(d2h)[2] = Crc
     THEN /\ host' = "result"
          /\ h2d' = h2d \o <<Magic(PutCode)>> \o [i \in 1 .. len |-> <<"byte", i>>]
     ELSE /\ host' = "failed" /\ UNCHANGED h2d
  /\ UNCHANGED <<proto, addr, len, device, straddled, faults>>

\* read32_le's timeout: the device sends GET_CODE and the checksum together
HostCrcTimeout ==
  /\ host = "crc" /\ d2h = <<>>
  /\ host' = "failed"
  /\ UNCHANGED <<proto, addr, len, device, h2d, d2h, straddled, faults>>

(***************************************************************************)
(* The line.  An altered address or length is another word, of any value;  *)
(* anything else altered is recognised as nothing or as wrong.             *)
(***************************************************************************)
Altered(t) ==
  {t[1]} \X (IF t[1] \in {"addr", "len"} THEN Words ELSE {Bad})

Fault ==
  /\ faults < MaxFaults
  /\ faults' = faults + 1
  /\ \/ h2d # <<>> /\ h2d' = Tail(h2d) /\ UNCHANGED d2h
     \/ d2h # <<>> /\ d2h' = Tail(d2h) /\ UNCHANGED h2d
     \/ h2d # <<>> /\ \E t \in Altered(Head(h2d)) : h2d' = <<t>> \o Tail(h2d) /\ UNCHANGED d2h
     \/ d2h # <<>> /\ \E t \in Altered(Head(d2h)) : d2h' = <<t>> \o Tail(d2h) /\ UNCHANGED h2d
  /\ UNCHANGED <<proto, addr, len, device, host, straddled>>

DeviceStep ==
  \/ \E n \in 1 .. MaxPiece : receive_bytes(n)
  \/ finalize
  \/ Legacy \/ ReadInfo \/ WaitPutCode \/ ReadCode \/ VerifyCrc
  \/ final_relocation
  \/ StubBegin \/ StubWord

HostStep == HostPutProgInfo \/ HostMatch \/ HostCrc \/ HostCrcTimeout

Next == DeviceStep \/ HostStep \/ Fault

Spec == Init /\ [][Next]_vars
FairSpec == Spec /\ WF_vars(DeviceStep) /\ WF_vars(HostStep)

-----------------------------------------------------------------------------
\* perform_download puts the bytes above SelfEnd - addr behind the side
\* buffer, where nothing fetches them and the stub is copied over them.
Tail_lost == proto = "su" /\ place.first > 0 /\ words[2] > place.first

\* calculate gives a program that lies clear of okboot a null base address.
Null_base == proto = "v2" /\ addr >= SelfEnd

\* A program that is entered is complete at the address it is entered at, and
\* that is the address the operator asked for: nothing is left in the side
\* buffer, no stub or unverified byte lies in it.  (Except for the two cases
\* above, and an altered address word, which no checksum covers.)
EnteredIntact ==
  phase = "running" /\ ~Tail_lost =>
    /\ Slice(mem, place.entry, len) = Program
    /\ place.entry = addr \/ Null_base \/ faults > 0

\* perform_download checks nothing of the address and the length it is told,
\* and the checksum covers neither: after an alteration, or a load address the
\* operator should not have asked for, the program may not be enterable, or
\* there may be no memory for it.
Misplaced ==
  proto = "su" /\ (words[1] % Word # 0 \/ ~Roomy(words[1], words[2]))

\* Neither okboot nor the stub writes over itself or outside memory, jumps to
\* no word's address or copies past the end, for any program of whole words,
\* whatever the line does to the words of a request, unless they misplace the
\* program; and a null base address brings the program down on okboot if it
\* is longer than SelfStart.
StaysInControl ==
  phase \in {"crashed", "runaway"} =>
    \/ len % Word # 0
    \/ Misplaced
    \/ Null_base /\ len > SelfStart

\* BinLoader refuses a program that arrived whole only if one of its pieces
\* lay across the end of the relocated bytes: write_bytes puts all of it into
\* the side buffer.
RefusesOnlyStraddling == phase = "rejected" => straddled

\* Every program of whole words that okboot agrees to boot is entered, also
\* one of which nothing needs to be relocated and one whose address or length
\* was altered, unless that misplaced it.
AcceptedIsEntered ==
  phase = "boot" /\ len % Word = 0 /\ ~Misplaced ~> phase = "running"

\* On a faultless line okdude always learns how its SU-BOOT upload ended.
HostLearns ==
  proto = "su" ~> host \in {"booted", "failed"} \/ faults > 0
=============================================================================
