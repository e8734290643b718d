----------------------------- MODULE Relocation -----------------------------
(***************************************************************************)
(* Where okboot puts a program it receives, so that it can go on running   *)
(* while the program's load address lies inside okboot itself: the first   *)
(* bytes are kept in a side buffer above everything in use, and a stub     *)
(* copied behind that buffer moves them down once okboot is done.          *)
(* stub::flat_binary is the V2 loader's version, legacy::perform_download  *)
(* the one of the SU-BOOT protocol.                                        *)
(***************************************************************************)
EXTENDS Integers, Sequences

CONSTANTS
  SelfStart, SelfEnd,   \* okboot is [SelfStart, SelfEnd): __symbol_exec_end__
  PageSize, Word,       \* 4096 and 4 on the device
  StubLen,              \* bytes of the relocation stub
  WordLimit             \* 2^32: addresses and lengths are u32

ASSUME RelocationAssumption ==
  /\ SelfStart \in Nat /\ SelfEnd \in Nat /\ SelfStart < SelfEnd
  /\ PageSize \in Nat \ {0} /\ Word \in Nat \ {0} /\ PageSize % Word = 0
  /\ SelfEnd % Word = 0
  /\ StubLen \in 1 .. SelfStart
  /\ WordLimit \in Nat \ {0}

MaxOf(a, b) == IF a < b THEN b ELSE a
MinOf(a, b) == IF a < b THEN a ELSE b
RoundUp(x, unit) == ((x + unit - 1) \div unit) * unit

(***************************************************************************)
(* Relocation::calculate                                                   *)
(***************************************************************************)
\* Mutant: the side buffer starts at the end of the program, inside okboot or not
calculateOverlapping(base, k_length) ==
  LET k_end == base + k_length
      side == RoundUp(k_end, PageSize)
      first == MinOf(k_end, SelfEnd) - base
  IN  IF base < SelfEnd
      THEN [base |-> base, side |-> side, first |-> first,
            stub |-> RoundUp(side + first, Word), entry |-> base]
      ELSE [base |-> 0, side |-> 0, first |-> 0,
            stub |-> k_end, entry |-> 0]

calculate(base, k_length) ==
  LET k_end == base + k_length
      highest == MaxOf(SelfEnd, k_end)
      side == RoundUp(highest, PageSize)
      first == MinOf(k_end, SelfEnd) - base
  IN  IF base < SelfEnd
      THEN [base |-> base, side |-> side, first |-> first,
            stub |-> RoundUp(side + first, Word), entry |-> base]
      ELSE [base |-> 0, side |-> 0, first |-> 0,
            stub |-> highest, entry |-> 0]

(***************************************************************************)
(* perform_download: what is relocated, where to, and where the stub goes. *)
(* Every byte received goes to the side buffer, the "stationary" ones      *)
(* behind the relocated ones.  Whatever the address and the length are,    *)
(* they are taken: the sums are u32's and wrap, and no alignment is asked. *)
(***************************************************************************)
\* Mutant: the stub is put where the side buffer begins
legacy_calculate_low(addr, len) ==
  LET first == MinOf(SelfEnd - addr, len)
      to == MaxOf((addr + len) % WordLimit, SelfEnd)
  IN  IF addr < SelfEnd
      THEN [base |-> addr, side |-> to, first |-> first,
            stub |-> to, entry |-> addr]
      ELSE [base |-> 0, side |-> 0, first |-> 0, stub |-> 0, entry |-> addr]

legacy_calculate(addr, len) ==
  LET first == MinOf(SelfEnd - addr, len)
      to == MaxOf((addr + len) % WordLimit, SelfEnd)
  IN  IF addr < SelfEnd
      THEN [base |-> addr, side |-> to, first |-> first,
            stub |-> (to + first) % WordLimit, entry |-> addr]
      ELSE [base |-> 0, side |-> 0, first |-> 0, stub |-> 0, entry |-> addr]

(***************************************************************************)
(* Memory: byte i of the program is i; the other contents are these.       *)
(***************************************************************************)
Other == 0
Okboot == -1
Stub == -2
Bad == -3

Span(from, n) == from .. from + n - 1
Own == Span(SelfStart, SelfEnd - SelfStart)

\* core::ptr::copy, write_bytes_from_uart
Copy(mem, to, bytes) ==
  [a \in DOMAIN mem |->
     IF a \in Span(to, Len(bytes)) THEN bytes[a - to + 1] ELSE mem[a]]

\* core::slice::from_raw_parts
Slice(mem, from, n) == [i \in 1 .. n |-> mem[from + i - 1]]

(***************************************************************************)
(* Relocation::write_bytes: where a piece goes depends on its first byte.  *)
(***************************************************************************)
\* Mutant: a piece starting at the end of the relocated bytes is one of them
write_to_inclusive(p, address) ==
  IF address >= p.base /\ address <= p.base + p.first /\ p.first > 0
  THEN p.side + (address - p.base)
  ELSE address

write_to(p, address) ==
  IF address >= p.base /\ address < p.base + p.first
  THEN p.side + (address - p.base)
  ELSE address

(***************************************************************************)
(* What the checksum is computed over: Relocation::verify_integrity, and   *)
(* perform_download's verify_crc32.                                        *)
(***************************************************************************)
verified(p, mem, len) ==
  Slice(mem, p.side, p.first) \o
  Slice(mem, p.base + p.first, MaxOf(len - p.first, 0))

legacy_verified(p, mem, len) ==
  IF p.entry < SelfEnd THEN Slice(mem, p.side, len) ELSE Slice(mem, p.entry, len)
=============================================================================
