--------------------------- MODULE BootLoadProofs ---------------------------
(***************************************************************************)
(* okboot's placement of a program around itself, for every size of        *)
(* okboot, page, word and stub, every program that fits in memory, and     *)
(* every address and length a SU-BOOT request may be altered to.           *)
(***************************************************************************)
EXTENDS BootLoad, SequenceTheorems, TLAPS

-----------------------------------------------------------------------------
(* The inductive invariant. *)

\* in suboot::run's request
Token == {"magic", "addr", "len", "crc"} \X Int

Types ==
  /\ proto \in {"v2", "su"} /\ addr \in Loads /\ len \in Lens
  /\ proto = "v2" => addr % Word = 0
  /\ phase \in {"load", "rejected", "wait", "info", "putcode", "code", "halted",
                "boot", "stub", "running", "crashed", "runaway"}
  /\ phase \in {"load", "rejected"} => proto = "v2"
  /\ phase \in {"wait", "info", "putcode", "code", "halted"} => proto = "su"
  /\ DOMAIN mem = 0 .. MemTop
  /\ written \in Nat /\ copied \in Nat /\ faults \in Nat
  /\ phase = "load" => written <= len
  /\ phase \in {"wait", "info", "putcode"} => written = 0

(***************************************************************************)
(* The k-th token of suboot::run's request, perhaps altered.               *)
(***************************************************************************)
FitsFor(k, t, a, sound) ==
  /\ k = 1 => t[1] = "magic"
  /\ k = 2 => t[1] = "addr" /\ t[2] \in Nat /\ (sound => t[2] = a)
  /\ k = 3 => t[1] = "len" /\ t[2] \in Nat
  /\ k = 4 => t[1] = "crc"

Fits(k, t) == FitsFor(k, t, addr, faults = 0)

Told(w) ==
  /\ Len(w) >= 1 => w[1] \in Nat /\ (faults = 0 => w[1] = addr)
  /\ Len(w) >= 2 => w[2] \in Nat

(***************************************************************************)
(* okdude sends nothing after its request before it is answered, so        *)
(* perform_download gets its three words only if none of them was lost.    *)
(***************************************************************************)
Requested ==
  phase \in {"wait", "info"} =>
    /\ host \in {"start", "getcode"} /\ d2h = <<>> /\ h2d \in Seq(Token)
    /\ host = "start" => phase = "wait" /\ h2d = <<>>
    /\ words \in Seq(Int) /\ Len(h2d) <= 4
    /\ \A j \in 1 .. Len(h2d) : Fits(4 - Len(h2d) + j, h2d[j])
    /\ phase = "wait" => words = <<>>
    /\ phase = "info" =>
         /\ Len(words) + Len(h2d) <= 3
         /\ Len(words) + Len(h2d) = 3 => Told(words)

(***************************************************************************)
(* perform_download writes from here on upwards; what it has written lies  *)
(* in memory, or it would not have come this far.                          *)
(***************************************************************************)
Dest(p) == IF p.entry < SelfEnd THEN p.side ELSE p.entry

Planned ==
  /\ proto = "v2" => place = calculate(addr, len)
  /\ proto = "su" /\ phase \notin {"wait", "info"} =>
       /\ words[1] \in Nat /\ (faults = 0 => words[1] = addr)
       /\ words[2] \in Nat
       /\ place = legacy_calculate(words[1], words[2])
       /\ phase = "code" => written = 0 \/ Dest(place) + written <= MemTop + 1
       /\ phase \in {"boot", "stub", "running"} =>
            words[2] = len /\ Dest(place) + len <= MemTop + 1

(***************************************************************************)
(* Where byte k of the program is, with part of it copied by the stub.     *)
(***************************************************************************)
Loc(k) ==
  IF k \in copied + 1 .. place.first THEN place.side + k - 1 ELSE place.entry + k - 1

Kept ==
  /\ phase = "load" /\ ~straddled => \A k \in 1 .. written : mem[Loc(k)] = k
  /\ phase \in {"boot", "stub"} /\ ~Tail_lost => \A k \in 1 .. len : mem[Loc(k)] = k
  /\ phase = "running" /\ ~Tail_lost => \A k \in 1 .. len : mem[place.entry + k - 1] = k

Copying ==
  /\ phase \notin {"stub", "running", "crashed", "runaway"} => copied = 0
  /\ phase = "stub" =>
       /\ copied % Word = 0 /\ copied <= place.first
       /\ place.first > 0 => copied < place.first

IInv ==
  /\ Types /\ Requested /\ Planned /\ Kept /\ Copying
  /\ StaysInControl /\ RefusesOnlyStraddling

-----------------------------------------------------------------------------
(* Arithmetic of words. *)

(* A multiple is the word times its quotient. *)
LEMMA MultipleOf ==
  ASSUME NEW a \in Int, NEW w \in Nat \ {0}, a % w = 0
  PROVE  a = w * (a \div w) /\ a \div w \in Int
  OBVIOUS

(* The word times a number is a multiple. *)
LEMMA MultipleIs ==
  ASSUME NEW k \in Int, NEW w \in Nat \ {0}
  PROVE  (w * k) % w = 0
  OBVIOUS

(* Multiples of the word add and subtract to multiples. *)
LEMMA SumOfMultiples ==
  ASSUME NEW a \in Int, NEW b \in Int, NEW w \in Nat \ {0}, a % w = 0, b % w = 0
  PROVE  (a + b) % w = 0 /\ (a - b) % w = 0
<1> DEFINE k == a \div w
           l == b \div w
<1>1. a = w * k /\ b = w * l /\ k \in Int /\ l \in Int
  BY MultipleOf
<1> HIDE DEF k, l
<1>2. a + b = w * (k + l) /\ a - b = w * (k - l)
  BY <1>1
<1>3. (w * (k + l)) % w = 0 /\ (w * (k - l)) % w = 0
  BY <1>1, MultipleIs
<1> QED
  BY <1>2, <1>3

(* There is a whole word between two multiples of a word. *)
LEMMA NextMultiple ==
  ASSUME NEW a \in Int, NEW b \in Int, NEW w \in Nat \ {0}, a % w = 0, b % w = 0, a < b
  PROVE  a + w <= b
<1> DEFINE k == a \div w
           l == b \div w
<1>1. a = w * k /\ b = w * l /\ k \in Int /\ l \in Int
  BY MultipleOf
<1> HIDE DEF k, l
<1>2. k < l
  <2> SUFFICES ASSUME l <= k PROVE FALSE
    BY <1>1
  <2>1. w * l <= w * k
    BY <1>1
  <2> QED
    BY <1>1, <2>1
<1>3. w * (k + 1) <= w * l
  BY <1>1, <1>2
<1>4. w * (k + 1) = a + w
  BY <1>1
<1> QED
  BY <1>1, <1>3, <1>4

(* Rounding up gives a multiple no smaller, and the next one. *)
LEMMA RoundUpFacts ==
  ASSUME NEW x \in Nat, NEW w \in Nat \ {0}
  PROVE  /\ RoundUp(x, w) \in Nat /\ RoundUp(x, w) >= x /\ RoundUp(x, w) < x + w
         /\ RoundUp(x, w) % w = 0
<1> DEFINE q == (x + w - 1) \div w
           r == (x + w - 1) % w
<1>1. q \in Int /\ r \in 0 .. w - 1 /\ x + w - 1 = w * q + r
  OBVIOUS
<1>2. RoundUp(x, w) = w * q
  BY <1>1 DEF RoundUp
<1> HIDE DEF q, r
<1>3. w * q \in Int
  BY <1>1
<1>4. w * q >= x /\ w * q < x + w
  BY <1>1, <1>3
<1>5. (w * q) % w = 0
  BY <1>1, MultipleIs
<1> QED
  BY <1>2, <1>3, <1>4, <1>5

-----------------------------------------------------------------------------
(* Placement. *)

(* Sums of u32 wrap to no more than they are, and only past the limit. *)
LEMMA WrapFacts ==
  ASSUME NEW x \in Nat
  PROVE  /\ x % WordLimit \in Nat /\ x % WordLimit <= x
         /\ x < WordLimit => x % WordLimit = x
<1> DEFINE L == WordLimit
           q == x \div L
           r == x % L
<1>1. L \in Nat \ {0}
  BY RelocationAssumption
<1> HIDE DEF L
<1>2. q \in Int /\ r \in 0 .. L - 1 /\ x = L * q + r
  BY <1>1
<1> HIDE DEF q, r
<1>3. q >= 0
  <2> SUFFICES ASSUME q <= -1 PROVE FALSE
    BY <1>2
  <2>1. L * q <= L * (-1)
    BY <1>1, <1>2
  <2> QED
    BY <1>1, <1>2, <2>1
<1>4. L * q >= 0
  BY <1>1, <1>2, <1>3
<1>5. ASSUME x < L PROVE q = 0
  <2> SUFFICES ASSUME q >= 1 PROVE FALSE
    BY <1>2, <1>3
  <2>1. L * q >= L
    BY <1>1, <1>2
  <2> QED
    BY <1>1, <1>2, <1>5, <2>1
<1>6. r \in Nat /\ r <= x
  BY <1>1, <1>2, <1>4
<1>7. x < L => r = x
  BY <1>1, <1>2, <1>5
<1> QED
  BY <1>6, <1>7 DEF L, r

(* Where memory has room, everything up to the side buffer's end and the   *)
(* stub behind it lies in memory.                                          *)
LEMMA Room ==
  ASSUME NEW a \in Nat, NEW n \in Nat, Roomy(a, n)
  PROVE  /\ RoundUp(MaxOf(SelfEnd, a + n), PageSize) \in Nat
         /\ RoundUp(MaxOf(SelfEnd, a + n), PageSize) >= SelfEnd
         /\ RoundUp(MaxOf(SelfEnd, a + n), PageSize) >= a + n
         /\ RoundUp(MaxOf(SelfEnd, a + n), PageSize) + n + Word + StubLen <= MemTop
<1>1. /\ MaxOf(SelfEnd, a + n) \in Nat
      /\ MaxOf(SelfEnd, a + n) >= SelfEnd /\ MaxOf(SelfEnd, a + n) >= a + n
  BY RelocationAssumption DEF MaxOf
<1>2. PageSize \in Nat \ {0} /\ SelfEnd \in Nat
  BY RelocationAssumption
<1>3. /\ RoundUp(MaxOf(SelfEnd, a + n), PageSize) \in Nat
      /\ RoundUp(MaxOf(SelfEnd, a + n), PageSize) >= MaxOf(SelfEnd, a + n)
  BY <1>1, <1>2, RoundUpFacts
<1>4. RoundUp(MaxOf(SelfEnd, a + n), PageSize) + n + Word + StubLen <= MemTop
  BY DEF Roomy
<1> HIDE DEF RoundUp, MaxOf
<1> QED
  BY <1>1, <1>2, <1>3, <1>4

(* What BootAssumption says of what the operator may ask for. *)
LEMMA Inputs ==
  ASSUME NEW a \in Loads, NEW n \in Lens
  PROVE  /\ a \in Nat /\ n \in Nat \ {0} /\ a + n \in Nat
         /\ RoundUp(MaxOf(SelfEnd, a + n), PageSize) \in Nat
         /\ RoundUp(MaxOf(SelfEnd, a + n), PageSize) >= SelfEnd
         /\ RoundUp(MaxOf(SelfEnd, a + n), PageSize) >= a + n
         /\ RoundUp(MaxOf(SelfEnd, a + n), PageSize) + n + Word + StubLen <= MemTop
<1>1. a \in Nat /\ n \in Nat \ {0} /\ a + n \in Nat /\ n \in Nat /\ Roomy(a, n)
  BY BootAssumption
<1>2. /\ RoundUp(MaxOf(SelfEnd, a + n), PageSize) \in Nat
      /\ RoundUp(MaxOf(SelfEnd, a + n), PageSize) >= SelfEnd
      /\ RoundUp(MaxOf(SelfEnd, a + n), PageSize) >= a + n
      /\ RoundUp(MaxOf(SelfEnd, a + n), PageSize) + n + Word + StubLen <= MemTop
  BY <1>1, Room, Zenon
<1> QED
  BY <1>1, <1>2

(* Such a program also ends below the limit of u32 when it begins inside   *)
(* okboot.                                                                 *)
LEMMA Short ==
  ASSUME NEW a \in Loads, NEW n \in Lens
  PROVE  SelfEnd + n < WordLimit
<1> DEFINE r == RoundUp(MaxOf(SelfEnd, a + n), PageSize)
<1>1. r \in Nat /\ r >= SelfEnd /\ r + n + Word + StubLen <= MemTop /\ n \in Nat
  BY Inputs
<1>2. /\ MemTop + 1 < WordLimit /\ MemTop \in Nat /\ WordLimit \in Nat /\ SelfEnd \in Nat
      /\ Word \in Nat /\ StubLen \in Nat
  BY BootAssumption, RelocationAssumption
<1> HIDE DEF r
<1> QED
  BY <1>1, <1>2

(* What both ways of placing a program share when it begins inside okboot: *)
(* its first bytes end with okboot, their buffer lies clear of okboot and  *)
(* of the program, and the stub behind the buffer.                         *)
Low(p, a, n) ==
  /\ p.base = a /\ p.entry = a
  /\ p.first \in 1 .. n /\ a + p.first <= SelfEnd
  /\ p.first < n => a + p.first = SelfEnd
  /\ p.side \in Nat /\ p.side >= SelfEnd /\ p.side >= a + n /\ p.side + n <= MemTop + 1
  /\ p.stub \in Nat /\ p.stub >= p.side + p.first
  /\ n % Word = 0 /\ a % Word = 0 => p.first % Word = 0 /\ p.stub % Word = 0

(* The number of bytes that lie in okboot is a number of words. *)
LEMMA FirstFacts ==
  ASSUME NEW a \in Nat, NEW n \in Nat \ {0}, a < SelfEnd
  PROVE  /\ MinOf(a + n, SelfEnd) - a = MinOf(SelfEnd - a, n)
         /\ MinOf(SelfEnd - a, n) \in 1 .. n
         /\ a + MinOf(SelfEnd - a, n) <= SelfEnd
         /\ MinOf(SelfEnd - a, n) < n => a + MinOf(SelfEnd - a, n) = SelfEnd
         /\ n % Word = 0 /\ a % Word = 0 => MinOf(SelfEnd - a, n) % Word = 0
<1>1. SelfEnd \in Nat
  BY RelocationAssumption
<1>2. a % Word = 0 => (SelfEnd - a) % Word = 0
  <2>1. SelfEnd % Word = 0 /\ Word \in Nat \ {0}
    BY RelocationAssumption
  <2>2. a \in Int /\ SelfEnd \in Int
    BY <1>1
  <2> QED
    BY <2>1, <2>2, SumOfMultiples, Zenon
<1>3. n % Word = 0 /\ a % Word = 0 => MinOf(SelfEnd - a, n) % Word = 0
  BY <1>2 DEF MinOf
<1> QED
  BY <1>1, <1>3 DEF MinOf

(* calculate (stub.rs) for a program that begins below the end of okboot. *)
LEMMA CalculateLow ==
  ASSUME NEW a \in Loads, NEW n \in Lens, a < SelfEnd
  PROVE  /\ Low(calculate(a, n), a, n) /\ calculate(a, n).stub % Word = 0
         /\ calculate(a, n).stub + StubLen <= MemTop
<1> DEFINE side == RoundUp(MaxOf(SelfEnd, a + n), PageSize)
           first == MinOf(SelfEnd - a, n)
           p == calculate(a, n)
<1>1. /\ a \in Nat /\ n \in Nat \ {0} /\ SelfEnd \in Nat /\ Word \in Nat \ {0} /\ MemTop \in Nat
      /\ StubLen \in Nat
  BY Inputs, RelocationAssumption, BootAssumption
<1>2. side \in Nat /\ side >= SelfEnd /\ side >= a + n /\ side + n + Word + StubLen <= MemTop
  BY Inputs
<1>3. /\ first \in 1 .. n /\ a + first <= SelfEnd
      /\ first < n => a + first = SelfEnd
      /\ n % Word = 0 /\ a % Word = 0 => first % Word = 0
  BY <1>1, FirstFacts
<1>4. p = [base |-> a, side |-> side, first |-> first,
           stub |-> RoundUp(side + first, Word), entry |-> a]
  BY <1>1, FirstFacts DEF calculate
<1> HIDE DEF side, first, p
<1>5. /\ RoundUp(side + first, Word) \in Nat
      /\ RoundUp(side + first, Word) >= side + first
      /\ RoundUp(side + first, Word) < side + first + Word
      /\ RoundUp(side + first, Word) % Word = 0
  <2>1. side + first \in Nat
    BY <1>2, <1>3
  <2> QED
    BY <1>1, <2>1, RoundUpFacts
<1>6. /\ p.base = a /\ p.entry = a /\ p.first = first /\ p.side = side
      /\ p.stub = RoundUp(side + first, Word)
  BY <1>4
<1>7. side + n <= MemTop + 1
  BY <1>1, <1>2
<1>8. Low(p, a, n) /\ p.stub % Word = 0
  BY <1>2, <1>3, <1>5, <1>6, <1>7 DEF Low
<1>9. p.stub + StubLen <= MemTop
  BY <1>1, <1>2, <1>3, <1>5, <1>6
<1> QED
  BY <1>8, <1>9 DEF p

(* perform_download (legacy.rs) for whatever it is told: it writes above   *)
(* okboot, and within memory where there is room.                          *)
LEMMA LegacyAny ==
  ASSUME NEW a \in Nat, NEW n \in Nat
  PROVE  /\ legacy_calculate(a, n).entry = a
         /\ Dest(legacy_calculate(a, n)) \in Nat
         /\ Dest(legacy_calculate(a, n)) >= SelfEnd
         /\ Roomy(a, n) =>
              /\ Dest(legacy_calculate(a, n)) + n <= MemTop
              /\ legacy_calculate(a, n).stub + StubLen <= MemTop
<1> DEFINE wrapped == (a + n) % WordLimit
           side == MaxOf(wrapped, SelfEnd)
           first == MinOf(SelfEnd - a, n)
           p == legacy_calculate(a, n)
<1>1. /\ SelfEnd \in Nat /\ StubLen \in Nat /\ MemTop \in Nat /\ StubLen <= SelfStart
      /\ SelfStart \in Nat /\ SelfStart < SelfEnd /\ Word \in Nat
  BY RelocationAssumption, BootAssumption
<1>2. a + n \in Nat /\ wrapped \in Nat /\ wrapped <= a + n
  BY WrapFacts
<1> HIDE DEF wrapped
<1>3. side \in Nat /\ side >= SelfEnd /\ (side = SelfEnd \/ side <= a + n)
  BY <1>1, <1>2 DEF MaxOf
<1> HIDE DEF side
<1>4. CASE a < SelfEnd
  <2>1. first \in Nat /\ first <= n
    BY <1>1, <1>4 DEF MinOf
  <2>2. p.entry = a /\ p.side = side /\ p.stub = (side + first) % WordLimit
    BY <1>4 DEF legacy_calculate, side, wrapped
  <2> HIDE DEF first, p
  <2>3. (side + first) % WordLimit <= side + first /\ (side + first) % WordLimit \in Nat
    <3>1. side + first \in Nat
      BY <1>3, <2>1
    <3> QED
      BY <3>1, WrapFacts
  <2>4. Dest(p) = side
    BY <1>4, <2>2 DEF Dest
  <2>5. ASSUME Roomy(a, n)
        PROVE  side + n <= MemTop /\ p.stub + StubLen <= MemTop
    <3> DEFINE r == RoundUp(MaxOf(SelfEnd, a + n), PageSize)
               st == (side + first) % WordLimit
    <3>1. r \in Nat /\ r >= SelfEnd /\ r >= a + n /\ r + n + Word + StubLen <= MemTop
      BY <2>5, Room
    <3>2. st <= side + first /\ st \in Nat /\ p.stub = st
      BY <2>2, <2>3
    <3> HIDE DEF r, st
    <3>3. side <= r
      BY <1>1, <1>3, <3>1
    <3> QED
      BY <1>1, <1>3, <2>1, <3>1, <3>2, <3>3
  <2> QED
    BY <1>3, <2>2, <2>4, <2>5 DEF p
<1>5. CASE ~(a < SelfEnd)
  <2>1. p.entry = a /\ p.stub = 0
    BY <1>5 DEF legacy_calculate
  <2> HIDE DEF p
  <2>2. Dest(p) = a /\ a >= SelfEnd
    BY <1>1, <1>5, <2>1 DEF Dest
  <2>3. ASSUME Roomy(a, n)
        PROVE  a + n <= MemTop /\ p.stub + StubLen <= MemTop
    <3> DEFINE r == RoundUp(MaxOf(SelfEnd, a + n), PageSize)
    <3>1. r \in Nat /\ r >= SelfEnd /\ r >= a + n /\ r + n + Word + StubLen <= MemTop
      BY <2>3, Room
    <3> HIDE DEF r
    <3> QED
      BY <1>1, <2>1, <3>1
  <2> QED
    BY <2>1, <2>2, <2>3 DEF p
<1> QED
  BY <1>4, <1>5

(* perform_download for a program that begins below the end of okboot.     *)
LEMMA LegacyLow ==
  ASSUME NEW a \in Nat, NEW n \in Nat \ {0}, a < SelfEnd, SelfEnd + n < WordLimit,
         legacy_calculate(a, n).side + n <= MemTop + 1
  PROVE  Low(legacy_calculate(a, n), a, n)
<1> DEFINE side == MaxOf(a + n, SelfEnd)
           first == MinOf(SelfEnd - a, n)
           p == legacy_calculate(a, n)
<1>1. /\ SelfEnd \in Nat /\ Word \in Nat \ {0} /\ MemTop \in Nat /\ WordLimit \in Nat
      /\ SelfEnd % Word = 0 /\ MemTop + 1 < WordLimit
  BY RelocationAssumption, BootAssumption
<1>2. side \in Nat /\ side >= SelfEnd /\ side >= a + n
  BY <1>1 DEF MaxOf
<1>3. /\ first \in 1 .. n /\ a + first <= SelfEnd
      /\ first < n => a + first = SelfEnd
      /\ n % Word = 0 /\ a % Word = 0 => first % Word = 0
  BY FirstFacts
<1>4. n % Word = 0 /\ a % Word = 0 => (side + first) % Word = 0
  <2> SUFFICES ASSUME n % Word = 0, a % Word = 0 PROVE (side + first) % Word = 0
    OBVIOUS
  <2>1. (a + n) % Word = 0
    <3>1. a \in Int /\ n \in Int
      OBVIOUS
    <3> QED
      BY <1>1, <3>1, SumOfMultiples, Zenon
  <2>2. side % Word = 0
    BY <1>1, <2>1 DEF MaxOf
  <2>3. side \in Int /\ first \in Int /\ first % Word = 0
    BY <1>2, <1>3
  <2> HIDE DEF side, first
  <2> QED
    BY <1>1, <2>2, <2>3, SumOfMultiples
<1>5. (a + n) % WordLimit = a + n
  <2>1. a + n \in Nat /\ a + n < WordLimit
    BY <1>1
  <2> QED
    BY <2>1, WrapFacts
<1>6. p = [base |-> a, side |-> side, first |-> first,
           stub |-> (side + first) % WordLimit, entry |-> a]
  BY <1>5 DEF legacy_calculate
<1> HIDE DEF side, first, p
<1>7. /\ p.base = a /\ p.entry = a /\ p.first = first /\ p.side = side
      /\ p.stub = (side + first) % WordLimit
  BY <1>6
<1>8. side + n <= MemTop + 1
  BY <1>7 DEF p
<1>9. p.stub = side + first
  <2>1. side + first \in Nat /\ side + first < WordLimit
    BY <1>1, <1>2, <1>3, <1>8
  <2> QED
    BY <1>7, <2>1, WrapFacts
<1>10. Low(p, a, n)
  BY <1>1, <1>2, <1>3, <1>4, <1>7, <1>8, <1>9 DEF Low
<1> QED
  BY <1>10 DEF p

(* Above okboot calculate gives up on the address, perform_download does   *)
(* not; neither relocates anything.                                        *)
LEMMA CalculateHigh ==
  ASSUME NEW a \in Loads, NEW n \in Lens, ~(a < SelfEnd)
  PROVE  calculate(a, n) = [base |-> 0, side |-> 0, first |-> 0, stub |-> a + n, entry |-> 0]
<1>1. a \in Nat /\ n \in Nat \ {0} /\ SelfEnd \in Nat
  BY Inputs, RelocationAssumption
<1>2. MaxOf(SelfEnd, a + n) = a + n
  BY <1>1 DEF MaxOf
<1> QED
  BY <1>2 DEF calculate

(* perform_download for a program clear of okboot: nothing is relocated. *)
LEMMA LegacyHigh ==
  ASSUME NEW a \in Nat, NEW n \in Nat, ~(a < SelfEnd)
  PROVE  legacy_calculate(a, n) =
           [base |-> 0, side |-> 0, first |-> 0, stub |-> 0, entry |-> a]
  BY DEF legacy_calculate

-----------------------------------------------------------------------------
(* Memory. *)

(* write_bytes neither adds nor removes an address. *)
LEMMA CopyDomain ==
  ASSUME NEW m, DOMAIN m = 0 .. MemTop, NEW to, NEW bytes
  PROVE  DOMAIN Copy(m, to, bytes) = 0 .. MemTop
  BY DEF Copy

(* A slice is the program if it is as long and every byte is in place. *)
LEMMA SliceIsProgram ==
  ASSUME len \in Nat, NEW m, NEW from \in Int, NEW n \in Nat
  PROVE  Slice(m, from, n) = Program <=> n = len /\ \A k \in 1 .. len : m[from + k - 1] = k
<1>1. ASSUME Slice(m, from, n) = Program
      PROVE  n = len /\ \A k \in 1 .. len : m[from + k - 1] = k
  <2>1. 1 .. n = 1 .. len
    BY <1>1 DEF Slice, Program
  <2>2. n = len
    BY <2>1
  <2> QED
    BY <1>1, <2>2 DEF Slice, Program
<1>2. ASSUME n = len, \A k \in 1 .. len : m[from + k - 1] = k
      PROVE  Slice(m, from, n) = Program
  BY <1>2 DEF Slice, Program
<1> QED
  BY <1>1, <1>2

Values(m) == {m[b] : b \in Int}

(* A slice of the memory has the bytes of the memory. *)
LEMMA SliceFacts ==
  ASSUME NEW m, NEW from \in Int, NEW n \in Nat
  PROVE  /\ Slice(m, from, n) \in Seq(Values(m))
         /\ Len(Slice(m, from, n)) = n
         /\ \A k \in 1 .. n : Slice(m, from, n)[k] = m[from + k - 1]
<1>1. \A k \in 1 .. n : m[from + k - 1] \in Values(m)
  BY DEF Values
<1>2. Slice(m, from, n) \in Seq(Values(m))
  <2>1. Slice(m, from, n) \in [1 .. n -> Values(m)]
    BY <1>1 DEF Slice
  <2> QED
    BY <2>1, SeqDef
<1>3. DOMAIN Slice(m, from, n) = 1 .. n
  BY DEF Slice
<1>4. Len(Slice(m, from, n)) = n
  BY <1>2, <1>3, LenProperties
<1> QED
  BY <1>2, <1>4 DEF Slice

(* verify_integrity's two slices make up the program. *)
LEMMA VerifiedFacts ==
  ASSUME len \in Nat, NEW m, NEW p, p.first \in 0 .. len, p.side \in Int, p.base \in Int
  PROVE  verified(p, m, len) = Program <=>
           /\ \A k \in 1 .. p.first : m[p.side + k - 1] = k
           /\ \A k \in p.first + 1 .. len : m[p.base + k - 1] = k
<1> DEFINE f == p.first
           s == Slice(m, p.side, f)
           t == Slice(m, p.base + f, len - f)
           S == Values(m)
<1>1. verified(p, m, len) = s \o t
  <2>1. MaxOf(len - f, 0) = len - f
    BY DEF MaxOf
  <2> QED
    BY <2>1 DEF verified
<1>2. /\ s \in Seq(S) /\ Len(s) = f /\ \A k \in 1 .. f : s[k] = m[p.side + k - 1]
      /\ t \in Seq(S) /\ Len(t) = len - f
      /\ \A k \in 1 .. len - f : t[k] = m[p.base + f + k - 1]
  <2>1. f \in Nat /\ len - f \in Nat /\ p.side \in Int /\ p.base + f \in Int
    OBVIOUS
  <2>2. s \in Seq(S) /\ Len(s) = f /\ \A k \in 1 .. f : s[k] = m[p.side + k - 1]
    BY <2>1, SliceFacts, Zenon
  <2>3. /\ t \in Seq(S) /\ Len(t) = len - f
        /\ \A k \in 1 .. len - f : t[k] = m[p.base + f + k - 1]
    BY <2>1, SliceFacts, Zenon
  <2> QED
    BY <2>2, <2>3
<1> HIDE DEF s, t, S
<1>3. /\ s \o t \in Seq(S) /\ Len(s \o t) = len
      /\ \A k \in 1 .. f : (s \o t)[k] = m[p.side + k - 1]
      /\ \A k \in f + 1 .. len : (s \o t)[k] = m[p.base + k - 1]
  <2>1. /\ s \o t \in Seq(S) /\ Len(s \o t) = Len(s) + Len(t)
        /\ \A k \in 1 .. Len(s) + Len(t) :
             (s \o t)[k] = IF k <= Len(s) THEN s[k] ELSE t[k - Len(s)]
    BY <1>2, ConcatProperties
  <2>2. \A k \in 1 .. f : (s \o t)[k] = s[k]
    BY <1>2, <2>1
  <2>3. \A k \in f + 1 .. len : (s \o t)[k] = t[k - f]
    <3> TAKE k \in f + 1 .. len
    <3>1. k \in 1 .. Len(s) + Len(t) /\ ~(k <= Len(s))
      BY <1>2
    <3> QED
      BY <1>2, <2>1, <3>1
  <2>4. \A k \in f + 1 .. len : t[k - f] = m[p.base + k - 1]
    <3> TAKE k \in f + 1 .. len
    <3>1. k - f \in 1 .. len - f /\ p.base + f + (k - f) - 1 = p.base + k - 1
      OBVIOUS
    <3> QED
      BY <1>2, <3>1
  <2>5. Len(s \o t) = len
    BY <1>2, <2>1
  <2>6. \A k \in 1 .. f : (s \o t)[k] = m[p.side + k - 1]
    BY <1>2, <2>2, Zenon
  <2>7. \A k \in f + 1 .. len : (s \o t)[k] = m[p.base + k - 1]
    BY <2>3, <2>4, Zenon
  <2> QED
    BY <2>1, <2>5, <2>6, <2>7, Zenon
<1>4. Program \in Seq(Int) /\ Len(Program) = len /\ \A k \in 1 .. len : Program[k] = k
  BY DEF Program
<1> DEFINE st == s \o t
           P == Program
<1>5. (\A k \in 1 .. len : st[k] = P[k]) => st = P
  BY <1>3, <1>4
<1>6. verified(p, m, len) = st
  BY <1>1
<1> HIDE DEF st, P
<1>7. st = P <=> \A k \in 1 .. len : st[k] = P[k]
  BY <1>5
<1>8. /\ \A k \in 1 .. f : st[k] = m[p.side + k - 1]
      /\ \A k \in f + 1 .. len : st[k] = m[p.base + k - 1]
      /\ \A k \in 1 .. len : P[k] = k
  BY <1>3, <1>4 DEF st, P
<1>9. (\A k \in 1 .. len : st[k] = P[k]) <=>
        /\ \A k \in 1 .. f : m[p.side + k - 1] = k
        /\ \A k \in f + 1 .. len : m[p.base + k - 1] = k
  BY <1>8
<1> QED
  BY <1>6, <1>7, <1>9 DEF P

-----------------------------------------------------------------------------
(* What a placement must give: the stub and the buffer disturb neither     *)
(* okboot nor the program, and the program can be entered.                 *)

Clear(p, n) ==
  /\ p.base \in Nat /\ p.entry \in Nat /\ p.first \in 0 .. n
  /\ p.side \in Nat /\ p.stub \in Nat /\ p.entry + n <= MemTop + 1
  /\ p.first > 0 => Low(p, p.base, n)
  /\ p.first = 0 =>
       /\ p.base = 0 /\ p.side = 0
       /\ p.stub >= p.entry + n \/ p.stub + StubLen <= p.entry
       /\ p.stub >= SelfEnd \/ p.stub + StubLen <= SelfStart
       /\ n % Word = 0 /\ p.entry % Word = 0 => p.stub % Word = 0

(* Whatever V2 is asked for, its pieces do not meet. *)
LEMMA CalculateClear ==
  ASSUME NEW a \in Loads, NEW n \in Lens, a % Word = 0
  PROVE  /\ Clear(calculate(a, n), n)
         /\ calculate(a, n).entry = calculate(a, n).base
         /\ calculate(a, n).entry % Word = 0
         /\ calculate(a, n).stub >= SelfEnd
         /\ calculate(a, n).stub + StubLen <= MemTop
         /\ calculate(a, n).first > 0 => calculate(a, n).entry = a
         /\ calculate(a, n).first = 0 => a >= SelfEnd
<1> DEFINE p == calculate(a, n)
<1>1. /\ a \in Nat /\ n \in Nat \ {0} /\ SelfEnd \in Nat /\ MemTop \in Nat
      /\ a + n + StubLen <= MemTop /\ Word \in Nat \ {0} /\ StubLen \in Nat
  <2> DEFINE r == RoundUp(MaxOf(SelfEnd, a + n), PageSize)
  <2>1. /\ r \in Nat /\ r >= a + n /\ r + n + Word + StubLen <= MemTop
        /\ a \in Nat /\ n \in Nat \ {0}
    BY Inputs
  <2>2. SelfEnd \in Nat /\ MemTop \in Nat /\ Word \in Nat \ {0} /\ StubLen \in Nat
    BY RelocationAssumption, BootAssumption
  <2> HIDE DEF r
  <2> QED
    BY <2>1, <2>2
<1>2. CASE a < SelfEnd
  <2>1. Low(p, a, n) /\ p.stub + StubLen <= MemTop
    BY <1>2, CalculateLow
  <2> HIDE DEF p
  <2>2. /\ p.base = a /\ p.entry = a /\ p.first \in 1 .. n /\ p.side \in Nat /\ p.stub \in Nat
        /\ p.side >= SelfEnd /\ p.stub >= p.side + p.first
    BY <2>1 DEF Low
  <2>3. p.stub >= SelfEnd /\ p.first > 0 /\ p.first \in 0 .. n /\ a + n <= MemTop + 1
    BY <1>1, <2>2
  <2>4. Clear(p, n)
    BY <1>1, <2>1, <2>2, <2>3 DEF Clear
  <2> QED
    BY <2>1, <2>2, <2>3, <2>4 DEF p
<1>3. CASE ~(a < SelfEnd)
  <2>1. p = [base |-> 0, side |-> 0, first |-> 0, stub |-> a + n, entry |-> 0]
    BY <1>3, CalculateHigh
  <2> HIDE DEF p
  <2>2. p.base = 0 /\ p.entry = 0 /\ p.first = 0 /\ p.side = 0 /\ p.stub = a + n
    BY <2>1
  <2>3. n % Word = 0 => (a + n) % Word = 0
    <3>1. a \in Int /\ n \in Int
      BY <1>1
    <3> QED
      BY <1>1, <3>1, SumOfMultiples, Zenon
  <2>4. /\ a + n >= SelfEnd /\ a + n >= 0 + n /\ 0 + n <= MemTop + 1 /\ a >= SelfEnd
        /\ 0 % Word = 0
    BY <1>1, <1>3
  <2>5. Clear(p, n)
    BY <1>1, <2>2, <2>3, <2>4 DEF Clear
  <2> QED
    BY <1>1, <2>2, <2>4, <2>5 DEF p
<1> QED
  BY <1>2, <1>3

(* Whatever SU-BOOT is asked for, its pieces do not meet, once the program *)
(* has turned out to be in memory.                                         *)
LEMMA LegacyClear ==
  ASSUME NEW a \in Nat, NEW n \in Nat \ {0}, SelfEnd + n < WordLimit,
         Dest(legacy_calculate(a, n)) + n <= MemTop + 1
  PROVE  /\ Clear(legacy_calculate(a, n), n)
         /\ legacy_calculate(a, n).first > 0 <=> a < SelfEnd
<1> DEFINE p == legacy_calculate(a, n)
<1>1. /\ SelfEnd \in Nat /\ SelfStart \in Nat /\ MemTop \in Nat /\ Word \in Nat \ {0}
      /\ StubLen \in Nat /\ StubLen <= SelfStart /\ SelfStart < SelfEnd
  BY RelocationAssumption, BootAssumption
<1>2. p.entry = a
  BY LegacyAny
<1>3. CASE a < SelfEnd
  <2>1. Low(p, a, n)
    <3>1. p.side + n <= MemTop + 1
      BY <1>2, <1>3 DEF Dest
    <3> QED
      BY <1>3, <3>1, LegacyLow
  <2> HIDE DEF p
  <2>2. /\ p.base = a /\ p.entry = a /\ p.first \in 1 .. n /\ p.side \in Nat /\ p.stub \in Nat
        /\ p.side >= a + n /\ p.side + n <= MemTop + 1
    BY <2>1 DEF Low
  <2>3. p.first > 0 /\ p.first \in 0 .. n /\ p.first # 0 /\ a + n <= MemTop + 1
    BY <1>1, <2>2
  <2>4. Clear(p, n)
    BY <1>1, <2>1, <2>2, <2>3 DEF Clear
  <2> QED
    BY <1>3, <2>2, <2>3, <2>4 DEF p
<1>4. CASE ~(a < SelfEnd)
  <2>1. p = [base |-> 0, side |-> 0, first |-> 0, stub |-> 0, entry |-> a]
    BY <1>4, LegacyHigh
  <2>2. a + n <= MemTop + 1
    BY <1>2, <1>4 DEF Dest
  <2> HIDE DEF p
  <2>3. p.base = 0 /\ p.entry = a /\ p.first = 0 /\ p.side = 0 /\ p.stub = 0
    BY <2>1
  <2>4. 0 + StubLen <= a /\ 0 + StubLen <= SelfStart /\ 0 % Word = 0 /\ 0 \in 0 .. n
    BY <1>1, <1>4
  <2>5. Clear(p, n)
    BY <1>1, <2>2, <2>3, <2>4 DEF Clear
  <2> QED
    BY <1>4, <2>3, <2>5 DEF p
<1> QED
  BY <1>3, <1>4

-----------------------------------------------------------------------------
(* What the invariant says of the placement in use. *)

(* The constants are addresses and lengths. *)
LEMMA Sizes ==
  /\ SelfStart \in Nat /\ SelfEnd \in Nat /\ SelfStart < SelfEnd
  /\ Word \in Nat \ {0} /\ StubLen \in Nat \ {0} /\ MemTop \in Nat
  BY RelocationAssumption, BootAssumption

(* The placement of a V2 session, and which exceptions it can meet. *)
LEMMA PlacedV2 ==
  ASSUME IInv, proto = "v2"
  PROVE  /\ Clear(place, len) /\ place.entry = place.base /\ place.stub >= SelfEnd
         /\ place.entry % Word = 0 /\ place.stub + StubLen <= MemTop
         /\ place.first > 0 => place.entry = addr
         /\ place.first = 0 => Null_base
         /\ ~Tail_lost
<1>1. addr \in Loads /\ len \in Lens /\ addr % Word = 0 /\ place = calculate(addr, len)
  BY DEF IInv, Types, Planned
<1>2. place.first = 0 => Null_base
  BY <1>1, CalculateClear DEF Null_base
<1>3. ~Tail_lost
  BY DEF Tail_lost
<1> QED
  BY <1>1, <1>2, <1>3, CalculateClear

(* The placement of a SU-BOOT download is that of the words received. *)
LEMMA PlacedSu ==
  ASSUME IInv, proto = "su", phase \notin {"wait", "info"}
  PROVE  /\ words[1] \in Nat /\ words[2] \in Nat /\ place.entry = words[1]
         /\ Dest(place) \in Nat /\ Dest(place) >= SelfEnd
         /\ ~Misplaced =>
              /\ place.entry % Word = 0 /\ Dest(place) + words[2] <= MemTop
              /\ place.stub + StubLen <= MemTop
         /\ faults = 0 => place.entry = addr
<1>1. /\ words[1] \in Nat /\ words[2] \in Nat
      /\ place = legacy_calculate(words[1], words[2])
      /\ faults = 0 => words[1] = addr
  BY DEF IInv, Planned
<1>2. /\ place.entry = words[1]
      /\ Dest(place) \in Nat /\ Dest(place) >= SelfEnd
      /\ Roomy(words[1], words[2]) =>
           Dest(place) + words[2] <= MemTop /\ place.stub + StubLen <= MemTop
  BY <1>1, LegacyAny
<1>3. ~Misplaced => words[1] % Word = 0 /\ Roomy(words[1], words[2])
  BY DEF Misplaced
<1> QED
  BY <1>1, <1>2, <1>3

(* Once its checksum is right, the download is of the program. *)
LEMMA PlacedSuBoot ==
  ASSUME len \in Lens, addr \in Loads, words[1] \in Nat, words[2] = len,
         place = legacy_calculate(words[1], words[2]), Dest(place) + len <= MemTop + 1
  PROVE  Clear(place, len) /\ (place.first > 0 <=> words[1] < SelfEnd)
<1>1. len \in Nat \ {0} /\ SelfEnd + len < WordLimit
  BY Short, BootAssumption
<1> QED
  BY <1>1, LegacyClear

(* Once the program is being loaded, the placement is for its true length. *)
LEMMA Placed ==
  ASSUME IInv, phase \in {"load", "boot", "stub", "running"}
  PROVE  /\ Clear(place, len) /\ len \in Nat \ {0}
         /\ ~Misplaced => place.entry % Word = 0 /\ place.stub + StubLen <= MemTop
<1>1. /\ len \in Nat \ {0} /\ proto \in {"v2", "su"} /\ (phase = "load" => proto = "v2")
      /\ len \in Lens /\ addr \in Loads
  BY BootAssumption DEF IInv, Types
<1>2. CASE proto = "v2"
  BY <1>1, <1>2, PlacedV2
<1>3. CASE proto = "su"
  <2>1. /\ words[1] \in Nat /\ words[2] = len /\ Dest(place) + len <= MemTop + 1
        /\ place = legacy_calculate(words[1], words[2])
    BY <1>1, <1>3 DEF IInv, Planned
  <2>2. Clear(place, len)
    BY <1>1, <2>1, PlacedSuBoot
  <2> QED
    BY <1>1, <1>3, <2>2, PlacedSu
<1> QED
  BY <1>1, <1>2, <1>3

(* The first state: nothing is sent, nothing is written. *)
LEMMA IInvInit == Init => IInv
<1> SUFFICES ASSUME Init PROVE IInv
  OBVIOUS
<1> USE DEF Init
<1>1. len \in Nat
  BY BootAssumption
<1>2. Types
  BY <1>1 DEF Types
<1>3. Requested
  <2>1. <<>> \in Seq(Token) /\ <<>> \in Seq(Int) /\ Len(<<>>) = 0
    OBVIOUS
  <2>2. phase # "info" /\ (phase = "wait" => host = "start") /\ h2d = <<>> /\ words = <<>> /\ d2h = <<>>
    OBVIOUS
  <2> HIDE DEF Init
  <2>3. Len(h2d) = 0 /\ \A j \in 1 .. Len(h2d) : Fits(4 - Len(h2d) + j, h2d[j])
    BY <2>1, <2>2
  <2> QED
    BY <2>1, <2>2, <2>3 DEF Requested
<1>4. Planned
  BY DEF Planned
<1>5. Kept
  BY DEF Kept
<1>6. Copying /\ StaysInControl /\ RefusesOnlyStraddling
  BY DEF Copying, StaysInControl, RefusesOnlyStraddling
<1> QED
  BY <1>2, <1>3, <1>4, <1>5, <1>6 DEF IInv

-----------------------------------------------------------------------------
(* BinLoader. *)

(* A piece of the program is its bytes in order. *)
LEMMA PieceFacts ==
  ASSUME len \in Nat, NEW w \in Nat, NEW n \in Nat, w + n <= len
  PROVE  /\ Len(SubSeq(Program, w + 1, w + n)) = n
         /\ \A j \in 1 .. n : SubSeq(Program, w + 1, w + n)[j] = w + j
<1>1. Program \in Seq(Int) /\ Len(Program) = len /\ \A k \in 1 .. len : Program[k] = k
  BY DEF Program
<1> QED
  BY <1>1

(* The bytes written keep their places and okboot its own, unless the      *)
(* address was lost.                                                       *)
LEMMA ReceiveStep ==
  ASSUME IInv, NEW n \in 1 .. MaxPiece, receive_bytes(n)
  PROVE  IInv'
<1> DEFINE p == place
           to == write_to(place, place.base + written)
           bytes == SubSeq(Program, written + 1, written + n)
<1>1. /\ phase = "load" /\ proto = "v2" /\ written + n <= len /\ copied = 0
      /\ written' = written + n
      /\ straddled' = (straddled \/ p.first \in written + 1 .. written' - 1)
      /\ mem' = Copy(mem, to, bytes)
      /\ phase' = IF Span(to, Len(bytes)) \subseteq (0 .. MemTop) \ Own
                  THEN phase ELSE "crashed"
      /\ UNCHANGED <<proto, addr, len, words, place, copied, host, h2d, d2h, faults>>
  BY DEF receive_bytes, Write, IInv, Types, Copying
<1>2. /\ n \in Nat \ {0} /\ written \in Nat /\ len \in Nat /\ DOMAIN mem = 0 .. MemTop
      /\ addr \in Loads /\ len \in Lens /\ faults \in Nat
  BY BootAssumption DEF IInv, Types
<1>3. Len(bytes) = n /\ \A j \in 1 .. n : bytes[j] = written + j
  BY <1>1, <1>2, PieceFacts
<1>4. /\ Clear(p, len) /\ p.entry = p.base /\ (p.first = 0 => Null_base)
  BY <1>1, PlacedV2
<1>5. /\ p.base \in Nat /\ p.first \in 0 .. len /\ p.side \in Nat /\ p.base + len <= MemTop + 1
      /\ p.first > 0 =>
           /\ p.base + p.first <= SelfEnd /\ (p.first < len => p.base + p.first = SelfEnd)
           /\ p.side >= SelfEnd /\ p.side >= p.base + len /\ p.side + len <= MemTop + 1
      /\ p.first = 0 => p.base = 0
  BY <1>4 DEF Clear, Low
<1>6. to = IF written < p.first THEN p.side + written ELSE p.base + written
  BY <1>2, <1>5 DEF write_to
<1> HIDE DEF bytes, to
<1>7. to \in Nat
  BY <1>2, <1>5, <1>6
<1>8. phase' \in {"load", "crashed"}
  BY <1>1
<1>9. Types'
  BY <1>1, <1>2, <1>8, CopyDomain DEF IInv, Types
<1>10. Requested' /\ Planned' /\ Copying' /\ RefusesOnlyStraddling'
  BY <1>1, <1>8 DEF IInv, Requested, Planned, Copying, RefusesOnlyStraddling
<1>11. StaysInControl'
  <2>0. to + n <= MemTop + 1
    <3>1. CASE written < p.first
      BY <1>1, <1>2, <1>5, <1>6, <3>1, Sizes
    <3>2. CASE ~(written < p.first)
      BY <1>1, <1>2, <1>5, <1>6, <3>2, Sizes
    <3> QED
      BY <3>1, <3>2
  <2>1. CASE p.first > 0
    <3>1. to >= SelfEnd
      BY <1>1, <1>2, <1>5, <1>6, <2>1, Sizes
    <3>2. Span(to, n) \subseteq (0 .. MemTop) \ Own
      BY <1>2, <1>7, <2>0, <3>1, Sizes DEF Span, Own
    <3> QED
      BY <1>1, <1>3, <3>2 DEF StaysInControl
  <2>2. CASE p.first = 0
    <3>1. to = written
      BY <1>2, <1>5, <1>6, <2>2
    <3>2. len <= SelfStart => Span(to, n) \subseteq (0 .. MemTop) \ Own
      BY <1>1, <1>2, <2>0, <3>1, Sizes DEF Span, Own
    <3>3. (phase \in {"crashed", "runaway"})' => len > SelfStart
      BY <1>1, <1>2, <1>3, <3>2, Sizes
    <3> QED
      BY <1>1, <1>4, <2>2, <3>3 DEF StaysInControl, Null_base
  <2> QED
    BY <1>5, <2>1, <2>2
<1>12. \A b \in 0 .. MemTop :
         /\ b \in Span(to, Len(bytes)) => Copy(mem, to, bytes)[b] = bytes[b - to + 1]
         /\ b \notin Span(to, Len(bytes)) => Copy(mem, to, bytes)[b] = mem[b]
  BY <1>2 DEF Copy
<1>13. Kept'
  <2> SUFFICES ASSUME ~straddled', NEW k \in 1 .. written'
               PROVE  mem'[Loc(k)] = k
    BY <1>1, <1>8 DEF Kept, Loc
  <2>1. ~straddled /\ (p.first <= written \/ p.first >= written + n)
    <3>1. ~straddled /\ ~(p.first \in written + 1 .. written' - 1)
      BY <1>1, Zenon
    <3> QED
      BY <1>1, <1>2, <1>5, <3>1
  <2>2. Loc(k) = IF k <= p.first THEN p.side + k - 1 ELSE p.base + k - 1
    BY <1>1, <1>2, <1>4, <1>5 DEF Loc
  <2>3. k \in Nat /\ k >= 1 /\ k <= written + n /\ k <= len /\ written + n <= len
    BY <1>1, <1>2
  <2> DEFINE at == Loc(k)
             f == p.first
             side == p.side
             base == p.base
  <2>4. /\ base \in Nat /\ f \in Nat /\ f <= len /\ side \in Nat /\ base + len <= MemTop + 1
        /\ f > 0 => side >= base + len /\ side + len <= MemTop + 1
    BY <1>5, <1>2
  <2>5. /\ k <= f => at = side + k - 1
        /\ ~(k <= f) => at = base + k - 1
        /\ written < f => to = side + written
        /\ ~(written < f) => to = base + written
        /\ f <= written \/ f >= written + n
    BY <1>6, <2>1, <2>2
  <2> HIDE DEF at, f, side, base
  <2>6. at \in 0 .. MemTop
    BY <1>2, <2>3, <2>4, <2>5, Sizes
  <2>7. CASE k <= written
    <3>1. at \notin Span(to, n)
      <4>1. CASE f <= written
        BY <1>2, <2>3, <2>4, <2>5, <2>7, <4>1 DEF Span
      <4>2. CASE f >= written + n
        BY <1>2, <2>3, <2>4, <2>5, <2>7, <4>2 DEF Span
      <4> QED
        BY <2>5, <4>1, <4>2
    <3>2. mem'[at] = mem[at]
      <4>1. to \in Int /\ at \notin Span(to, Len(bytes))
        BY <1>3, <1>7, <3>1
      <4> QED
        BY <1>1, <1>12, <2>6, <4>1
    <3>3. mem[at] = k
      BY <1>1, <1>2, <2>1, <2>3, <2>7 DEF IInv, Kept, at
    <3> QED
      BY <3>2, <3>3 DEF at
  <2>8. CASE ~(k <= written)
    <3>1. k - written \in 1 .. n /\ at = to + (k - written) - 1
      <4>1. CASE f <= written
        BY <1>2, <2>3, <2>4, <2>5, <2>8, <4>1
      <4>2. CASE f >= written + n
        BY <1>2, <2>3, <2>4, <2>5, <2>8, <4>2
      <4> QED
        BY <2>5, <4>1, <4>2
    <3>2. at \in Span(to, n) /\ at - to + 1 = k - written
      BY <1>2, <1>7, <3>1 DEF Span
    <3>3. mem'[at] = bytes[k - written]
      <4>1. to \in Int /\ at \in Span(to, Len(bytes))
        BY <1>3, <1>7, <3>2
      <4>2. mem'[at] = bytes[at - to + 1]
        BY <1>1, <1>12, <2>6, <4>1
      <4> QED
        BY <3>2, <4>2
    <3>4. bytes[k - written] = k
      BY <1>2, <1>3, <2>3, <3>1
    <3> QED
      BY <3>3, <3>4 DEF at
  <2> QED
    BY <2>7, <2>8
<1> QED
  BY <1>9, <1>10, <1>11, <1>13 DEF IInv

(* verify_integrity accepts exactly what was written in its place. *)
LEMMA FinalizeStep ==
  ASSUME IInv, finalize
  PROVE  IInv'
<1>1. /\ phase = "load" /\ proto = "v2" /\ written = len /\ copied = 0
      /\ phase' = IF verified(place, mem, len) = Program THEN "boot" ELSE "rejected"
      /\ UNCHANGED <<proto, addr, len, words, place, mem, written, copied,
                     host, h2d, d2h, straddled, faults>>
  BY DEF finalize, IInv, Types, Copying
<1>2. Clear(place, len) /\ place.entry = place.base /\ ~Tail_lost /\ len \in Nat
  BY <1>1, PlacedV2, Placed
<1>3. place.base \in Nat /\ place.first \in 0 .. len /\ place.side \in Nat
  BY <1>2 DEF Clear
<1>4. verified(place, mem, len) = Program <=> \A k \in 1 .. len : mem[Loc(k)] = k
  <2>1. \A k \in 1 .. place.first : Loc(k) = place.side + k - 1
    BY <1>1, <1>3 DEF Loc
  <2>2. \A k \in place.first + 1 .. len : Loc(k) = place.base + k - 1
    BY <1>1, <1>2, <1>3 DEF Loc
  <2>3. verified(place, mem, len) = Program <=>
          /\ \A k \in 1 .. place.first : mem[place.side + k - 1] = k
          /\ \A k \in place.first + 1 .. len : mem[place.base + k - 1] = k
    BY <1>2, <1>3, VerifiedFacts
  <2>4. \A k : k \in 1 .. len <=> k \in 1 .. place.first \/ k \in place.first + 1 .. len
    BY <1>2, <1>3
  <2> QED
    BY <2>1, <2>2, <2>3, <2>4
<1>5. phase' \in {"boot", "rejected"}
  BY <1>1
<1>6. Types' /\ Requested' /\ Planned' /\ Copying' /\ StaysInControl'
  BY <1>1, <1>5 DEF IInv, Types, Requested, Planned, Copying, StaysInControl
<1>7. Kept'
  <2>1. phase' = "boot" => \A k \in 1 .. len : mem[Loc(k)] = k
    BY <1>1, <1>4
  <2> QED
    BY <1>1, <1>5, <2>1 DEF Kept, Loc
<1>8. RefusesOnlyStraddling'
  <2>1. ~straddled => \A k \in 1 .. len : mem[Loc(k)] = k
    BY <1>1 DEF IInv, Kept
  <2> QED
    BY <1>1, <1>4, <2>1 DEF RefusesOnlyStraddling
<1> QED
  BY <1>6, <1>7, <1>8 DEF IInv

-----------------------------------------------------------------------------
(* perform_download. *)

(* What is left of a request when its first token is gone. *)
LEMMA TailFits ==
  ASSUME h2d \in Seq(Token), h2d # <<>>, Len(h2d) <= 4,
         \A j \in 1 .. Len(h2d) : Fits(4 - Len(h2d) + j, h2d[j])
  PROVE  /\ Tail(h2d) \in Seq(Token) /\ Len(Tail(h2d)) = Len(h2d) - 1
         /\ \A j \in 1 .. Len(Tail(h2d)) : Fits(4 - Len(Tail(h2d)) + j, Tail(h2d)[j])
         /\ Fits(5 - Len(h2d), Head(h2d)) /\ Head(h2d) \in Token /\ Len(h2d) \in 1 .. 4
<1>1. /\ Tail(h2d) \in Seq(Token) /\ Len(Tail(h2d)) = Len(h2d) - 1
      /\ Len(h2d) \in Nat /\ Len(h2d) >= 1 /\ Head(h2d) = h2d[1] /\ h2d[1] \in Token
      /\ \A j \in 1 .. Len(h2d) - 1 : Tail(h2d)[j] = h2d[j + 1]
  OBVIOUS
<1>2. ASSUME NEW j \in 1 .. Len(Tail(h2d))
      PROVE  Fits(4 - Len(Tail(h2d)) + j, Tail(h2d)[j])
  <2>1. /\ j + 1 \in 1 .. Len(h2d) /\ Tail(h2d)[j] = h2d[j + 1]
        /\ 4 - Len(Tail(h2d)) + j = 4 - Len(h2d) + (j + 1)
    BY <1>1
  <2> QED
    BY <2>1
<1>3. Fits(5 - Len(h2d), Head(h2d))
  <2>1. 4 - Len(h2d) + 1 = 5 - Len(h2d) /\ 1 \in 1 .. Len(h2d)
    BY <1>1
  <2> QED
    BY <1>1, <2>1
<1> QED
  BY <1>1, <1>2, <1>3

(* A request whose first token is PUT_PROG_INFO is complete. *)
LEMMA LegacyStep ==
  ASSUME IInv, Legacy
  PROVE  IInv'
<1>1. /\ phase = "wait" /\ h2d # <<>> /\ h2d' = Tail(h2d)
      /\ phase' = IF Head(h2d) = Magic(PutProgInfo) THEN "info" ELSE "wait"
      /\ UNCHANGED <<proto, addr, len, words, place, mem, written, copied,
                     host, d2h, straddled, faults>>
  BY DEF Legacy
<1>2. /\ host = "getcode" /\ d2h = <<>> /\ h2d \in Seq(Token) /\ words = <<>>
      /\ Len(h2d) <= 4 /\ proto = "su"
      /\ \A j \in 1 .. Len(h2d) : Fits(4 - Len(h2d) + j, h2d[j])
  BY <1>1 DEF IInv, Requested, Types
<1>3. /\ Tail(h2d) \in Seq(Token) /\ Len(Tail(h2d)) = Len(h2d) - 1
      /\ \A j \in 1 .. Len(Tail(h2d)) : Fits(4 - Len(Tail(h2d)) + j, Tail(h2d)[j])
      /\ Fits(5 - Len(h2d), Head(h2d)) /\ Len(h2d) \in 1 .. 4
  BY <1>1, <1>2, TailFits
<1>5. (\A j \in 1 .. Len(h2d) : Fits(4 - Len(h2d) + j, h2d[j]))'
  BY <1>1, <1>3 DEF Fits, FitsFor
<1>6. Len(words) = 0 /\ words \in Seq(Int) /\ Told(words)'
  BY <1>1, <1>2 DEF Told
<1>7. Requested'
  <2>1. /\ host' = "getcode" /\ d2h' = <<>> /\ h2d' \in Seq(Token) /\ words' = <<>>
        /\ words' \in Seq(Int) /\ Len(words') = 0 /\ Len(h2d') <= 3 /\ Len(h2d') \in Nat
    BY <1>1, <1>2, <1>3, <1>6
  <2> QED
    BY <1>5, <1>6, <2>1 DEF Requested
<1>8. phase' \in {"wait", "info"}
  BY <1>1
<1>9. Types'
  BY <1>1, <1>2, <1>8 DEF IInv, Types
<1>10. Planned' /\ Kept' /\ StaysInControl' /\ RefusesOnlyStraddling'
  BY <1>1, <1>2, <1>8 DEF IInv, Planned, Kept, StaysInControl, RefusesOnlyStraddling
<1>11. Copying'
  BY <1>1, <1>2, <1>8 DEF IInv, Copying
<1> QED
  BY <1>7, <1>9, <1>10, <1>11 DEF IInv

(* Of a request of which nothing is lost, a word is what it is taken for. *)
LEMMA ReadInfoStep ==
  ASSUME IInv, ReadInfo
  PROVE  IInv'
<1> DEFINE v == Head(h2d)[2]
<1>1. /\ phase = "info" /\ h2d # <<>> /\ h2d' = Tail(h2d) /\ words' = Append(words, v)
      /\ UNCHANGED <<proto, addr, len, mem, written, copied, host, straddled, faults>>
  BY DEF ReadInfo
<1>2. /\ host = "getcode" /\ d2h = <<>> /\ h2d \in Seq(Token) /\ words \in Seq(Int)
      /\ Len(h2d) <= 4 /\ proto = "su"
      /\ \A j \in 1 .. Len(h2d) : Fits(4 - Len(h2d) + j, h2d[j])
      /\ Len(words) + Len(h2d) <= 3
      /\ Len(words) + Len(h2d) = 3 => Told(words)
  BY <1>1 DEF IInv, Requested, Types
<1>3. /\ Tail(h2d) \in Seq(Token) /\ Len(Tail(h2d)) = Len(h2d) - 1
      /\ \A j \in 1 .. Len(Tail(h2d)) : Fits(4 - Len(Tail(h2d)) + j, Tail(h2d)[j])
      /\ Fits(5 - Len(h2d), Head(h2d)) /\ Len(h2d) \in 1 .. 4 /\ Head(h2d) \in Token
  BY <1>1, <1>2, TailFits
<1>4. v \in Int
  BY <1>3 DEF Token
<1>5. /\ words' \in Seq(Int) /\ Len(words') = Len(words) + 1 /\ words'[Len(words) + 1] = v
      /\ \A j \in 1 .. Len(words) : words'[j] = words[j]
  BY <1>1, <1>2, <1>4
<1>6. Len(words) \in Nat
  BY <1>2
<1>7. ASSUME Len(words') + Len(h2d') = 3
      PROVE  Told(words)'
  <2>1. Len(words) + Len(h2d) = 3 /\ 5 - Len(h2d) = Len(words) + 2
    BY <1>1, <1>3, <1>5, <1>6, <1>7
  <2>2. Told(words) /\ Fits(Len(words) + 2, Head(h2d))
    BY <1>2, <1>3, <2>1
  <2>3. CASE Len(words) = 0
    <3>1. v \in Nat /\ (faults = 0 => v = addr)
      BY <2>2, <2>3 DEF Fits, FitsFor
    <3> QED
      BY <1>1, <1>5, <2>3, <3>1 DEF Told
  <2>4. CASE Len(words) = 1
    <3>1. v \in Nat
      BY <2>2, <2>4 DEF Fits, FitsFor
    <3>2. words[1] \in Nat /\ (faults = 0 => words[1] = addr)
      BY <2>2, <2>4 DEF Told
    <3>3. words'[1] = words[1] /\ words'[2] = v
      BY <1>5, <2>4
    <3> QED
      BY <1>1, <3>1, <3>2, <3>3 DEF Told
  <2>5. CASE Len(words) >= 2
    <3>1. words[1] \in Nat /\ (faults = 0 => words[1] = addr) /\ words[2] \in Nat
      BY <1>6, <2>2, <2>5 DEF Told
    <3>2. words'[1] = words[1] /\ words'[2] = words[2]
      BY <1>5, <1>6, <2>5
    <3> QED
      BY <1>1, <3>1, <3>2 DEF Told
  <2>6. \A n \in Nat : n = 0 \/ n = 1 \/ n >= 2
    OBVIOUS
  <2> QED
    BY <1>6, <2>3, <2>4, <2>5, <2>6, Zenon
<1>8. CASE Len(words') < 3
  <2>1. UNCHANGED <<phase, place, d2h>>
    BY <1>8 DEF ReadInfo
  <2>2. (\A j \in 1 .. Len(h2d) : Fits(4 - Len(h2d) + j, h2d[j]))'
    BY <1>1, <1>3 DEF Fits, FitsFor
  <2>3. /\ host' = "getcode" /\ d2h' = <<>> /\ h2d' \in Seq(Token) /\ words' \in Seq(Int)
        /\ Len(h2d') <= 4 /\ Len(words') + Len(h2d') <= 3 /\ phase' = "info"
    BY <1>1, <1>2, <1>3, <1>5, <1>6, <2>1
  <2>4. Requested'
    <3>1. (Len(words) + Len(h2d) = 3 => Told(words))'
      BY <1>7
    <3> QED
      BY <2>2, <2>3, <3>1 DEF Requested
  <2>5. Types' /\ Planned'
    BY <1>1, <1>2, <2>1 DEF IInv, Types, Planned
  <2>6. Kept' /\ Copying' /\ StaysInControl' /\ RefusesOnlyStraddling'
    BY <1>1, <2>1 DEF IInv, Kept, Copying, StaysInControl, RefusesOnlyStraddling
  <2> QED
    BY <2>4, <2>5, <2>6 DEF IInv
<1>9. CASE ~(Len(words') < 3)
  <2>1. /\ phase' = "putcode" /\ place' = legacy_calculate(words'[1], words'[2])
    BY <1>9 DEF ReadInfo
  <2>2. Len(words) = 2 /\ Len(h2d) = 1
    <3> DEFINE w == Len(words)
               q == Len(h2d)
    <3>1. w + q <= 3 /\ q \in 1 .. 4 /\ w \in Nat /\ ~(w + 1 < 3)
      BY <1>2, <1>3, <1>5, <1>6, <1>9, Zenon
    <3> HIDE DEF w, q
    <3>2. w = 2 /\ q = 1
      BY <3>1
    <3> QED
      BY <3>2 DEF w, q
  <2>3. Told(words) /\ words'[1] = words[1] /\ words'[2] = words[2]
    BY <1>2, <1>5, <2>2
  <2>4. words[1] \in Nat /\ (faults = 0 => words[1] = addr) /\ words[2] \in Nat
    BY <2>2, <2>3 DEF Told
  <2>5. Planned'
    BY <1>1, <1>2, <2>1, <2>3, <2>4 DEF Planned
  <2>6. Types' /\ Requested'
    BY <1>1, <1>2, <2>1, Zenon DEF IInv, Types, Requested
  <2>7. Kept' /\ Copying' /\ StaysInControl' /\ RefusesOnlyStraddling'
    BY <1>1, <2>1 DEF IInv, Kept, Copying, StaysInControl, RefusesOnlyStraddling
  <2> QED
    BY <2>5, <2>6, <2>7 DEF IInv
<1> QED
  BY <1>8, <1>9

(* WaitPutCode: only the phase moves. *)
LEMMA WaitPutCodeStep ==
  ASSUME IInv, WaitPutCode
  PROVE  IInv'
<1>1. /\ phase = "putcode" /\ phase' \in {"putcode", "code"}
      /\ UNCHANGED <<proto, addr, len, words, place, mem, written, copied,
                     host, d2h, straddled, faults>>
  BY DEF WaitPutCode
<1>2. Types' /\ Requested' /\ Planned'
  BY <1>1 DEF IInv, Types, Requested, Planned
<1>3. Kept' /\ Copying' /\ StaysInControl' /\ RefusesOnlyStraddling'
  BY <1>1 DEF IInv, Kept, Copying, StaysInControl, RefusesOnlyStraddling
<1> QED
  BY <1>2, <1>3 DEF IInv

(* A byte goes behind okboot: to the side buffer or to where it belongs,   *)
(* if there is memory.                                                     *)
LEMMA ReadCodeStep ==
  ASSUME IInv, ReadCode
  PROVE  IInv'
<1> DEFINE to == Dest(place) + written
           byte == Head(h2d)[2]
<1>1. /\ phase = "code" /\ written < words[2]
      /\ mem' = Copy(mem, to, <<byte>>) /\ written' = written + 1
      /\ phase' = IF Span(to, Len(<<byte>>)) \subseteq (0 .. MemTop) \ Own
                  THEN phase ELSE "crashed"
      /\ UNCHANGED <<proto, addr, len, words, place, copied, host, d2h, straddled, faults>>
  BY DEF ReadCode, Write, Dest
<1>2. proto = "su" /\ written \in Nat /\ DOMAIN mem = 0 .. MemTop
  BY <1>1 DEF IInv, Types
<1>3. /\ Dest(place) \in Nat /\ Dest(place) >= SelfEnd /\ words[2] \in Nat
      /\ ~Misplaced => Dest(place) + words[2] <= MemTop
  BY <1>1, <1>2, PlacedSu
<1>4. to \in Nat /\ to >= SelfEnd
  BY <1>2, <1>3, Sizes
<1>5. Span(to, Len(<<byte>>)) \subseteq (0 .. MemTop) \ Own <=> to <= MemTop
  <2> HIDE DEF to
  <2>1. Len(<<byte>>) = 1
    OBVIOUS
  <2>2. Span(to, 1) = {to}
    BY <1>4 DEF Span
  <2>3. to \notin Own
    BY <1>4, Sizes DEF Span, Own
  <2>4. to \in 0 .. MemTop <=> to <= MemTop
    BY <1>4, Sizes
  <2> QED
    BY <2>1, <2>2, <2>3, <2>4
<1>6. /\ phase' \in {"code", "crashed"} /\ (phase' = "code" => to <= MemTop)
      /\ phase' = "crashed" => ~(to <= MemTop)
  BY <1>1, <1>5
<1>7. Types'
  BY <1>1, <1>2, <1>6, CopyDomain DEF IInv, Types
<1>8. Requested' /\ Kept' /\ Copying' /\ RefusesOnlyStraddling'
  BY <1>1, <1>6 DEF IInv, Requested, Kept, Copying, RefusesOnlyStraddling
<1>9. Planned'
  <2>1. phase' = "code" => Dest(place) + written' <= MemTop + 1
    BY <1>1, <1>2, <1>3, <1>6, Sizes
  <2> QED
    BY <1>1, <1>2, <1>6, <2>1 DEF IInv, Planned, Dest
<1>10. StaysInControl'
  <2>1. ~Misplaced => to <= MemTop
    BY <1>1, <1>2, <1>3, Sizes
  <2>2. Misplaced' <=> Misplaced
    BY <1>1 DEF Misplaced
  <2> QED
    BY <1>6, <2>1, <2>2 DEF StaysInControl
<1> QED
  BY <1>7, <1>8, <1>9, <1>10 DEF IInv

(* The checksum is right for the whole program only, wherever it was put. *)
LEMMA VerifyCrcStep ==
  ASSUME IInv, VerifyCrc
  PROVE  IInv'
<1>1. /\ phase = "code" /\ phase' \in {"boot", "halted"} /\ written = words[2]
      /\ phase' = "boot" => legacy_verified(place, mem, words[2]) = Program
      /\ UNCHANGED <<proto, addr, len, words, place, mem, written, copied,
                     host, h2d, straddled, faults>>
  BY DEF VerifyCrc
<1>2. /\ proto = "su" /\ copied = 0 /\ len \in Nat \ {0} /\ len \in Lens /\ addr \in Loads
  BY <1>1, BootAssumption DEF IInv, Types, Copying
<1>3. /\ words[1] \in Nat /\ words[2] \in Nat /\ place.entry = words[1] /\ Dest(place) \in Nat
      /\ place = legacy_calculate(words[1], words[2])
      /\ written = 0 \/ Dest(place) + written <= MemTop + 1
  BY <1>1, <1>2, PlacedSu DEF IInv, Planned
<1>4. ASSUME phase' = "boot"
      PROVE  /\ words[2] = len /\ \A k \in 1 .. len : mem[Dest(place) + k - 1] = k
             /\ Dest(place) + len <= MemTop + 1
  <2>1. Slice(mem, Dest(place), words[2]) = Program
    BY <1>1, <1>4 DEF legacy_verified, Dest
  <2>2. words[2] = len /\ \A k \in 1 .. len : mem[Dest(place) + k - 1] = k
    <3>1. len \in Nat /\ Dest(place) \in Int
      BY <1>2, <1>3
    <3> QED
      BY <1>3, <2>1, <3>1, SliceIsProgram
  <2> QED
    BY <1>1, <1>2, <1>3, <2>2
<1>5. ASSUME phase' = "boot"
      PROVE  ~Tail_lost => \A k \in 1 .. len : mem[Loc(k)] = k
  <2>1. words[2] = len /\ Dest(place) + len <= MemTop + 1
    BY <1>4, <1>5
  <2>2. Clear(place, len) /\ (place.first > 0 <=> words[1] < SelfEnd)
    BY <1>2, <1>3, <2>1, PlacedSuBoot
  <2>3. place.first \in 0 .. len
    BY <2>2 DEF Clear
  <2>4. CASE place.entry < SelfEnd
    <3>1. Dest(place) = place.side
      BY <2>4 DEF Dest
    <3>2. ~Tail_lost => place.first = len
      BY <1>2, <1>3, <2>1, <2>2, <2>3, <2>4 DEF Tail_lost
    <3>3. place.first = len => \A k \in 1 .. len : Loc(k) = place.side + k - 1
      BY <1>2 DEF Loc
    <3> QED
      BY <1>4, <1>5, <3>1, <3>2, <3>3
  <2>5. CASE ~(place.entry < SelfEnd)
    <3>1. Dest(place) = place.entry
      BY <2>5 DEF Dest
    <3>2. place.first = 0
      BY <1>3, <2>2, <2>3, <2>5
    <3>3. \A k \in 1 .. len : Loc(k) = place.entry + k - 1
      BY <1>2, <3>2 DEF Loc
    <3> QED
      BY <1>4, <1>5, <3>1, <3>3
  <2> QED
    BY <2>4, <2>5
<1>6. Types' /\ Requested'
  BY <1>1, <1>2 DEF IInv, Types, Requested
<1>7. Planned'
  BY <1>1, <1>2, <1>4 DEF IInv, Planned, Dest
<1>8. Kept'
  BY <1>1, <1>5 DEF Kept, Loc, Tail_lost
<1>9. Copying' /\ StaysInControl' /\ RefusesOnlyStraddling'
  BY <1>1 DEF IInv, Copying, StaysInControl, RefusesOnlyStraddling
<1> QED
  BY <1>6, <1>7, <1>8, <1>9 DEF IInv

-----------------------------------------------------------------------------
(* The stub. *)

(* Where the stub is copied to there is neither okboot nor program. *)
LEMMA FinalRelocationStep ==
  ASSUME IInv, final_relocation
  PROVE  IInv'
<1> DEFINE code == [k \in 1 .. StubLen |-> Stub]
<1>1. /\ phase = "boot" /\ mem' = Copy(mem, place.stub, code)
      /\ phase' = IF Span(place.stub, Len(code)) \subseteq (0 .. MemTop) \ Own
                  THEN IF place.stub % Word = 0 THEN "stub" ELSE "crashed"
                  ELSE "crashed"
      /\ UNCHANGED <<proto, addr, len, words, place, written, copied, host, h2d, straddled, faults>>
  BY DEF final_relocation, Write, Enter
<1>2. /\ Clear(place, len) /\ len \in Nat \ {0} /\ copied = 0
      /\ DOMAIN mem = 0 .. MemTop /\ proto \in {"v2", "su"}
      /\ ~Misplaced => place.entry % Word = 0 /\ place.stub + StubLen <= MemTop
  BY <1>1, Placed DEF IInv, Types, Copying
<1>3. Len(code) = StubLen
  BY Sizes
<1> HIDE DEF code
<1>4. /\ place.base \in Nat /\ place.entry \in Nat /\ place.first \in 0 .. len
      /\ place.side \in Nat /\ place.stub \in Nat /\ place.entry + len <= MemTop + 1
      /\ place.first > 0 =>
           /\ place.base = place.entry /\ place.base + place.first <= SelfEnd
           /\ place.side >= SelfEnd /\ place.side >= place.base + len
           /\ place.side + len <= MemTop + 1 /\ place.stub >= place.side + place.first
           /\ len % Word = 0 /\ place.entry % Word = 0 => place.stub % Word = 0
      /\ place.first = 0 =>
           /\ place.stub >= place.entry + len \/ place.stub + StubLen <= place.entry
           /\ place.stub >= SelfEnd \/ place.stub + StubLen <= SelfStart
           /\ len % Word = 0 /\ place.entry % Word = 0 => place.stub % Word = 0
  BY <1>2 DEF Clear, Low
<1>5. place.stub + StubLen <= MemTop => Span(place.stub, StubLen) \subseteq (0 .. MemTop) \ Own
  <2>1. place.stub >= SelfEnd \/ place.stub + StubLen <= SelfStart
    BY <1>2, <1>4, Sizes
  <2> QED
    BY <1>4, <2>1, Sizes DEF Span, Own
<1>6. /\ phase' \in {"stub", "crashed"}
      /\ place.stub + StubLen <= MemTop /\ place.stub % Word = 0 => phase' = "stub"
  BY <1>1, <1>3, <1>5
<1>7. Types'
  BY <1>1, <1>2, <1>6, CopyDomain DEF IInv, Types
<1>8. Requested' /\ Planned' /\ RefusesOnlyStraddling'
  BY <1>1, <1>6 DEF IInv, Requested, Planned, RefusesOnlyStraddling
<1>9. StaysInControl'
  <2>1. len % Word = 0 /\ ~Misplaced => phase' = "stub"
    BY <1>2, <1>4, <1>6
  <2>2. Misplaced' <=> Misplaced
    BY <1>1 DEF Misplaced
  <2> QED
    BY <1>1, <2>1, <2>2 DEF StaysInControl
<1>10. Copying'
  <2>1. 0 % Word = 0 /\ 0 <= place.first
    BY <1>4, Sizes
  <2> QED
    BY <1>1, <1>2, <1>6, <2>1 DEF Copying
<1>11. Kept'
  <2> SUFFICES ASSUME ~Tail_lost, NEW k \in 1 .. len
               PROVE  mem'[Loc(k)] = k
    BY <1>1, <1>6 DEF Kept, Loc, Tail_lost
  <2> DEFINE at == Loc(k)
  <2>1. mem[at] = k
    BY <1>1 DEF IInv, Kept
  <2>2. /\ k <= place.first => at = place.side + k - 1
        /\ ~(k <= place.first) => at = place.entry + k - 1
    BY <1>2, <1>4 DEF Loc
  <2> HIDE DEF at
  <2>3. at \in 0 .. MemTop
    BY <1>2, <1>4, <2>2, Sizes
  <2>4. at \notin Span(place.stub, StubLen)
    <3>1. CASE place.first > 0
      <4>1. at < place.side + place.first
        BY <1>2, <1>4, <2>2, <3>1
      <4> QED
        BY <1>4, <2>3, <3>1, <4>1, Sizes DEF Span
    <3>2. CASE place.first = 0
      BY <1>2, <1>4, <2>2, <3>2, Sizes DEF Span
    <3> QED
      BY <1>4, <3>1, <3>2
  <2>5. Copy(mem, place.stub, code)[at] = mem[at]
    BY <1>2, <1>3, <2>3, <2>4 DEF Copy
  <2> QED
    BY <1>1, <2>1, <2>5 DEF at
<1> QED
  BY <1>7, <1>8, <1>9, <1>10, <1>11 DEF IInv

(* With nothing to copy, everything is where it is entered. *)
LEMMA StubBeginStep ==
  ASSUME IInv, StubBegin
  PROVE  IInv'
<1>1. /\ phase = "stub" /\ copied = 0 /\ place.first = 0
      /\ phase' = IF place.entry % Word = 0 THEN "running" ELSE "crashed"
      /\ UNCHANGED <<proto, addr, len, words, place, mem, written, copied,
                     host, h2d, d2h, straddled, faults>>
  BY DEF StubBegin, Enter
<1>2. Types' /\ Requested' /\ Planned'
  BY <1>1 DEF IInv, Types, Requested, Planned
<1>3. Kept'
  <2>1. \A k \in 1 .. len : Loc(k) = place.entry + k - 1
    BY <1>1 DEF Loc
  <2>2. ~Tail_lost => \A k \in 1 .. len : mem[Loc(k)] = k
    BY <1>1 DEF IInv, Kept
  <2> QED
    BY <1>1, <2>1, <2>2 DEF Kept, Tail_lost
<1>4. Copying' /\ RefusesOnlyStraddling'
  BY <1>1 DEF IInv, Copying, RefusesOnlyStraddling
<1>5. StaysInControl'
  <2>1. ~Misplaced => phase' = "running"
    BY <1>1, Placed
  <2>2. Misplaced' <=> Misplaced
    BY <1>1 DEF Misplaced
  <2> QED
    BY <2>1, <2>2 DEF StaysInControl
<1> QED
  BY <1>2, <1>3, <1>4, <1>5 DEF IInv

(* A word is moved from the buffer to its place, below okboot's end and    *)
(* so below the buffer and the stub; the count ends exactly at zero if it  *)
(* is one of words.                                                        *)
LEMMA StubWordStep ==
  ASSUME IInv, StubWord
  PROVE  IInv'
<1> DEFINE p == place
           to == place.base + copied
           bytes == Slice(mem, place.side + copied, Word)
<1>1. /\ phase = "stub" /\ copied < p.first /\ copied' = copied + Word
      /\ mem' = Copy(mem, to, bytes)
      /\ UNCHANGED <<proto, addr, len, words, place, written, host, h2d, d2h, straddled, faults>>
  BY DEF StubWord, Write
<1>2. /\ Clear(p, len) /\ len \in Nat \ {0} /\ copied \in Nat /\ copied % Word = 0
      /\ DOMAIN mem = 0 .. MemTop /\ Word \in Nat \ {0} /\ StubLen \in Nat
      /\ SelfEnd \in Nat /\ MemTop \in Nat /\ (~Misplaced => p.entry % Word = 0)
  BY <1>1, Placed, Sizes DEF IInv, Types, Copying
<1>3. p.first > 0 /\ p.first \in 0 .. len
  BY <1>1, <1>2 DEF Clear
<1>4. Low(p, p.base, len) /\ p.base \in Nat
  BY <1>2, <1>3 DEF Clear
<1>5. /\ p.base = p.entry /\ p.base + p.first <= SelfEnd
      /\ p.side \in Nat /\ p.side >= SelfEnd /\ p.side >= p.base + len
      /\ p.side + len <= MemTop + 1 /\ p.stub \in Nat /\ p.stub >= p.side + p.first
      /\ len % Word = 0 /\ p.entry % Word = 0 => p.first % Word = 0
  BY <1>4 DEF Low
<1>6. /\ Len(bytes) = Word
      /\ \A j \in 1 .. Word : bytes[j] = mem[p.side + copied + j - 1]
  <2>1. p.side + copied \in Int /\ Word \in Nat
    BY <1>2, <1>5
  <2> QED
    BY <2>1, SliceFacts
<1>7. phase' = IF Span(to, Len(bytes)) \subseteq (0 .. MemTop) \ Span(place.stub, StubLen)
               THEN CASE copied' < p.first -> "stub"
                      [] copied' = p.first -> Enter(p.entry, "running")
                      [] copied' > p.first -> "runaway"
               ELSE "crashed"
  BY DEF StubWord, Write
<1>8. to \in Nat /\ copied' \in Nat
  BY <1>1, <1>2, <1>4
<1> HIDE DEF bytes
<1>9. /\ phase' \in {"stub", "running", "crashed", "runaway"}
      /\ phase' = "stub" => copied' < p.first
      /\ phase' = "running" => copied' = p.first
  BY <1>3, <1>7, <1>8 DEF Enter
<1>10. Types'
  BY <1>1, <1>8, <1>9, <1>2, CopyDomain DEF IInv, Types
<1>11. Requested' /\ Planned' /\ RefusesOnlyStraddling'
  BY <1>1, <1>9 DEF IInv, Requested, Planned, RefusesOnlyStraddling
<1>12. Copying'
  <2>1. Word % Word = 0
    BY <1>2
  <2>2. (copied + Word) % Word = 0
    <3>1. copied \in Int /\ Word \in Int
      BY <1>2
    <3> QED
      BY <1>2, <2>1, <3>1, SumOfMultiples, Zenon
  <2> QED
    BY <1>1, <1>3, <1>8, <1>9, <2>2 DEF Copying
<1>13. StaysInControl'
  <2> SUFFICES ASSUME len % Word = 0, ~Misplaced PROVE phase' \notin {"crashed", "runaway"}
    BY <1>1 DEF StaysInControl, Misplaced
  <2>1. copied + Word <= p.first
    <3>1. copied \in Int /\ p.first \in Int /\ p.first % Word = 0
      BY <1>2, <1>3, <1>5
    <3> QED
      BY <1>1, <1>2, <3>1, NextMultiple, Zenon
  <2>2. Span(to, Word) \subseteq (0 .. MemTop) \ Span(p.stub, StubLen)
    <3>1. to + Word <= p.stub /\ p.stub \in Nat /\ to + Word <= MemTop + 1
      <4> DEFINE b == p.base
                 f == p.first
                 s == p.side
                 st == p.stub
      <4>1. /\ b \in Nat /\ f \in Nat /\ s \in Nat /\ st \in Nat
            /\ b + f <= SelfEnd /\ s >= SelfEnd /\ st >= s + f /\ copied + Word <= f
            /\ s + len <= MemTop + 1
        BY <1>2, <1>3, <1>4, <1>5, <2>1
      <4> HIDE DEF b, f, s, st
      <4>2. b + copied + Word <= st /\ b + copied + Word <= MemTop + 1
        BY <1>2, <4>1
      <4> QED
        BY <4>1, <4>2 DEF b, st
    <3> HIDE DEF to
    <3> QED
      BY <1>2, <1>8, <3>1 DEF Span
  <2>3. copied' < p.first \/ copied' = p.first
    BY <1>1, <1>3, <1>8, <2>1
  <2>4. phase' = CASE copied' < p.first -> "stub"
                   [] copied' = p.first -> "running"
                   [] copied' > p.first -> "runaway"
    <3>1. Enter(p.entry, "running") = "running"
      BY <1>2 DEF Enter
    <3> QED
      BY <1>6, <1>7, <2>2, <3>1
  <2>5. ~(copied' > p.first) /\ (copied' < p.first => copied' # p.first)
    BY <1>3, <1>8, <2>3
  <2> QED
    BY <2>3, <2>4, <2>5
<1>14. Kept'
  <2> SUFFICES ASSUME phase' \in {"stub", "running"}, ~Tail_lost
               PROVE  \A k \in 1 .. len :
                        mem'[IF k \in copied' + 1 .. p.first THEN p.side + k - 1
                             ELSE p.entry + k - 1] = k
    <3>1. copied' = p.first => \A k : k \notin copied' + 1 .. p.first
      BY <1>3
    <3> QED
      BY <1>1, <1>9, <3>1 DEF Kept, Loc, Tail_lost
  <2>1. copied + Word <= p.first
    BY <1>1, <1>2, <1>3, <1>9
  <2> TAKE k \in 1 .. len
  <2> DEFINE at == IF k \in copied' + 1 .. p.first THEN p.side + k - 1 ELSE p.entry + k - 1
             f == p.first
             side == p.side
             entry == p.entry
  <2>2. /\ f \in Nat /\ f <= len /\ entry \in Nat /\ entry + f <= side /\ to = entry + copied
        /\ side \in Nat /\ side + len <= MemTop + 1 /\ entry + len <= side /\ k >= 1 /\ k <= len
        /\ copied + Word <= f /\ copied' = copied + Word
    <3>1. f \in Nat /\ f <= len /\ k >= 1 /\ k <= len
      BY <1>2, <1>3
    <3>2. /\ entry \in Nat /\ to = entry + copied /\ side \in Nat /\ side + len <= MemTop + 1
          /\ entry + len <= side
      BY <1>2, <1>4, <1>5
    <3>3. entry + f <= side
      BY <1>2, <3>1, <3>2
    <3> QED
      BY <1>1, <2>1, <3>1, <3>2, <3>3
  <2>3. at = IF copied + Word < k /\ k <= f THEN side + k - 1 ELSE entry + k - 1
    BY <1>1, <1>2, <2>2
  <2>4. Loc(k) = IF copied < k /\ k <= f THEN side + k - 1 ELSE entry + k - 1
    <3>1. k \in copied + 1 .. f <=> copied < k /\ k <= f
      BY <1>2, <2>2
    <3> QED
      BY <3>1 DEF Loc
  <2>5. mem[Loc(k)] = k
    BY <1>1 DEF IInv, Kept
  <2> HIDE DEF at, f, side, entry
  <2>6. at \in 0 .. MemTop
    BY <1>2, <2>2, <2>3
  <2>7. CASE copied < k /\ k <= copied + Word
    <3>1. at = to + (k - copied) - 1 /\ k - copied \in 1 .. Word
      BY <1>2, <2>2, <2>3, <2>7
    <3>2. at \in Span(to, Word) /\ at - to + 1 = k - copied
      BY <1>2, <1>8, <3>1 DEF Span
    <3>3. Copy(mem, to, bytes)[at] = bytes[k - copied]
      BY <1>2, <1>6, <2>6, <3>2 DEF Copy
    <3>4. p.side + copied + (k - copied) - 1 = Loc(k)
      <4>1. k \in Nat /\ copied \in Nat /\ side \in Nat
        BY <1>2, <2>2
      <4>2. side + copied + (k - copied) - 1 = side + k - 1
        BY <4>1
      <4>3. copied < k /\ k <= f
        BY <1>2, <2>2, <2>7, <4>1
      <4> QED
        BY <2>4, <4>2, <4>3 DEF side
    <3>5. bytes[k - copied] = mem[Loc(k)]
      BY <1>6, <3>1, <3>4
    <3> QED
      BY <1>1, <2>5, <3>3, <3>5 DEF at, side, entry, f
  <2>8. CASE ~(copied < k /\ k <= copied + Word)
    <3>1. at = Loc(k)
      BY <1>2, <2>2, <2>3, <2>4, <2>8
    <3>2. at \notin Span(to, Word)
      BY <1>2, <2>2, <2>3, <2>8 DEF Span
    <3>3. Copy(mem, to, bytes)[at] = mem[at]
      BY <1>2, <1>6, <2>6, <3>2 DEF Copy
    <3> QED
      BY <1>1, <2>5, <3>1, <3>3 DEF at, side, entry, f
  <2> QED
    BY <2>7, <2>8
<1> QED
  BY <1>10, <1>11, <1>12, <1>13, <1>14 DEF IInv

-----------------------------------------------------------------------------
(* suboot::run and the line. *)

(* What okdude does and what happens on the line leaves okboot alone; that *)
(* something went wrong excuses an address, no more.                       *)
LEMMA Elsewhere ==
  ASSUME IInv, UNCHANGED <<proto, addr, len, device, straddled>>,
         faults' = faults \/ faults' = faults + 1
  PROVE  /\ Types' /\ Planned' /\ Kept' /\ Copying' /\ StaysInControl' /\ RefusesOnlyStraddling'
         /\ UNCHANGED <<phase, words>> /\ (faults' = 0 => faults = 0)
<1>1. /\ UNCHANGED <<proto, addr, len, phase, words, place, mem, written, copied, straddled>>
      /\ faults \in Nat
  BY DEF device, IInv, Types
<1>2. faults' \in Nat /\ (faults' = 0 => faults = 0)
  BY <1>1
<1>3. Types'
  BY <1>1, <1>2 DEF IInv, Types
<1>4. Planned'
  BY <1>1, <1>2 DEF IInv, Planned
<1>5. Kept'
  BY <1>1 DEF IInv, Kept, Loc, Tail_lost
<1>6. Copying' /\ StaysInControl' /\ RefusesOnlyStraddling'
  BY <1>1 DEF IInv, Copying, StaysInControl, RefusesOnlyStraddling, Null_base, Misplaced
<1> QED
  BY <1>1, <1>2, <1>3, <1>4, <1>5, <1>6

(* The request is sent once, and whole. *)
LEMMA HostPutProgInfoStep ==
  ASSUME IInv, HostPutProgInfo
  PROVE  IInv'
<1> DEFINE r == <<Magic(PutProgInfo), <<"addr", addr>>, <<"len", len>>, <<"crc", Crc>>>>
<1>1. /\ host = "start" /\ host' = "getcode" /\ h2d' = h2d \o r
      /\ UNCHANGED <<proto, addr, len, device, d2h, straddled, faults>>
  BY DEF HostPutProgInfo
<1>2. /\ Types' /\ Planned' /\ Kept' /\ Copying' /\ StaysInControl' /\ RefusesOnlyStraddling'
      /\ UNCHANGED <<phase, words>>
  BY <1>1, Elsewhere
<1>3. Requested'
  <2> SUFFICES ASSUME phase \in {"wait", "info"} PROVE Requested'
    BY <1>2 DEF Requested
  <2>1. phase = "wait" /\ h2d = <<>> /\ d2h = <<>> /\ words = <<>>
    BY <1>1 DEF IInv, Requested
  <2>2. addr \in Nat /\ len \in Nat /\ addr \in Int /\ len \in Int
    BY BootAssumption DEF IInv, Types
  <2>3. r \in Seq(Token) /\ Len(r) = 4
    <3>1. /\ Magic(PutProgInfo) \in Token /\ <<"addr", addr>> \in Token
          /\ <<"len", len>> \in Token /\ <<"crc", Crc>> \in Token
      BY <2>2 DEF Magic, PutProgInfo, Crc, Token
    <3> QED
      BY <3>1
  <2>4. /\ r[1] = <<"magic", 1>> /\ r[2] = <<"addr", addr>> /\ r[3] = <<"len", len>>
        /\ r[4] = <<"crc", 1>>
    BY DEF Magic, PutProgInfo, Crc
  <2> HIDE DEF r
  <2>5. h2d' = r
    BY <1>1, <2>1, <2>3
  <2>6. (\A j \in 1 .. Len(h2d) : Fits(4 - Len(h2d) + j, h2d[j]))'
    <3>1. \A j \in 1 .. 4 : FitsFor(j, r[j], addr, faults' = 0)
      BY <2>2, <2>4 DEF FitsFor
    <3>2. \A j \in 1 .. 4 : 4 - 4 + j = j
      OBVIOUS
    <3> QED
      BY <1>1, <2>3, <2>5, <3>1, <3>2 DEF Fits
  <2>7. words' = <<>> /\ words' \in Seq(Int) /\ phase' = "wait" /\ d2h' = <<>> /\ Len(h2d') <= 4
    <3>1. <<>> \in Seq(Int)
      OBVIOUS
    <3>2. words' = <<>> /\ phase' = "wait" /\ d2h' = <<>>
      BY <1>1, <1>2, <2>1
    <3>3. Len(h2d') <= 4
      <4>1. Len(h2d') = 4
        BY <2>3, <2>5, Zenon
      <4> QED
        BY <4>1
    <3> QED
      BY <3>1, <3>2, <3>3
  <2> QED
    BY <1>1, <2>3, <2>5, <2>6, <2>7 DEF Requested
<1> QED
  BY <1>2, <1>3 DEF IInv

(* Before it is answered okdude does nothing else. *)
LEMMA HostOtherStep ==
  ASSUME IInv, HostMatch \/ HostCrc \/ HostCrcTimeout
  PROVE  IInv'
<1>1. UNCHANGED <<proto, addr, len, device, straddled, faults>>
  BY DEF HostMatch, HostCrc, HostCrcTimeout
<1>2. /\ Types' /\ Planned' /\ Kept' /\ Copying' /\ StaysInControl' /\ RefusesOnlyStraddling'
      /\ UNCHANGED <<phase, words>>
  BY <1>1, Elsewhere
<1>3. phase \notin {"wait", "info"}
  BY DEF IInv, Requested, HostMatch, HostCrc, HostCrcTimeout
<1> QED
  BY <1>2, <1>3 DEF IInv, Requested

(* An altered word is one the line could carry, and counts as a fault. *)
LEMMA AlteredFits ==
  ASSUME NEW k \in 1 .. 4, NEW h \in Token, NEW a, NEW b \in BOOLEAN, FitsFor(k, h, a, b),
         NEW t \in Altered(h)
  PROVE  t \in Token /\ FitsFor(k, t, a, FALSE)
<1>1. Words \subseteq Nat /\ Bad \in Int
  BY BootAssumption, RelocationAssumption DEF Bad
<1>2. h[1] \in {"magic", "addr", "len", "crc"}
  BY DEF Token
<1>3. CASE h[1] = "addr" \/ h[1] = "len"
  <2>1. Altered(h) = {h[1]} \X Words
    BY <1>3 DEF Altered
  <2>2. t = <<t[1], t[2]>> /\ t[1] = h[1] /\ t[2] \in Words
    BY <2>1
  <2>3. t[2] \in Nat /\ t \in Token
    BY <1>1, <1>2, <2>2 DEF Token
  <2> QED
    BY <1>3, <2>2, <2>3 DEF FitsFor
<1>5. CASE h[1] # "addr" /\ h[1] # "len"
  <2>1. Altered(h) = {h[1]} \X {Bad}
    BY <1>5 DEF Altered
  <2>2. t[1] = h[1] /\ t \in Token
    BY <1>1, <1>2, <2>1 DEF Token
  <2> QED
    BY <1>5, <2>2 DEF FitsFor
<1> QED
  BY <1>3, <1>5

(* A token lost is missed to the end; a token altered keeps its kind. *)
LEMMA FaultStep ==
  ASSUME IInv, Fault
  PROVE  IInv'
<1>1. UNCHANGED <<proto, addr, len, device, host, straddled>> /\ faults' = faults + 1
  BY DEF Fault
<1>2. /\ Types' /\ Planned' /\ Kept' /\ Copying' /\ StaysInControl' /\ RefusesOnlyStraddling'
      /\ UNCHANGED <<phase, words>> /\ (faults' = 0 => faults = 0)
  BY <1>1, Elsewhere
<1>3. Requested'
  <2> SUFFICES ASSUME phase \in {"wait", "info"} PROVE Requested'
    BY <1>2 DEF Requested
  <2>1. /\ host \in {"start", "getcode"} /\ d2h = <<>> /\ h2d \in Seq(Token)
        /\ host = "start" => phase = "wait" /\ h2d = <<>>
        /\ words \in Seq(Int) /\ Len(h2d) <= 4
        /\ \A j \in 1 .. Len(h2d) : Fits(4 - Len(h2d) + j, h2d[j])
        /\ phase = "wait" => words = <<>>
        /\ phase = "info" =>
             /\ Len(words) + Len(h2d) <= 3
             /\ Len(words) + Len(h2d) = 3 => Told(words)
    BY DEF IInv, Requested
  <2>2. h2d # <<>> /\ d2h' = <<>>
    BY <2>1 DEF Fault
  <2>3. /\ Tail(h2d) \in Seq(Token) /\ Len(Tail(h2d)) = Len(h2d) - 1
        /\ \A j \in 1 .. Len(Tail(h2d)) : Fits(4 - Len(Tail(h2d)) + j, Tail(h2d)[j])
        /\ Fits(5 - Len(h2d), Head(h2d)) /\ Len(h2d) \in 1 .. 4 /\ Head(h2d) \in Token
    BY <2>1, <2>2, TailFits
  <2>4. host = "getcode" /\ host' = "getcode" /\ phase' = phase /\ words' = words
    BY <1>1, <1>2, <2>1, <2>2
  <2>5. Len(words) \in Nat /\ (Told(words) => Told(words)')
    BY <1>1, <1>2, <2>1 DEF Told
  <2>6. CASE h2d' = Tail(h2d)
    <3>1. (\A j \in 1 .. Len(h2d) : Fits(4 - Len(h2d) + j, h2d[j]))'
      BY <1>1, <1>2, <2>3, <2>6 DEF Fits, FitsFor
    <3>2. Len(h2d') <= 4 /\ h2d' \in Seq(Token) /\ Len(h2d') = Len(h2d) - 1
      BY <2>3, <2>6
    <3>3. phase' = "info" => Len(words') + Len(h2d') < 3
      BY <2>1, <2>3, <2>4, <2>5, <3>2
    <3>4. phase' = "info" => Len(words') + Len(h2d') <= 3 /\ Len(words') + Len(h2d') # 3
      BY <2>3, <2>4, <2>5, <3>2, <3>3
    <3> QED
      BY <2>1, <2>2, <2>4, <3>1, <3>2, <3>4 DEF Requested
  <2>7. ASSUME NEW t \in Altered(Head(h2d)), h2d' = <<t>> \o Tail(h2d)
        PROVE  Requested'
    <3>1. t \in Token /\ FitsFor(5 - Len(h2d), t, addr, FALSE)
      <4>1. /\ 5 - Len(h2d) \in 1 .. 4 /\ (faults = 0) \in BOOLEAN
            /\ FitsFor(5 - Len(h2d), Head(h2d), addr, faults = 0)
        BY <2>3 DEF Fits
      <4> QED
        BY <2>3, <2>7, <4>1, AlteredFits
    <3>0. addr' = addr /\ (faults' = 0) = FALSE
      BY <1>1 DEF IInv, Types
    <3>2. /\ h2d' \in Seq(Token) /\ Len(h2d') = Len(h2d) /\ h2d'[1] = t
          /\ \A j \in 2 .. Len(h2d) : h2d'[j] = h2d[j]
      BY <2>1, <2>2, <2>7, <3>1
    <3>3. (\A j \in 1 .. Len(h2d) : Fits(4 - Len(h2d) + j, h2d[j]))'
      <4> SUFFICES ASSUME NEW j \in 1 .. Len(h2d)
                   PROVE  (Fits(4 - Len(h2d) + j, h2d[j]))'
        BY <3>2
      <4>1. CASE j = 1
        <5>1. 4 - Len(h2d') + j = 5 - Len(h2d)
          BY <2>3, <3>2, <4>1
        <5>2. FitsFor(4 - Len(h2d') + j, h2d'[j], addr', faults' = 0)
          BY <3>0, <3>1, <3>2, <4>1, <5>1
        <5> QED
          BY <5>2 DEF Fits
      <4>2. CASE j # 1
        <5>1. h2d'[j] = h2d[j] /\ FitsFor(4 - Len(h2d) + j, h2d[j], addr, faults = 0)
          BY <2>1, <2>3, <3>2, <4>2 DEF Fits
        <5>2. FitsFor(4 - Len(h2d') + j, h2d'[j], addr', FALSE)
          BY <3>0, <3>2, <5>1 DEF FitsFor
        <5> QED
          BY <3>0, <5>2 DEF Fits
      <4> QED
        BY <4>1, <4>2
    <3> QED
      BY <2>1, <2>2, <2>4, <2>5, <3>2, <3>3 DEF Requested
  <2> QED
    BY <2>1, <2>2, <2>6, <2>7 DEF Fault
<1> QED
  BY <1>2, <1>3 DEF IInv

-----------------------------------------------------------------------------

(* Every step keeps the invariant. *)
LEMMA Inductive ==
  ASSUME IInv, [Next]_vars
  PROVE  IInv'
<1>1. CASE UNCHANGED vars
  <2>1. /\ UNCHANGED <<proto, addr, len, device, straddled>> /\ faults' = faults
        /\ UNCHANGED <<host, h2d, d2h>>
    BY <1>1 DEF vars
  <2>2. /\ Types' /\ Planned' /\ Kept' /\ Copying' /\ StaysInControl' /\ RefusesOnlyStraddling'
        /\ UNCHANGED <<phase, words>>
    BY <2>1, Elsewhere
  <2>3. Requested'
    BY <2>1, <2>2 DEF IInv, Requested, Fits, Told
  <2> QED
    BY <2>2, <2>3 DEF IInv
<1>2. CASE DeviceStep
  BY <1>2, ReceiveStep, FinalizeStep, LegacyStep, ReadInfoStep, WaitPutCodeStep, ReadCodeStep,
     VerifyCrcStep, FinalRelocationStep, StubBeginStep, StubWordStep DEF DeviceStep
<1>3. CASE HostStep
  BY <1>3, HostPutProgInfoStep, HostOtherStep DEF HostStep
<1>4. CASE Fault
  BY <1>4, FaultStep
<1> QED
  BY <1>1, <1>2, <1>3, <1>4 DEF Next

(* The invariant holds throughout. *)
LEMMA IInvAlways == Spec => []IInv
  BY IInvInit, Inductive, PTL DEF Spec

(* A program that okboot enters, by either protocol and over a line that   *)
(* loses and alters what it likes, is complete at its entry point, and     *)
(* that is where the operator wanted it (save for the cases the property   *)
(* names).                                                                 *)
THEOREM EnteredProgramIsIntact == Spec => []EnteredIntact
<1>1. IInv => EnteredIntact
  <2> SUFFICES ASSUME IInv, phase = "running", ~Tail_lost
               PROVE  /\ Slice(mem, place.entry, len) = Program
                      /\ place.entry = addr \/ Null_base \/ faults > 0
    BY DEF EnteredIntact
  <2>1. /\ proto \in {"v2", "su"} /\ len \in Lens /\ Lens \subseteq Nat
        /\ len \in Nat /\ faults \in Nat
    BY BootAssumption DEF IInv, Types
  <2>2. \A k \in 1 .. len : mem[place.entry + k - 1] = k
    BY DEF IInv, Kept
  <2>3. place.entry \in Int /\ (place.entry = addr \/ Null_base \/ faults > 0)
    <3>1. CASE proto = "v2"
      BY <3>1, PlacedV2 DEF Clear
    <3>2. CASE proto = "su"
      <4>1. place.entry = words[1] /\ words[1] \in Nat /\ (faults = 0 => place.entry = addr)
        BY <3>2, PlacedSu
      <4>2. place.entry \in Nat
        BY <4>1
      <4> QED
        BY <2>1, <4>1, <4>2
    <3> QED
      BY <2>1, <3>1, <3>2
  <2> QED
    BY <2>1, <2>2, <2>3, SliceIsProgram
<1> QED
  BY <1>1, IInvAlways, PTL

(* okboot and its stub never destroy the code they are executing nor run   *)
(* away, whatever the sizes and whatever the line does to a request, for a *)
(* program of whole words, unless the words received by SU-BOOT misplace   *)
(* it or V2 lost its base address.                                         *)
THEOREM LoaderStaysInControl == Spec => []StaysInControl
  BY IInvAlways, PTL DEF IInv

(* verify_integrity turns a program down only when a piece of it lay       *)
(* across the end of the relocated bytes.                                  *)
THEOREM OnlyStraddlingIsRefused == Spec => []RefusesOnlyStraddling
  BY IInvAlways, PTL DEF IInv
=============================================================================
