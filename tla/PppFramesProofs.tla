--------------------------- MODULE PppFramesProofs ---------------------------
(***************************************************************************)
(* The handler and the main loop of antimony share the receive ring        *)
(* without a lock around the frame that is being read.  Proved here for    *)
(* rings and buffers of every size: as long as no buffer was denied, the   *)
(* handler leaves the frame the main loop holds alone; as long as no byte  *)
(* was lost on the line, every frame fits into its buffer, whatever was    *)
(* denied and wherever an interrupt ended; and whatever was lost or        *)
(* denied, frames are taken in the order in which they were sent.          *)
(***************************************************************************)
EXTENDS PppFrames, TLAPS

-----------------------------------------------------------------------------
(* The inductive invariant. *)

(* Whether a frame is being received: the handler has the newest answer. *)
Receiving == IF rxi.on THEN rxi.in_packet ELSE in_packet

(* The slot that is u slots after r. *)
After(r, u) == IF r + u >= N THEN r + u - N ELSE r + u

(* Lengths are numbers, and a buffer has nothing but a length and bytes. *)
OkBuffers(bs) ==
  /\ bs = [i \in Slot |-> bs[i]]
  /\ \A i \in Slot : /\ bs[i] = [len |-> bs[i].len, bytes |-> bs[i].bytes]
                     /\ bs[i].len \in Nat

BufferTypes == OkBuffers(buffers)

RxiTypes ==
  /\ rxi = [on |-> rxi.on, in_packet |-> rxi.in_packet, denied |-> rxi.denied,
            buf |-> rxi.buf, last_esc |-> rxi.last_esc, bi |-> rxi.bi]
  /\ rxi.on \in BOOLEAN /\ rxi.in_packet \in BOOLEAN /\ rxi.denied \in BOOLEAN
  /\ in_packet \in BOOLEAN /\ held.on \in BOOLEAN
  /\ rxi.bi \in Nat

Heads ==
  /\ write_head \in Slot /\ finished_head \in Slot /\ read_head \in Slot
  /\ free_buffers \in 0 .. N
  /\ write_head = After(read_head, N - free_buffers)

(* Before the first flag the ring is empty; from then on the newest buffer *)
(* is always one that is being filled, and it is the only unfinished one.  *)
Filling ==
  /\ ~Receiving => free_buffers = N /\ finished_head = write_head
  /\ Receiving => free_buffers < N /\ write_head = Inc(finished_head)
  /\ rxi.on /\ rxi.in_packet => rxi.buf = Dec(write_head) /\ rxi.bi >= 1
  /\ rxi.on /\ ~rxi.in_packet => rxi.bi = 0
  /\ ~rxi.on /\ in_packet => buffers[Dec(write_head)].len >= 1

(* The frame that is held is the oldest one and it is not being filled. *)
Reading ==
  held.on => /\ held.idx = read_head
             /\ held.len = buffers[read_head].len
             /\ N - free_buffers >= 2

IInv ==
  ~denied => ~rxi.denied /\ BufferTypes /\ RxiTypes /\ Heads /\ Filling /\ Reading

-----------------------------------------------------------------------------
(* The ring. *)

(* Inc and Dec of RecvChannel are inverse on the slots. *)
LEMMA IncDec ==
  ASSUME NEW h \in Slot
  PROVE  Inc(h) \in Slot /\ Dec(h) \in Slot /\ Dec(Inc(h)) = h /\ Inc(Dec(h)) = h
BY FramesAssumption DEF Inc, Dec, Slot

(* Inc tells two slots apart. *)
LEMMA IncInjective ==
  ASSUME NEW g \in Slot, NEW h \in Slot, Inc(g) = Inc(h)
  PROVE  g = h
BY IncDec

(* A buffer more: the write head moves on. *)
LEMMA AfterGrows ==
  ASSUME NEW r \in Slot, NEW u \in 0 .. N - 1
  PROVE  Inc(After(r, u)) = After(r, u + 1)
BY FramesAssumption DEF Inc, After, Slot

(* A buffer less, at the other end: the write head stays. *)
LEMMA AfterShrinks ==
  ASSUME NEW r \in Slot, NEW u \in 1 .. N
  PROVE  After(Inc(r), u - 1) = After(r, u)
BY FramesAssumption DEF Inc, After, Slot

(* Neither the buffer being filled nor the next one is the oldest one. *)
LEMMA AfterApart ==
  ASSUME NEW r \in Slot, NEW u \in 2 .. N
  PROVE  /\ After(r, u) \in Slot
         /\ Dec(After(r, u)) # r
         /\ u < N => After(r, u) # r
BY FramesAssumption DEF Dec, After, Slot

(* One buffer in use: it is the oldest one and it is being filled. *)
LEMMA AfterOne ==
  ASSUME NEW r \in Slot
  PROVE  After(r, 1) = Inc(r) /\ After(r, 0) = r
BY FramesAssumption DEF Inc, After, Slot

(* The two stores of the handler: a length, a byte. *)
WithLen(bs, k, v) == [bs EXCEPT ![k].len = v]
WithByte(bs, k, j, v) == [bs EXCEPT ![k].bytes[j] = v]

(* Storing a length (buffers[i].len = bi) changes that length only. *)
LEMMA SetLength ==
  ASSUME NEW bs, OkBuffers(bs), NEW k \in Slot, NEW v \in Nat
  PROVE  /\ OkBuffers(WithLen(bs, k, v))
         /\ WithLen(bs, k, v)[k].len = v
         /\ \A i \in Slot \ {k} : WithLen(bs, k, v)[i].len = bs[i].len
<1> DEFINE cs == WithLen(bs, k, v)
<1>1. cs = [bs EXCEPT ![k] = [bs[k] EXCEPT !.len = v]]
  BY DEF WithLen
<1>2. [bs[k] EXCEPT !.len = v] = [len |-> v, bytes |-> bs[k].bytes]
  BY DEF OkBuffers
<1>3. cs = [i \in Slot |-> IF i = k THEN [len |-> v, bytes |-> bs[k].bytes] ELSE bs[i]]
  BY <1>1, <1>2 DEF OkBuffers
<1> HIDE DEF cs
<1>4. cs[k] = [len |-> v, bytes |-> bs[k].bytes] /\ \A i \in Slot \ {k} : cs[i] = bs[i]
  BY <1>3
<1>5. cs = [i \in Slot |-> cs[i]]
  BY <1>3
<1>6. OkBuffers(cs) /\ cs[k].len = v /\ \A i \in Slot \ {k} : cs[i].len = bs[i].len
  BY <1>4, <1>5 DEF OkBuffers
<1> QED
  BY <1>6 DEF cs

(* Storing a byte (buffers[i].buffer[j] = byte) changes no length. *)
LEMMA SetByte ==
  ASSUME NEW bs, OkBuffers(bs), NEW k \in Slot, NEW j, NEW v
  PROVE  /\ OkBuffers(WithByte(bs, k, j, v))
         /\ \A i \in Slot : WithByte(bs, k, j, v)[i].len = bs[i].len
<1> DEFINE cs == WithByte(bs, k, j, v)
           nb == [bs[k].bytes EXCEPT ![j] = v]
<1>1. cs = [bs EXCEPT ![k] = [bs[k] EXCEPT !.bytes = nb]]
  BY DEF WithByte
<1> HIDE DEF nb
<1>2. [bs[k] EXCEPT !.bytes = nb] = [len |-> bs[k].len, bytes |-> nb]
  BY DEF OkBuffers
<1>3. cs = [i \in Slot |-> IF i = k THEN [len |-> bs[k].len, bytes |-> nb] ELSE bs[i]]
  BY <1>1, <1>2 DEF OkBuffers
<1> HIDE DEF cs
<1>4. cs[k] = [len |-> bs[k].len, bytes |-> nb] /\ \A i \in Slot \ {k} : cs[i] = bs[i]
  BY <1>3
<1>5. cs = [i \in Slot |-> cs[i]]
  BY <1>3
<1>6. OkBuffers(cs) /\ \A i \in Slot : cs[i].len = bs[i].len
  BY <1>4, <1>5 DEF OkBuffers
<1> QED
  BY <1>6 DEF cs

(* The store of drain_uart_buffer when it opens a buffer. *)
LEMMA OpenStores ==
  ASSUME RxiTypes, NEW x, NEW y, NEW z, NEW u
  PROVE  [rxi EXCEPT !.buf = u, !.in_packet = x, !.last_esc = z, !.bi = y] =
           [on |-> rxi.on, in_packet |-> x, denied |-> rxi.denied, buf |-> u,
            last_esc |-> z, bi |-> y]
<1>1. rxi = [on |-> rxi.on, in_packet |-> rxi.in_packet, denied |-> rxi.denied,
             buf |-> rxi.buf, last_esc |-> rxi.last_esc, bi |-> rxi.bi]
  BY DEF RxiTypes
<1>2. [rxi EXCEPT !.buf = u, !.in_packet = x, !.last_esc = z, !.bi = y] =
        [[[[rxi EXCEPT !.buf = u] EXCEPT !.in_packet = x] EXCEPT !.last_esc = z] EXCEPT !.bi = y]
  OBVIOUS
<1> DEFINE c == [rxi EXCEPT !.buf = u]
           d == [c EXCEPT !.in_packet = x]
           e == [d EXCEPT !.last_esc = z]
<1>3. c = [on |-> rxi.on, in_packet |-> rxi.in_packet, denied |-> rxi.denied,
           buf |-> u, last_esc |-> rxi.last_esc, bi |-> rxi.bi]
  BY <1>1
<1> HIDE DEF c
<1>4. d = [on |-> rxi.on, in_packet |-> x, denied |-> rxi.denied,
           buf |-> u, last_esc |-> rxi.last_esc, bi |-> rxi.bi]
  BY <1>3
<1> HIDE DEF d
<1>5. e = [on |-> rxi.on, in_packet |-> x, denied |-> rxi.denied,
           buf |-> u, last_esc |-> z, bi |-> rxi.bi]
  BY <1>4
<1> HIDE DEF e
<1>6. [e EXCEPT !.bi = y] = [on |-> rxi.on, in_packet |-> x, denied |-> rxi.denied,
                             buf |-> u, last_esc |-> z, bi |-> y]
  BY <1>5
<1> QED
  BY <1>2, <1>6 DEF c, d, e

(* The stores of drain_uart_buffer to its locals. *)
LEMMA LocalStores ==
  ASSUME RxiTypes, NEW x, NEW y, NEW z, NEW u
  PROVE  /\ [rxi EXCEPT !.denied = x, !.bi = y] =
               [on |-> rxi.on, in_packet |-> rxi.in_packet, denied |-> x, buf |-> rxi.buf,
                last_esc |-> rxi.last_esc, bi |-> y]
         /\ [rxi EXCEPT !.buf = u, !.in_packet = x, !.last_esc = z, !.bi = y] =
               [on |-> rxi.on, in_packet |-> x, denied |-> rxi.denied, buf |-> u,
                last_esc |-> z, bi |-> y]
         /\ [rxi EXCEPT !.last_esc = z] =
               [on |-> rxi.on, in_packet |-> rxi.in_packet, denied |-> rxi.denied,
                buf |-> rxi.buf, last_esc |-> z, bi |-> rxi.bi]
         /\ [rxi EXCEPT !.last_esc = z, !.bi = y] =
               [on |-> rxi.on, in_packet |-> rxi.in_packet, denied |-> rxi.denied,
                buf |-> rxi.buf, last_esc |-> z, bi |-> y]
<1>1. rxi = [on |-> rxi.on, in_packet |-> rxi.in_packet, denied |-> rxi.denied,
             buf |-> rxi.buf, last_esc |-> rxi.last_esc, bi |-> rxi.bi]
  BY DEF RxiTypes
<1>2. [rxi EXCEPT !.denied = x, !.bi = y] = [[rxi EXCEPT !.denied = x] EXCEPT !.bi = y]
  OBVIOUS
<1>3. [rxi EXCEPT !.last_esc = z, !.bi = y] = [[rxi EXCEPT !.last_esc = z] EXCEPT !.bi = y]
  OBVIOUS
<1> DEFINE a == [rxi EXCEPT !.denied = x]
           b == [rxi EXCEPT !.last_esc = z]
<1>4. a = [on |-> rxi.on, in_packet |-> rxi.in_packet, denied |-> x, buf |-> rxi.buf,
           last_esc |-> rxi.last_esc, bi |-> rxi.bi]
  BY <1>1
<1>5. b = [on |-> rxi.on, in_packet |-> rxi.in_packet, denied |-> rxi.denied,
           buf |-> rxi.buf, last_esc |-> z, bi |-> rxi.bi]
  BY <1>1
<1> HIDE DEF a, b
<1>6. /\ [a EXCEPT !.bi = y] =
            [on |-> rxi.on, in_packet |-> rxi.in_packet, denied |-> x, buf |-> rxi.buf,
             last_esc |-> rxi.last_esc, bi |-> y]
      /\ [b EXCEPT !.bi = y] =
            [on |-> rxi.on, in_packet |-> rxi.in_packet, denied |-> rxi.denied,
             buf |-> rxi.buf, last_esc |-> z, bi |-> y]
  BY <1>4, <1>5
<1>7. [rxi EXCEPT !.buf = u, !.in_packet = x, !.last_esc = z, !.bi = y] =
        [on |-> rxi.on, in_packet |-> x, denied |-> rxi.denied, buf |-> u,
         last_esc |-> z, bi |-> y]
  BY OpenStores, Zenon
<1> QED
  BY <1>2, <1>3, <1>5, <1>6, <1>7 DEF a, b

(* What the invariant says of the two slots the handler writes to. *)
LEMMA HandlerElsewhere ==
  ASSUME Heads, Filling, Reading, RxiTypes, held.on
  PROVE  /\ Dec(write_head) # read_head
         /\ free_buffers > 0 => write_head # read_head
<1> DEFINE u == N - free_buffers
<1>1. u \in 2 .. N /\ (free_buffers > 0 => u < N)
  BY FramesAssumption DEF Heads, Reading
<1>2. write_head = After(read_head, u) /\ read_head \in Slot
  BY DEF Heads
<1> HIDE DEF u
<1> QED
  BY <1>1, <1>2, AfterApart

(* The start. *)
LEMMA InitInv == Init => IInv
<1> SUFFICES ASSUME Init PROVE IInv
  OBVIOUS
<1>1. 0 \in Slot /\ N \in Nat \ {0} /\ After(0, 0) = 0
  BY FramesAssumption DEF Slot, After
<1>2. BufferTypes
  BY DEF Init, BufferTypes, OkBuffers
<1>3. RxiTypes /\ ~rxi.denied
  BY DEF Init, RxiTypes, Idle, None
<1>4. Heads
  BY <1>1 DEF Init, Heads
<1>5. Filling /\ Reading
  BY <1>1 DEF Init, Filling, Reading, Receiving, Idle, None
<1> QED
  BY <1>2, <1>3, <1>4, <1>5 DEF IInv

(* What the ring's owner does not touch keeps the invariant. *)
ownVars == <<ringVars, in_packet, rxi, held, denied>>

(* A step that leaves the ring, its heads and the handler alone. *)
LEMMA OthersKeepInv ==
  ASSUME IInv, UNCHANGED ownVars
  PROVE  IInv'
BY DEF IInv, ownVars, ringVars, BufferTypes, OkBuffers, RxiTypes, Heads, Filling, Reading,
       Receiving

-----------------------------------------------------------------------------
(* The handler. *)

(* The handler begins: it takes the buffer in progress up again. *)
LEMMA DrainBeginKeepsInv ==
  ASSUME IInv, DrainBegin
  PROVE  IInv'
<1> SUFFICES ASSUME ~denied PROVE IInv'
  BY DEF IInv, DrainBegin, history
<1> USE DEF IInv
<1>1. /\ rxi' = [on |-> TRUE, in_packet |-> in_packet, denied |-> FALSE,
                 buf |-> Dec(write_head), last_esc |-> FALSE,
                 bi |-> IF in_packet THEN buffers[Dec(write_head)].len ELSE 0]
      /\ UNCHANGED <<ringVars, in_packet, held, denied>>
      /\ ~rxi.on
  BY DEF DrainBegin, history
<1>2. /\ rxi'.on = TRUE /\ rxi'.in_packet = in_packet /\ rxi'.denied = FALSE
      /\ rxi'.buf = Dec(write_head)
      /\ rxi'.bi = IF in_packet THEN buffers[Dec(write_head)].len ELSE 0
  BY <1>1
<1>3. Dec(write_head) \in Slot /\ buffers[Dec(write_head)].len \in Nat
  BY IncDec DEF Heads, BufferTypes, OkBuffers
<1>4. BufferTypes' /\ Heads' /\ Reading'
  BY <1>1 DEF BufferTypes, OkBuffers, Heads, Reading, ringVars
<1>5. RxiTypes'
  <2>1. rxi'.bi \in Nat
    BY <1>2, <1>3
  <2>2. rxi' = [on |-> rxi'.on, in_packet |-> rxi'.in_packet, denied |-> rxi'.denied,
                buf |-> rxi'.buf, last_esc |-> rxi'.last_esc, bi |-> rxi'.bi]
    BY <1>1
  <2> QED
    BY <1>1, <1>2, <2>1, <2>2 DEF RxiTypes
<1>6. Filling'
  BY <1>1, <1>2 DEF Filling, Receiving, RxiTypes, ringVars
<1> QED
  BY <1>2, <1>4, <1>5, <1>6

(* A flag: the three cases of drain_uart_buffer. *)
LEMMA DrainFlagKeepsInv ==
  ASSUME IInv, DrainFlag
  PROVE  IInv'
<1> DEFINE closed == IF Finishes THEN [buffers EXCEPT ![rxi.buf].len = rxi.bi] ELSE buffers
<1>0. CASE denied
  BY <1>0 DEF DrainFlag, IInv
<1>1. CASE ~denied /\ rxi.bi = 1
  <2>1. UNCHANGED ownVars
    <3>1. ~Finishes
      BY <1>1 DEF Finishes
    <3> QED
      BY <1>1, <3>1 DEF DrainFlag, ownVars, ringVars
  <2> QED
    BY <2>1, OthersKeepInv
<1>2. CASE ~denied /\ rxi.bi # 1 /\ free_buffers = 0
  BY <1>2 DEF DrainFlag, IInv
<1>3. CASE ~denied /\ rxi.bi # 1 /\ free_buffers > 0
  <2> USE DEF IInv
  <2>1. /\ rxi.on /\ ~rxi.denied
        /\ finished_head' = IF Finishes THEN Inc(finished_head) ELSE finished_head
        /\ write_head' = Inc(write_head)
        /\ free_buffers' = free_buffers - 1
        /\ rxi' = [rxi EXCEPT !.buf = write_head, !.in_packet = TRUE,
                              !.last_esc = FALSE, !.bi = 1]
        /\ buffers' = [closed EXCEPT ![write_head].len = 1,
                                     ![write_head].bytes[0] = HDLC_FLAG]
        /\ UNCHANGED <<read_head, in_packet, held, denied>>
    <3>1. ~denied /\ rxi.bi # 1 /\ free_buffers # 0
      BY <1>3
    <3> QED
      BY <3>1, Zenon DEF DrainFlag, Taken
  <2>2. rxi' = [on |-> TRUE, in_packet |-> TRUE, denied |-> FALSE,
                buf |-> write_head, last_esc |-> FALSE, bi |-> 1]
    <3>1. RxiTypes /\ rxi.on = TRUE /\ rxi.denied = FALSE
      BY <1>3, <2>1 DEF RxiTypes
    <3> QED
      BY <2>1, <3>1, LocalStores, Zenon
  <2>3. /\ rxi'.on = TRUE /\ rxi'.in_packet = TRUE /\ rxi'.denied = FALSE
        /\ rxi'.buf = write_head /\ rxi'.bi = 1
    BY <2>2
  <2>4. /\ write_head \in Slot /\ finished_head \in Slot /\ read_head \in Slot
        /\ free_buffers \in 1 .. N /\ free_buffers - 1 \in 0 .. N - 1
        /\ Inc(write_head) \in Slot /\ Dec(Inc(write_head)) = write_head
        /\ Dec(write_head) \in Slot
    BY <1>3, IncDec, FramesAssumption DEF Heads
  <2>5. IF rxi.in_packet
          THEN Finishes /\ rxi.buf = Dec(write_head)
          ELSE ~Finishes
    BY <1>3, <2>1 DEF Filling, Finishes, RxiTypes
  <2>6. finished_head' = write_head
    BY <1>3, <2>1, <2>5, <2>4 DEF Filling, Receiving, RxiTypes
  <2>7. OkBuffers(closed) /\ \A i \in Slot : i # Dec(write_head) => closed[i].len = buffers[i].len
    <3>1. CASE Finishes
      BY <1>3, <2>4, <2>5, <3>1, SetLength DEF BufferTypes, RxiTypes, Finishes, WithLen
    <3>2. CASE ~Finishes
      BY <1>3, <3>2 DEF BufferTypes
    <3> QED
      BY <3>1, <3>2
  <2> HIDE DEF closed
  <2>8. OkBuffers(buffers') /\ \A i \in Slot : i # write_head => buffers'[i].len = closed[i].len
    <3> DEFINE cs == WithLen(closed, write_head, 1)
    <3>1. OkBuffers(cs) /\ \A i \in Slot : i # write_head => cs[i].len = closed[i].len
      BY <2>4, <2>7, SetLength
    <3>2. buffers' = WithByte(cs, write_head, 0, HDLC_FLAG)
      BY <2>1 DEF WithLen, WithByte
    <3> HIDE DEF cs
    <3>3. OkBuffers(buffers') /\ \A i \in Slot : buffers'[i].len = cs[i].len
      BY <2>4, <3>1, <3>2, SetByte
    <3> QED
      BY <3>1, <3>3
  <2>9. Heads'
    <3> DEFINE u == N - free_buffers
    <3>1. u \in 0 .. N - 1 /\ N - (free_buffers - 1) = u + 1
      BY <2>4, FramesAssumption
    <3>2. write_head = After(read_head, u)
      BY <1>3 DEF Heads
    <3> HIDE DEF u
    <3>3. Inc(write_head) = After(read_head, u + 1)
      BY <2>4, <3>1, <3>2, AfterGrows
    <3>4. write_head' = After(read_head, N - (free_buffers - 1))
      BY <2>1, <3>1, <3>3
    <3> QED
      BY <2>1, <2>4, <2>6, <3>4, FramesAssumption DEF Heads
  <2>10. RxiTypes'
    <3>1. in_packet' \in BOOLEAN /\ held'.on \in BOOLEAN
      BY <1>3, <2>1 DEF RxiTypes
    <3> QED
      BY <2>2, <2>3, <3>1 DEF RxiTypes
  <2>11. Filling'
    <3>1. Receiving'
      BY <2>3 DEF Receiving
    <3>2. free_buffers' < N /\ write_head' = Inc(finished_head')
      BY <2>1, <2>4, <2>6, FramesAssumption
    <3>3. rxi'.buf = Dec(write_head')
      BY <2>1, <2>3, <2>4
    <3> QED
      BY <2>3, <3>1, <3>2, <3>3 DEF Filling
  <2>12. Reading'
    <3> SUFFICES ASSUME held.on PROVE Reading'
      BY <2>1 DEF Reading
    <3>1. read_head # write_head /\ read_head # Dec(write_head)
      BY <1>3, <2>4, HandlerElsewhere
    <3>2. buffers'[read_head].len = buffers[read_head].len
      BY <2>4, <2>7, <2>8, <3>1
    <3> QED
      BY <1>3, <2>1, <2>4, <3>2, FramesAssumption DEF Reading
  <2> QED
    BY <2>3, <2>8, <2>9, <2>10, <2>11, <2>12 DEF BufferTypes
<1>4. denied \/ free_buffers \in 0 .. N
  BY DEF IInv, Heads
<1> QED
  BY <1>0, <1>1, <1>2, <1>3, <1>4, FramesAssumption

(* Any other byte. *)
LEMMA DrainDataKeepsInv ==
  ASSUME IInv, DrainData
  PROVE  IInv'
<1> SUFFICES ASSUME ~denied PROVE IInv'
  BY DEF IInv, DrainData, history
<1> USE DEF IInv
<1>0. /\ rxi.on
      /\ UNCHANGED <<write_head, finished_head, read_head, free_buffers, in_packet, held,
                     denied>>
  BY DEF DrainData, Taken, history
<1>1. CASE UNCHANGED <<rxi, buffers>>
  BY <1>0, <1>1, OthersKeepInv DEF ownVars, ringVars
<1>2. CASE rxi.in_packet /\ buffers' = buffers /\ rxi' = [rxi EXCEPT !.last_esc = TRUE]
  <2>1. rxi' = [on |-> rxi.on, in_packet |-> rxi.in_packet, denied |-> rxi.denied,
                buf |-> rxi.buf, last_esc |-> TRUE, bi |-> rxi.bi]
    BY <1>2, LocalStores, Zenon
  <2>2. /\ rxi'.on = rxi.on /\ rxi'.in_packet = rxi.in_packet /\ rxi'.denied = rxi.denied
        /\ rxi'.buf = rxi.buf /\ rxi'.bi = rxi.bi
    BY <2>1
  <2>3. BufferTypes' /\ Heads' /\ Reading'
    BY <1>0, <1>2 DEF BufferTypes, OkBuffers, Heads, Reading
  <2>4. RxiTypes'
    BY <1>0, <2>1, <2>2 DEF RxiTypes
  <2>5. Filling'
    BY <1>0, <1>2, <2>2 DEF Filling, Receiving, RxiTypes
  <2> QED
    BY <2>2, <2>3, <2>4, <2>5
<1>3. CASE /\ rxi.in_packet
           /\ rxi' = [rxi EXCEPT !.last_esc = FALSE, !.bi = @ + 1]
           /\ IF rxi.bi < MaxFrame
                THEN buffers' = [buffers EXCEPT ![rxi.buf].bytes[rxi.bi] =
                                            IF rxi.last_esc THEN Xor(Head(line)) ELSE Head(line)]
                ELSE UNCHANGED buffers
  <2>1. rxi' = [on |-> rxi.on, in_packet |-> rxi.in_packet, denied |-> rxi.denied,
                buf |-> rxi.buf, last_esc |-> FALSE, bi |-> rxi.bi + 1]
    <3>1. rxi' = [rxi EXCEPT !.last_esc = FALSE, !.bi = rxi.bi + 1]
      BY <1>3
    <3> QED
      BY <3>1, LocalStores, Zenon
  <2>2. /\ rxi'.on = rxi.on /\ rxi'.in_packet = rxi.in_packet /\ rxi'.denied = rxi.denied
        /\ rxi'.buf = rxi.buf /\ rxi'.bi = rxi.bi + 1
    BY <2>1
  <2>3. rxi.buf \in Slot /\ rxi.buf = Dec(write_head)
    BY <1>0, <1>3, IncDec DEF Filling, Heads
  <2>4. OkBuffers(buffers') /\ \A i \in Slot : buffers'[i].len = buffers[i].len
    <3> DEFINE v == IF rxi.last_esc THEN Xor(Head(line)) ELSE Head(line)
               cs == WithByte(buffers, rxi.buf, rxi.bi, v)
    <3>1. buffers' = cs \/ buffers' = buffers
      BY <1>3 DEF WithByte
    <3> HIDE DEF v
    <3>2. OkBuffers(cs) /\ \A i \in Slot : cs[i].len = buffers[i].len
      BY <2>3, SetByte DEF BufferTypes
    <3> HIDE DEF cs
    <3> QED
      BY <3>1, <3>2 DEF BufferTypes
  <2>5. BufferTypes' /\ Heads' /\ Reading'
    BY <1>0, <2>4 DEF BufferTypes, Heads, Reading
  <2>6. RxiTypes'
    BY <1>0, <2>1, <2>2 DEF RxiTypes
  <2>7. Filling'
    BY <1>0, <1>3, <2>2 DEF Filling, Receiving, RxiTypes
  <2> QED
    BY <2>2, <2>5, <2>6, <2>7
<1> QED
  BY <1>1, <1>2, <1>3 DEF DrainData

(* The end of the handler. *)
LEMMA DrainEndKeepsInv ==
  ASSUME IInv, DrainEnd
  PROVE  IInv'
<1> SUFFICES ASSUME ~denied PROVE IInv'
  BY DEF IInv, DrainEnd
<1> USE DEF IInv
<1>1. /\ rxi.on
      /\ in_packet' = rxi.in_packet
      /\ buffers' = IF rxi.in_packet THEN [buffers EXCEPT ![rxi.buf].len = rxi.bi] ELSE buffers
      /\ rxi' = Idle
      /\ UNCHANGED <<write_head, finished_head, read_head, free_buffers, held, denied>>
  BY DEF DrainEnd
<1>2. rxi'.on = FALSE /\ rxi'.in_packet = FALSE /\ rxi'.denied = FALSE /\ rxi'.bi = 0
  BY <1>1 DEF Idle
<1>3. RxiTypes'
  BY <1>1, <1>2 DEF RxiTypes, Idle
<1>4. Dec(write_head) \in Slot
  BY IncDec DEF Heads
<1>5. CASE rxi.in_packet
  <2>1. rxi.buf = Dec(write_head) /\ rxi.bi \in Nat /\ rxi.bi >= 1
    BY <1>1, <1>5 DEF Filling, RxiTypes
  <2>2. /\ OkBuffers(buffers')
        /\ buffers'[Dec(write_head)].len = rxi.bi
        /\ \A i \in Slot \ {Dec(write_head)} : buffers'[i].len = buffers[i].len
    <3> DEFINE cs == WithLen(buffers, Dec(write_head), rxi.bi)
    <3>1. buffers' = cs
      BY <1>1, <1>5, <2>1 DEF WithLen
    <3>2. /\ OkBuffers(cs) /\ cs[Dec(write_head)].len = rxi.bi
          /\ \A i \in Slot \ {Dec(write_head)} : cs[i].len = buffers[i].len
      BY <1>4, <2>1, SetLength DEF BufferTypes
    <3> HIDE DEF cs
    <3> QED
      BY <3>1, <3>2
  <2>3. Heads'
    BY <1>1 DEF Heads
  <2>4. Filling'
    BY <1>1, <1>2, <1>5, <2>1, <2>2 DEF Filling, Receiving
  <2>5. Reading'
    <3> SUFFICES ASSUME held.on PROVE Reading'
      BY <1>1 DEF Reading
    <3>1. read_head \in Slot /\ read_head # Dec(write_head)
      BY HandlerElsewhere DEF Heads
    <3> QED
      BY <1>1, <2>2, <3>1 DEF Reading
  <2> QED
    BY <1>2, <1>3, <2>2, <2>3, <2>4, <2>5 DEF BufferTypes
<1>6. CASE ~rxi.in_packet
  <2>1. BufferTypes' /\ Heads' /\ Reading'
    BY <1>1, <1>6 DEF BufferTypes, OkBuffers, Heads, Reading
  <2>2. Filling'
    BY <1>1, <1>2, <1>6 DEF Filling, Receiving
  <2> QED
    BY <1>2, <1>3, <2>1, <2>2
<1> QED
  BY <1>5, <1>6

-----------------------------------------------------------------------------
(* The main loop. *)

(* A frame is there to be taken only if another buffer is being filled. *)
LEMMA TakeKeepsInv ==
  ASSUME IInv, Take
  PROVE  IInv'
<1> SUFFICES ASSUME ~denied PROVE IInv'
  BY DEF IInv, Take, history
<1> USE DEF IInv
<1>1. /\ held' = [on |-> TRUE, idx |-> read_head, len |-> buffers[read_head].len]
      /\ UNCHANGED <<ringVars, in_packet, rxi, denied>>
      /\ ~rxi.on /\ free_buffers # N /\ read_head # finished_head
  BY DEF Take, history
<1>2. held'.on = TRUE /\ held'.idx = read_head /\ held'.len = buffers[read_head].len
  BY <1>1
<1>3. N - free_buffers >= 2
  <2>1. SUFFICES ASSUME N - free_buffers = 1 PROVE FALSE
    BY <1>1, FramesAssumption DEF Heads
  <2>2. write_head = Inc(read_head)
    BY <2>1, AfterOne DEF Heads
  <2>3. write_head = Inc(finished_head)
    BY <1>1, FramesAssumption DEF Filling, RxiTypes
  <2> QED
    BY <1>1, <2>2, <2>3, IncInjective DEF Heads
<1>4. Reading'
  BY <1>1, <1>2, <1>3 DEF Reading, ringVars
<1>5. BufferTypes' /\ RxiTypes' /\ Heads' /\ Filling' /\ ~rxi'.denied
  BY <1>1, <1>2 DEF BufferTypes, OkBuffers, RxiTypes, Heads, Filling, Receiving, ringVars
<1> QED
  BY <1>4, <1>5

(* discard gives back the oldest buffer; the one being filled remains. *)
LEMMA DiscardKeepsInv ==
  ASSUME IInv, Discard
  PROVE  IInv'
<1> SUFFICES ASSUME ~denied PROVE IInv'
  BY DEF IInv, Discard, history
<1> USE DEF IInv
<1>1. /\ held' = None
      /\ read_head' = Inc(read_head)
      /\ free_buffers' = free_buffers + 1
      /\ UNCHANGED <<write_head, finished_head, buffers, in_packet, rxi, denied>>
      /\ held.on
  BY DEF Discard, history
<1>2. held'.on = FALSE
  BY <1>1 DEF None
<1>3. /\ N - free_buffers \in 2 .. N /\ free_buffers + 1 \in 0 .. N - 1
      /\ read_head \in Slot /\ Inc(read_head) \in Slot
  BY <1>1, IncDec, FramesAssumption DEF Heads, Reading
<1>4. Heads'
  <2> DEFINE u == N - free_buffers
  <2>1. u \in 1 .. N /\ N - (free_buffers + 1) = u - 1 /\ write_head = After(read_head, u)
    BY <1>3, FramesAssumption DEF Heads
  <2> HIDE DEF u
  <2>2. write_head' = After(read_head', N - free_buffers')
    BY <1>1, <1>3, <2>1, AfterShrinks
  <2>3. write_head \in Slot /\ finished_head \in Slot
    BY DEF Heads
  <2> QED
    BY <1>1, <1>3, <2>2, <2>3, FramesAssumption DEF Heads
<1>5. Filling'
  <2>1. Receiving
    BY <1>3, FramesAssumption DEF Filling
  <2> QED
    BY <1>1, <1>3, <2>1, FramesAssumption DEF Filling, Receiving
<1>6. Reading' /\ RxiTypes' /\ BufferTypes' /\ ~rxi'.denied
  BY <1>1, <1>2 DEF Reading, RxiTypes, BufferTypes, OkBuffers
<1> QED
  BY <1>4, <1>5, <1>6

-----------------------------------------------------------------------------
(* Every step keeps the invariant. *)
LEMMA NextKeepsInv == IInv /\ [Next]_vars => IInv'
<1> SUFFICES ASSUME IInv, [Next]_vars PROVE IInv'
  OBVIOUS
<1>1. CASE UNCHANGED vars
  BY <1>1, OthersKeepInv DEF vars, ownVars, ringVars, history
<1>2. ASSUME NEW tail \in Tails, Push(tail) PROVE IInv'
  BY <1>2, OthersKeepInv DEF Push, ownVars, history
<1>3. CASE TxBegin \/ TxByte \/ TxEnd
  BY <1>3, OthersKeepInv DEF TxBegin, TxByte, TxEnd, ownVars, history
<1>4. CASE LoseByte \/ DrainDenied
  BY <1>4, OthersKeepInv DEF LoseByte, DrainDenied, ownVars, history
<1>5. CASE DrainBegin
  BY <1>5, DrainBeginKeepsInv
<1>6. CASE DrainFlag
  BY <1>6, DrainFlagKeepsInv
<1>7. CASE DrainData
  BY <1>7, DrainDataKeepsInv
<1>8. CASE DrainEnd
  BY <1>8, DrainEndKeepsInv
<1>9. CASE Take
  BY <1>9, TakeKeepsInv
<1>10. CASE Discard
  BY <1>10, DiscardKeepsInv
<1> QED
  BY <1>1, <1>2, <1>3, <1>4, <1>5, <1>6, <1>7, <1>8, <1>9, <1>10 DEF Next, Step

(***************************************************************************)
(* The frame that read_head_buf gave the main loop is read outside of the  *)
(* critical section (run); drain_uart_buffer changes neither its length    *)
(* nor its bytes, however the ring has wrapped, until a buffer is denied.  *)
(***************************************************************************)
THEOREM HeldFrameIsUndisturbed == Spec => []ReaderUndisturbed
<1>1. IInv => ReaderUndisturbed
  <2> SUFFICES ASSUME IInv, ~denied, held.on PROVE ReaderUndisturbed
    BY DEF ReaderUndisturbed
  <2>1. Dec(write_head) # read_head
    BY HandlerElsewhere DEF IInv
  <2> QED
    BY <2>1 DEF IInv, Reading, Filling, ReaderUndisturbed
<1> QED
  BY InitInv, NextKeepsInv, <1>1, PTL DEF Spec

-----------------------------------------------------------------------------
(* Frames fit: as long as no byte was lost, what the handler stores of a   *)
(* frame is bounded by what the transmitter has written of it.             *)

Entry == [frame : Seq(Byte), index : Nat, pending_escape : BOOLEAN]

(* A queued frame: flags at its ends, and the cursor of write_out. *)
WellFramed(f) ==
  /\ f.frame[1] = HDLC_FLAG /\ f.frame[Len(f.frame)] = HDLC_FLAG
  /\ Len(f.frame) \in 3 .. MaxFrame + 1
  /\ f.index \in 1 .. Len(f.frame) + 1
  /\ f.pending_escape => /\ f.index \in 2 .. Len(f.frame) - 1
                         /\ needs_escape(f.frame[f.index])

(* Only the first frame of the queue is being written. *)
Queued ==
  /\ tx \in Seq(Entry) /\ sent \in Seq(Seq(Byte))
  /\ \A i \in DOMAIN tx : WellFramed(tx[i])
  /\ \A i \in DOMAIN tx : i > 1 => tx[i].index = 1
  /\ txi => tx # <<>>

Escaping == tx # <<>> /\ tx[1].pending_escape

(* What follows an escape is neither a flag nor an escape. *)
Pairs ==
  /\ line \in Seq(Byte)
  /\ \A i \in 1 .. Len(line) - 1 : line[i] = HDLC_ESC => ~needs_escape(line[i + 1])
  /\ line # <<>> /\ line[Len(line)] = HDLC_ESC => Escaping
  /\ rxi.last_esc => IF line = <<>> THEN Escaping ELSE ~needs_escape(line[1])

(* The handler's locals, whether or not a buffer was denied. *)
Locals ==
  /\ BufferTypes /\ RxiTypes /\ write_head \in Slot /\ rxi.last_esc \in BOOLEAN
  /\ rxi.on /\ rxi.in_packet => rxi.buf = Dec(write_head)
  /\ ~rxi.in_packet \/ rxi.denied \/ ~rxi.on => rxi.bi = 0 /\ ~rxi.last_esc

(* Bytes stored of the frame being received. *)
Stored ==
  IF rxi.on THEN rxi.bi ELSE IF in_packet THEN buffers[Dec(write_head)].len ELSE 0

(***************************************************************************)
(* q[i] is how much may be stored once l[i] is taken: a flag begins again  *)
(* with itself, an escape adds nothing, another byte one.  Behind the last *)
(* byte it is at most what the transmitter t has written of its frame.     *)
(***************************************************************************)
Allows(b, before, after) ==
  /\ b = HDLC_FLAG => after >= 1
  /\ b = HDLC_ESC => after >= before
  /\ ~needs_escape(b) => after >= before + 1

Midway(t) == t # <<>> /\ t[1].index \in 2 .. Len(t[1].frame)

Bounds(q, l, t, n) ==
  /\ q \in [0 .. Len(l) -> 0 .. MaxFrame]
  /\ \A i \in 1 .. Len(l) : Allows(l[i], q[i - 1], q[i])
  /\ Midway(t) => q[Len(l)] < t[1].index
  /\ n <= q[0]

Fits == \E q \in [0 .. Len(line) -> 0 .. MaxFrame] : Bounds(q, line, tx, Stored)

FitInv ==
  /\ lost \in Nat
  /\ lost = 0 => Queued /\ Pairs /\ Locals /\ Fits /\ panicked = FALSE

(* write_out puts a byte on the line. *)
LEMMA BoundsExtend ==
  ASSUME NEW l \in Seq(Byte), NEW q, NEW t, NEW n, Bounds(q, l, t, n),
         NEW b, NEW m \in 0 .. MaxFrame, Allows(b, q[Len(l)], m),
         NEW u, Midway(u) => m < u[1].index
  PROVE  \E r \in [0 .. Len(Append(l, b)) -> 0 .. MaxFrame] : Bounds(r, Append(l, b), u, n)
<1> DEFINE k == Append(l, b)
           r == [i \in 0 .. Len(l) + 1 |-> IF i <= Len(l) THEN q[i] ELSE m]
<1>1. /\ Len(l) \in Nat /\ Len(k) = Len(l) + 1 /\ k[Len(l) + 1] = b
      /\ \A i \in 1 .. Len(l) : k[i] = l[i]
  OBVIOUS
<1>2. q \in [0 .. Len(l) -> 0 .. MaxFrame] /\ \A i \in 0 .. Len(l) : r[i] = q[i]
  BY <1>1 DEF Bounds
<1>3. r \in [0 .. Len(k) -> 0 .. MaxFrame] /\ r[Len(k)] = m /\ r[0] = q[0]
  BY <1>1, <1>2
<1> HIDE DEF k, r
<1>4. \A i \in 1 .. Len(k) : Allows(k[i], r[i - 1], r[i])
  <2> SUFFICES ASSUME NEW i \in 1 .. Len(k) PROVE Allows(k[i], r[i - 1], r[i])
    OBVIOUS
  <2>1. CASE i = Len(l) + 1
    <3>1. k[i] = b /\ r[i] = m /\ r[i - 1] = q[Len(l)]
      BY <1>1, <1>2, <1>3, <2>1
    <3> QED
      BY <3>1
  <2>2. CASE i # Len(l) + 1
    <3>1. i \in 1 .. Len(l) /\ i - 1 \in 0 .. Len(l)
      BY <1>1, <2>2
    <3>2. k[i] = l[i] /\ r[i] = q[i] /\ r[i - 1] = q[i - 1]
      BY <1>1, <1>2, <3>1
    <3> QED
      BY <3>1, <3>2 DEF Bounds
  <2> QED
    BY <2>1, <2>2
<1>5. Bounds(r, k, u, n)
  BY <1>3, <1>4 DEF Bounds
<1> QED
  BY <1>3, <1>5 DEF k

(* The handler takes a byte off the line. *)
LEMMA BoundsTake ==
  ASSUME NEW l \in Seq(Byte), l # <<>>, NEW q, NEW t, NEW n, Bounds(q, l, t, n),
         NEW k, k <= q[1]
  PROVE  \E r \in [0 .. Len(Tail(l)) -> 0 .. MaxFrame] : Bounds(r, Tail(l), t, k)
<1> DEFINE r == [i \in 0 .. Len(l) - 1 |-> q[i + 1]]
<1>1. /\ Len(l) \in Nat \ {0} /\ Len(Tail(l)) = Len(l) - 1
      /\ \A i \in 1 .. Len(l) - 1 : Tail(l)[i] = l[i + 1]
  OBVIOUS
<1>2. q \in [0 .. Len(l) -> 0 .. MaxFrame]
  BY DEF Bounds
<1>3. /\ r \in [0 .. Len(Tail(l)) -> 0 .. MaxFrame]
      /\ r[0] = q[1] /\ r[Len(Tail(l))] = q[Len(l)]
      /\ \A i \in 0 .. Len(l) - 1 : r[i] = q[i + 1]
  BY <1>1, <1>2
<1> HIDE DEF r
<1>4. \A i \in 1 .. Len(Tail(l)) : Allows(Tail(l)[i], r[i - 1], r[i])
  <2> SUFFICES ASSUME NEW i \in 1 .. Len(l) - 1 PROVE Allows(Tail(l)[i], r[i - 1], r[i])
    BY <1>1
  <2>1. i + 1 \in 1 .. Len(l) /\ i - 1 \in 0 .. Len(l) - 1 /\ i \in 0 .. Len(l) - 1
        /\ (i + 1) - 1 = i /\ (i - 1) + 1 = i
    BY <1>1
  <2>2. Tail(l)[i] = l[i + 1] /\ r[i] = q[i + 1] /\ r[i - 1] = q[i]
    BY <1>1, <1>3, <2>1
  <2>3. Allows(l[i + 1], q[i], q[i + 1])
    BY <2>1 DEF Bounds
  <2> QED
    BY <2>2, <2>3
<1>5. Midway(t) => r[Len(Tail(l))] < t[1].index
  BY <1>3 DEF Bounds
<1> QED
  BY <1>3, <1>4, <1>5 DEF Bounds

(* The start: nothing is queued, on the line or stored. *)
LEMMA FitInit == Init => FitInv
<1> SUFFICES ASSUME Init PROVE FitInv
  OBVIOUS
<1>1. lost = 0 /\ panicked = FALSE /\ line = <<>> /\ tx = <<>> /\ sent = <<>> /\ txi = FALSE
      /\ rxi = Idle /\ in_packet = FALSE /\ held = None /\ write_head = 0
  BY DEF Init
<1>2. Queued
  BY <1>1 DEF Queued
<1>3. Locals
  <2>1. BufferTypes
    BY DEF Init, BufferTypes, OkBuffers
  <2>2. RxiTypes /\ rxi.on = FALSE /\ rxi.last_esc = FALSE /\ rxi.bi = 0
    BY <1>1 DEF RxiTypes, Idle, None
  <2>3. write_head \in Slot
    BY <1>1, FramesAssumption DEF Slot
  <2> QED
    BY <2>1, <2>2, <2>3 DEF Locals
<1>4. Pairs
  BY <1>1 DEF Pairs, Idle
<1>5. Fits
  <2> DEFINE q == [i \in 0 .. 0 |-> 0]
  <2>1. Stored = 0 /\ Len(line) = 0 /\ MaxFrame \in Nat
    BY <1>1, FramesAssumption DEF Stored, Idle
  <2>2. q \in [0 .. Len(line) -> 0 .. MaxFrame] /\ q[0] = 0
    BY <2>1
  <2> HIDE DEF q
  <2>3. Bounds(q, line, tx, Stored)
    BY <1>1, <2>1, <2>2 DEF Bounds, Midway
  <2> QED
    BY <2>2, <2>3 DEF Fits
<1> QED
  BY <1>1, <1>2, <1>3, <1>4, <1>5 DEF FitInv

(* A step of the other side leaves the handler's half alone. *)
LEMMA SameLocals ==
  ASSUME Locals, UNCHANGED <<rxi, in_packet, buffers, write_head, held>>
  PROVE  Locals' /\ Stored' = Stored
  BY DEF Locals, BufferTypes, OkBuffers, RxiTypes, Stored

(* What is known of the first frame of the queue. *)
LEMMA HeadFacts ==
  ASSUME Queued, tx # <<>>
  PROVE  /\ Head(tx) = tx[1] /\ tx[1] \in Entry /\ WellFramed(tx[1]) /\ Tail(tx) \in Seq(Entry)
         /\ \A i \in DOMAIN Tail(tx) : /\ Tail(tx)[i] = tx[i + 1] /\ i + 1 \in DOMAIN tx
                                       /\ i + 1 > 1
  BY DEF Queued

(* push *)
LEMMA PushFits ==
  ASSUME Queued, Pairs, Locals, Fits, NEW tail \in Tails, Push(tail)
  PROVE  Queued' /\ Pairs' /\ Locals' /\ Fits'
<1> DEFINE body == Body(Len(sent) + 1, tail)
           f == Framed(body)
           e == [frame |-> f, index |-> 1, pending_escape |-> FALSE]
<1>1. /\ tx' = Append(tx, e) /\ sent' = Append(sent, body)
      /\ UNCHANGED <<txi, line, rxi, in_packet, buffers, write_head, held>>
  BY DEF Push, ringVars
<1>2. body \in Seq(Byte) /\ Len(body) = Len(tail) + 1 /\ Len(tail) \in Nat
  <2>0. Len(sent) \in Nat
    BY DEF Queued
  <2>4. tail \in Seq(Byte)
    BY TailsAssumption
  <2>5. Own(Len(sent) + 1) \in Byte
    <3>1. (Len(sent) + 1) + 1 \in Nat
      BY <2>0
    <3> QED
      BY <3>1, Zenon DEF Own, Byte
  <2>1. tail \in Seq(Byte) /\ Own(Len(sent) + 1) \in Byte
    BY <2>4, <2>5
  <2> DEFINE w == Own(Len(sent) + 1)
  <2>2. body = <<w>> \o tail
    BY DEF Body
  <2> HIDE DEF w, body
  <2>3. w \in Byte
    BY <2>1 DEF w
  <2> QED
    BY <2>1, <2>2, <2>3
<1>3. Len(tail) + 2 <= MaxFrame /\ MaxFrame \in Nat
  BY TailsAssumption, FramesAssumption
<1> HIDE DEF body
<1>4. /\ f \in Seq(Byte) /\ Len(f) = Len(body) + 2
      /\ f[1] = HDLC_FLAG /\ f[Len(f)] = HDLC_FLAG
  <2> DEFINE g == <<HDLC_FLAG>> \o body
  <2>1. HDLC_FLAG \in Byte
    BY DEF HDLC_FLAG, Byte
  <2>2. g \in Seq(Byte) /\ Len(g) = Len(body) + 1 /\ g[1] = HDLC_FLAG
    BY <1>2, <2>1
  <2>3. f = g \o <<HDLC_FLAG>>
    BY DEF Framed
  <2> HIDE DEF g, f
  <2>4. /\ f \in Seq(Byte) /\ Len(f) = Len(g) + 1 /\ f[Len(g) + 1] = HDLC_FLAG
        /\ \A i \in 1 .. Len(g) : f[i] = g[i]
    BY <2>1, <2>2, <2>3
  <2>5. 1 \in 1 .. Len(g)
    BY <1>2, <2>2
  <2> QED
    BY <1>2, <2>2, <2>4, <2>5
<1> HIDE DEF f
<1>5. e \in Entry /\ e.frame = f /\ e.index = 1 /\ e.pending_escape = FALSE
  BY <1>4 DEF Entry
<1>6. WellFramed(e)
  BY <1>2, <1>3, <1>4, <1>5 DEF WellFramed
<1> HIDE DEF e
<1>7. /\ tx' \in Seq(Entry) /\ tx' # <<>> /\ DOMAIN tx' = 1 .. Len(tx) + 1 /\ Len(tx) \in Nat
      /\ DOMAIN tx = 1 .. Len(tx)
      /\ tx'[Len(tx) + 1] = e /\ \A i \in DOMAIN tx : tx'[i] = tx[i]
  BY <1>1, <1>5 DEF Queued
<1>8. Queued'
  BY <1>1, <1>2, <1>5, <1>6, <1>7 DEF Queued
<1>9. Escaping => Escaping'
  <2>1. tx # <<>> => 1 \in DOMAIN tx
    BY DEF Queued
  <2> QED
    BY <1>7, <2>1 DEF Escaping
<1>10. Midway(tx') => Midway(tx) /\ tx'[1] = tx[1]
  BY <1>5, <1>7 DEF Midway, Queued
<1>11. Locals' /\ Stored' = Stored
  BY <1>1, SameLocals
<1>12. Fits'
  <2>1. PICK q \in [0 .. Len(line) -> 0 .. MaxFrame] : Bounds(q, line, tx, Stored)
    BY DEF Fits
  <2>2. Bounds(q, line, tx', Stored)
    BY <1>10, <2>1 DEF Bounds
  <2> QED
    BY <1>1, <1>11, <2>2 DEF Fits
<1>13. Pairs'
  BY <1>1, <1>9 DEF Pairs
<1> QED
  BY <1>8, <1>11, <1>12, <1>13

(* A frame of the queue is written on: g is its entry after the byte b. *)
LEMMA ByteWritten ==
  ASSUME Queued, Pairs, Locals, Fits, tx # <<>>,
         NEW b \in Byte, NEW g \in Entry, WellFramed(g),
         line' = Append(line, b), tx' = <<g>> \o Tail(tx),
         UNCHANGED <<txi, sent, rxi, in_packet, buffers, write_head, held>>,
         Escaping => ~needs_escape(b),
         b = HDLC_ESC => g.pending_escape,
         \A q : Bounds(q, line, tx, Stored) =>
                  \E m \in 0 .. MaxFrame : /\ Allows(b, q[Len(line)], m)
                                           /\ Midway(tx') => m < g.index
  PROVE  Queued' /\ Pairs' /\ Locals' /\ Fits'
<1>1. /\ Tail(tx) \in Seq(Entry)
      /\ \A i \in DOMAIN Tail(tx) : /\ Tail(tx)[i] = tx[i + 1] /\ i + 1 \in DOMAIN tx
                                    /\ i + 1 > 1
  BY HeadFacts
<1>2. /\ tx' \in Seq(Entry) /\ tx' # <<>> /\ tx'[1] = g
      /\ \A i \in DOMAIN tx' : i = 1 \/ (i - 1 \in DOMAIN Tail(tx) /\ tx'[i] = Tail(tx)[i - 1])
  BY <1>1
<1>3. \A i \in DOMAIN tx' : i = 1 \/ (i \in DOMAIN tx /\ i > 1 /\ tx'[i] = tx[i])
  <2> SUFFICES ASSUME NEW i \in DOMAIN tx', i # 1
               PROVE  i \in DOMAIN tx /\ i > 1 /\ tx'[i] = tx[i]
    OBVIOUS
  <2>1. i \in Nat /\ (i - 1) + 1 = i
    BY <1>2
  <2> QED
    BY <1>1, <1>2, <2>1
<1>4. Queued'
  BY <1>2, <1>3 DEF Queued
<1>5. Locals' /\ Stored' = Stored
  BY SameLocals
<1>6. /\ line \in Seq(Byte) /\ line' \in Seq(Byte) /\ line' # <<>>
      /\ Len(line') = Len(line) + 1 /\ Len(line) \in Nat
      /\ line'[Len(line) + 1] = b /\ \A i \in 1 .. Len(line) : line'[i] = line[i]
  BY DEF Pairs
<1>7. Pairs'
  <2>1. \A i \in 1 .. Len(line) : line[i] = HDLC_ESC => ~needs_escape(line'[i + 1])
    <3> SUFFICES ASSUME NEW i \in 1 .. Len(line), line[i] = HDLC_ESC
                 PROVE  ~needs_escape(line'[i + 1])
      OBVIOUS
    <3>1. CASE i = Len(line)
      <4>1. line # <<>> /\ line[Len(line)] = HDLC_ESC
        BY <1>6, <3>1
      <4> QED
        BY <1>6, <3>1, <4>1 DEF Pairs
    <3>2. CASE i # Len(line)
      <4>1. i \in 1 .. Len(line) - 1 /\ i + 1 \in 1 .. Len(line)
        BY <1>6, <3>2
      <4>2. line'[i + 1] = line[i + 1]
        BY <1>6, <4>1
      <4> QED
        BY <4>1, <4>2 DEF Pairs
    <3> QED
      BY <3>1, <3>2
  <2>2. \A i \in 1 .. Len(line') - 1 : line'[i] = HDLC_ESC => ~needs_escape(line'[i + 1])
    BY <1>6, <2>1
  <2>3. line'[Len(line')] = HDLC_ESC => Escaping'
    BY <1>2, <1>6 DEF Escaping
  <2>4. rxi.last_esc => ~needs_escape(line'[1])
    <3>1. CASE line = <<>>
      BY <1>6, <3>1 DEF Pairs
    <3>2. CASE line # <<>>
      <4>1. 1 \in 1 .. Len(line)
        BY <1>6, <3>2
      <4>2. line'[1] = line[1]
        BY <1>6, <4>1
      <4> QED
        BY <3>2, <4>2 DEF Pairs
    <3> QED
      BY <3>1, <3>2
  <2> QED
    BY <1>6, <2>2, <2>3, <2>4 DEF Pairs
<1>8. Fits'
  <2>1. PICK q \in [0 .. Len(line) -> 0 .. MaxFrame] : Bounds(q, line, tx, Stored)
    BY DEF Fits
  <2>2. PICK m \in 0 .. MaxFrame : Allows(b, q[Len(line)], m) /\ (Midway(tx') => m < g.index)
    BY <2>1
  <2>3. \E r \in [0 .. Len(line') -> 0 .. MaxFrame] : Bounds(r, line', tx', Stored)
    BY <1>2, <1>6, <2>1, <2>2, BoundsExtend
  <2> QED
    BY <1>5, <2>3 DEF Fits
<1> QED
  BY <1>4, <1>5, <1>7, <1>8

(* What the escape flips is neither of the two. *)
LEMMA XorFacts ==
  ASSUME NEW b, needs_escape(b)
  PROVE  Xor(b) \in Byte /\ ~needs_escape(Xor(b)) /\ Xor(b) # HDLC_ESC
<1>1. Xor(HDLC_FLAG) = <<0, TRUE>> /\ Xor(HDLC_ESC) = <<1, TRUE>>
  BY DEF Xor, HDLC_FLAG, HDLC_ESC
<1>2. /\ <<0, TRUE>> \in Byte /\ <<1, TRUE>> \in Byte
      /\ ~needs_escape(<<0, TRUE>>) /\ ~needs_escape(<<1, TRUE>>)
  <2>1. 0 \in Nat /\ 1 \in Nat /\ TRUE # FALSE
    OBVIOUS
  <2> QED
    BY <2>1, Zenon DEF Byte, needs_escape, HDLC_FLAG, HDLC_ESC
<1>3. b = HDLC_FLAG \/ b = HDLC_ESC
  BY DEF needs_escape
<1>4. Xor(b) \in Byte /\ ~needs_escape(Xor(b))
  BY <1>1, <1>2, <1>3
<1> QED
  BY <1>4 DEF needs_escape

(* The two are different. *)
LEMMA FlagIsNotEsc == HDLC_FLAG # HDLC_ESC
<1>1. 0 # 1
  OBVIOUS
<1> QED
  BY <1>1, Zenon DEF HDLC_FLAG, HDLC_ESC

(* The stores of write_out. *)
LEMMA EntryStores ==
  ASSUME NEW f \in Entry, NEW v
  PROVE  /\ [f EXCEPT !.index = @ + 1, !.pending_escape = v] =
               [frame |-> f.frame, index |-> f.index + 1, pending_escape |-> v]
         /\ [f EXCEPT !.pending_escape = v] =
               [frame |-> f.frame, index |-> f.index, pending_escape |-> v]
         /\ [f EXCEPT !.index = @ + 1] =
               [frame |-> f.frame, index |-> f.index + 1, pending_escape |-> f.pending_escape]
<1>1. f = [frame |-> f.frame, index |-> f.index, pending_escape |-> f.pending_escape]
  BY DEF Entry
<1>2. [f EXCEPT !.index = @ + 1] =
        [frame |-> f.frame, index |-> f.index + 1, pending_escape |-> f.pending_escape]
  BY <1>1
<1>3. [f EXCEPT !.pending_escape = v] =
        [frame |-> f.frame, index |-> f.index, pending_escape |-> v]
  BY <1>1
<1>4. [f EXCEPT !.index = @ + 1, !.pending_escape = v] =
        [frame |-> f.frame, index |-> f.index + 1, pending_escape |-> v]
  <2> DEFINE g == [f EXCEPT !.index = @ + 1]
  <2>1. [f EXCEPT !.index = @ + 1, !.pending_escape = v] = [g EXCEPT !.pending_escape = v]
    OBVIOUS
  <2>2. g = [frame |-> f.frame, index |-> f.index + 1, pending_escape |-> f.pending_escape]
    BY <1>2
  <2> HIDE DEF g
  <2>3. [g EXCEPT !.pending_escape = v] =
          [frame |-> f.frame, index |-> f.index + 1, pending_escape |-> v]
    BY <2>2
  <2> QED
    BY <2>1, <2>3, Zenon
<1> QED
  BY <1>2, <1>3, <1>4

(* A byte in the middle of a frame adds one to a bound and to the cursor. *)
LEMMA OneMore ==
  ASSUME NEW n \in 0 .. MaxFrame, NEW l \in 3 .. MaxFrame + 1, NEW k \in 2 .. l - 1, n < k
  PROVE  n + 1 \in 0 .. MaxFrame /\ n + 1 < k + 1
  BY FramesAssumption

(* write_out, one byte: escaped, the escape before one, or as it is. *)
LEMMA TxByteFits ==
  ASSUME Queued, Pairs, Locals, Fits, TxByte
  PROVE  Queued' /\ Pairs' /\ Locals' /\ Fits'
<1> DEFINE f == tx[1]
           b == f.frame[f.index]
           L == Len(f.frame)
<1>1. tx # <<>> /\ Head(tx) = f /\ f \in Entry /\ WellFramed(f)
  BY HeadFacts DEF TxByte, Queued
<1>2. /\ f = [frame |-> f.frame, index |-> f.index, pending_escape |-> f.pending_escape]
      /\ f.frame \in Seq(Byte) /\ f.index \in Nat /\ f.pending_escape \in BOOLEAN
      /\ L \in Nat
  BY <1>1 DEF Entry
<1>3. /\ f.index <= Len(f.frame)
      /\ UNCHANGED <<txi, sent, rxi, in_packet, buffers, write_head, held>>
  BY <1>1 DEF TxByte, ringVars
<1>4. /\ L \in 3 .. MaxFrame + 1 /\ MaxFrame \in Nat \ {0}
      /\ f.index \in 1 .. L /\ b \in Byte
      /\ f.frame[1] = HDLC_FLAG /\ f.frame[L] = HDLC_FLAG
  BY <1>1, <1>2, <1>3, FramesAssumption DEF WellFramed
<1>5. \A q : Bounds(q, line, tx, Stored) =>
        /\ q[Len(line)] \in 0 .. MaxFrame
        /\ f.index >= 2 => q[Len(line)] < f.index
  <2>1. Len(line) \in Nat
    BY DEF Pairs
  <2> QED
    BY <1>1, <1>4, <2>1 DEF Bounds, Midway
<1>6. WriteByte /\ Escaping = f.pending_escape
  BY <1>1, <1>2 DEF TxByte, Escaping
<1>7. CASE f.pending_escape
  <2> DEFINE g == [frame |-> f.frame, index |-> f.index + 1, pending_escape |-> FALSE]
  <2>1. line' = Append(line, Xor(b)) /\ tx' = <<g>> \o Tail(tx)
    <3>1. /\ line' = Append(line, Xor(b))
          /\ tx' = <<[f EXCEPT !.index = @ + 1, !.pending_escape = FALSE]>> \o Tail(tx)
      BY <1>1, <1>6, <1>7 DEF WriteByte
    <3>2. [f EXCEPT !.index = @ + 1, !.pending_escape = FALSE] = g
      BY <1>1, EntryStores
    <3> QED
      BY <3>1, <3>2
  <2>2. needs_escape(b) /\ f.index \in 2 .. L - 1
    BY <1>1, <1>7 DEF WellFramed
  <2>3. Xor(b) \in Byte /\ ~needs_escape(Xor(b)) /\ Xor(b) # HDLC_ESC
    BY <2>2, XorFacts
  <2>4. g \in Entry /\ g.frame = f.frame /\ g.index = f.index + 1 /\ g.pending_escape = FALSE
    BY <1>2 DEF Entry
  <2> HIDE DEF g
  <2>5. WellFramed(g)
    BY <1>4, <2>2, <2>4 DEF WellFramed
  <2>6. ASSUME NEW q, Bounds(q, line, tx, Stored)
        PROVE  \E m \in 0 .. MaxFrame : /\ Allows(Xor(b), q[Len(line)], m)
                                        /\ Midway(tx') => m < g.index
    <3>1. q[Len(line)] + 1 \in 0 .. MaxFrame /\ q[Len(line)] + 1 < g.index
      <4>1. q[Len(line)] \in 0 .. MaxFrame /\ q[Len(line)] < f.index
        BY <1>5, <2>2, <2>6
      <4> QED
        BY <1>4, <2>2, <2>4, <4>1, OneMore
    <3>2. Allows(Xor(b), q[Len(line)], q[Len(line)] + 1)
      BY <2>3, <3>1 DEF Allows, needs_escape
    <3> QED
      BY <3>1, <3>2
  <2> HIDE DEF f, b
  <2> QED
    BY <1>1, <1>3, <2>1, <2>3, <2>4, <2>5, <2>6, ByteWritten
<1>8. CASE ~f.pending_escape /\ needs_escape(b) /\ ~(OnTheEdge(f) /\ b = HDLC_FLAG)
  <2> DEFINE g == [frame |-> f.frame, index |-> f.index, pending_escape |-> TRUE]
  <2>1. line' = Append(line, HDLC_ESC) /\ tx' = <<g>> \o Tail(tx)
    <3>1. /\ line' = Append(line, HDLC_ESC)
          /\ tx' = <<[f EXCEPT !.pending_escape = TRUE]>> \o Tail(tx)
      BY <1>1, <1>6, <1>8 DEF WriteByte
    <3>2. [f EXCEPT !.pending_escape = TRUE] = g
      BY <1>1, EntryStores
    <3> QED
      BY <3>1, <3>2
  <2>2. f.index \in 2 .. L - 1
    BY <1>4, <1>8 DEF OnTheEdge
  <2>3. HDLC_ESC \in Byte
    BY DEF HDLC_ESC, Byte
  <2>4. g \in Entry /\ g.frame = f.frame /\ g.index = f.index /\ g.pending_escape = TRUE
    BY <1>2 DEF Entry
  <2> HIDE DEF g
  <2>5. WellFramed(g)
    BY <1>4, <1>8, <2>2, <2>4 DEF WellFramed
  <2>6. ASSUME NEW q, Bounds(q, line, tx, Stored)
        PROVE  \E m \in 0 .. MaxFrame : /\ Allows(HDLC_ESC, q[Len(line)], m)
                                        /\ Midway(tx') => m < g.index
    <3>1. q[Len(line)] \in 0 .. MaxFrame /\ q[Len(line)] < g.index
      BY <1>5, <2>2, <2>4, <2>6
    <3>2. Allows(HDLC_ESC, q[Len(line)], q[Len(line)])
      <4>1. HDLC_ESC # HDLC_FLAG /\ needs_escape(HDLC_ESC)
        BY FlagIsNotEsc DEF needs_escape
      <4> QED
        BY <3>1, <4>1 DEF Allows
    <3> QED
      BY <3>1, <3>2
  <2>7. ~Escaping
    BY <1>6, <1>8
  <2> HIDE DEF f, b
  <2> QED
    BY <1>1, <1>3, <2>1, <2>3, <2>4, <2>5, <2>6, <2>7, ByteWritten
<1>9. CASE ~f.pending_escape /\ (~needs_escape(b) \/ (OnTheEdge(f) /\ b = HDLC_FLAG))
  <2> DEFINE g == [frame |-> f.frame, index |-> f.index + 1, pending_escape |-> FALSE]
  <2>1. line' = Append(line, b) /\ tx' = <<g>> \o Tail(tx)
    <3>1. /\ line' = Append(line, b)
          /\ tx' = <<[f EXCEPT !.index = @ + 1]>> \o Tail(tx)
      BY <1>1, <1>6, <1>9 DEF WriteByte
    <3>2. [f EXCEPT !.index = @ + 1] = g
      <4>1. f.pending_escape = FALSE
        BY <1>2, <1>9
      <4> QED
        BY <1>1, <4>1, EntryStores
    <3> QED
      BY <3>1, <3>2
  <2>2. b # HDLC_ESC
    BY <1>9, FlagIsNotEsc DEF needs_escape
  <2>3. ~needs_escape(b) => f.index \in 2 .. L - 1
    BY <1>4 DEF needs_escape
  <2>4. g \in Entry /\ g.frame = f.frame /\ g.index = f.index + 1 /\ g.pending_escape = FALSE
    BY <1>2 DEF Entry
  <2> HIDE DEF g
  <2>5. WellFramed(g)
    BY <1>4, <2>4 DEF WellFramed
  <2>6. tx'[1] = g
    BY <1>1, <2>1, <2>4, HeadFacts
  <2>7. ASSUME NEW q, Bounds(q, line, tx, Stored)
        PROVE  \E m \in 0 .. MaxFrame : /\ Allows(b, q[Len(line)], m)
                                        /\ Midway(tx') => m < g.index
    <3>1. CASE ~needs_escape(b)
      <4>1. q[Len(line)] + 1 \in 0 .. MaxFrame /\ q[Len(line)] + 1 < g.index
        <5>1. q[Len(line)] \in 0 .. MaxFrame /\ q[Len(line)] < f.index
          BY <1>5, <2>3, <2>7, <3>1
        <5> QED
          BY <1>4, <2>3, <2>4, <3>1, <5>1, OneMore
      <4>2. Allows(b, q[Len(line)], q[Len(line)] + 1)
        BY <3>1, <4>1 DEF Allows, needs_escape
      <4> QED
        BY <4>1, <4>2
    <3>2. CASE needs_escape(b)
      <4>1. b = HDLC_FLAG /\ needs_escape(b) /\ 1 \in 0 .. MaxFrame
        BY <1>4, <1>9, <3>2
      <4>2. Allows(b, q[Len(line)], 1)
        BY <2>2, <4>1 DEF Allows
      <4>3. Midway(tx') => 1 < g.index
        BY <2>6 DEF Midway
      <4> QED
        BY <4>1, <4>2, <4>3
    <3> QED
      BY <3>1, <3>2
  <2>8. ~Escaping
    BY <1>6, <1>9
  <2>9. b \in Byte
    BY <1>4
  <2> HIDE DEF f, b
  <2> QED
    BY <1>1, <1>3, <2>1, <2>2, <2>4, <2>5, <2>7, <2>8, <2>9, ByteWritten
<1> QED
  BY <1>1, <1>6, <1>7, <1>8, <1>9 DEF WriteByte

(* A frame is out, or there is no more room: write_out ends. *)
LEMMA TxEndFits ==
  ASSUME Queued, Pairs, Locals, Fits, TxEnd
  PROVE  Queued' /\ Pairs' /\ Locals' /\ Fits'
<1>1. UNCHANGED <<sent, line, rxi, in_packet, buffers, write_head, held>> /\ txi' = FALSE
  BY DEF TxEnd, ringVars
<1>2. Locals' /\ Stored' = Stored
  BY <1>1, SameLocals
<1>3. CASE UNCHANGED tx
  <2>1. Queued'
    BY <1>1, <1>3 DEF Queued
  <2>2. Pairs' /\ Fits'
    BY <1>1, <1>2, <1>3 DEF Pairs, Escaping, Fits
  <2> QED
    BY <1>2, <2>1, <2>2
<1>4. CASE Head(tx).index > Len(Head(tx).frame) /\ tx' = Tail(tx)
  <2>1. /\ tx # <<>> /\ Head(tx) = tx[1] /\ WellFramed(tx[1]) /\ tx' \in Seq(Entry)
        /\ \A i \in DOMAIN tx' : tx'[i] = tx[i + 1] /\ i + 1 \in DOMAIN tx /\ i + 1 > 1
    BY <1>4, HeadFacts DEF TxEnd, Queued
  <2>2. Queued'
    BY <1>1, <2>1 DEF Queued
  <2>3. ~Escaping
    <3>1. tx[1] \in Entry
      BY <2>1, HeadFacts
    <3>2. tx[1].index \in Nat /\ Len(tx[1].frame) \in Nat
      BY <3>1 DEF Entry
    <3> QED
      BY <1>4, <2>1, <3>2 DEF Escaping, WellFramed
  <2>4. Pairs'
    BY <1>1, <2>3 DEF Pairs
  <2>5. ~Midway(tx')
    <3>1. tx' # <<>> => 1 \in DOMAIN tx'
      BY <2>1
    <3>2. tx' # <<>> => tx'[1].index = 1
      BY <2>1, <3>1 DEF Queued
    <3> QED
      BY <3>2 DEF Midway
  <2>6. Fits'
    <3>1. PICK q \in [0 .. Len(line) -> 0 .. MaxFrame] : Bounds(q, line, tx, Stored)
      BY DEF Fits
    <3>2. Bounds(q, line, tx', Stored)
      BY <2>5, <3>1 DEF Bounds
    <3> QED
      BY <1>1, <1>2, <3>2 DEF Fits
  <2> QED
    BY <1>2, <2>2, <2>4, <2>6
<1> QED
  BY <1>3, <1>4 DEF TxEnd

(* The handler takes a byte: it stores no more than the byte allows. *)
LEMMA ByteTaken ==
  ASSUME Queued, Pairs, Locals, Fits, rxi.on, line # <<>>, line' = Tail(line),
         UNCHANGED txVars, rxi'.on,
         \A x, y \in 0 .. MaxFrame :
            rxi.bi <= x /\ Allows(line[1], x, y) => rxi'.bi <= y,
         rxi'.last_esc => line[1] = HDLC_ESC
  PROVE  Queued' /\ Pairs' /\ Fits'
<1>1. /\ line \in Seq(Byte) /\ Len(line) \in Nat \ {0} /\ line' \in Seq(Byte)
      /\ Len(line') = Len(line) - 1
      /\ \A i \in 1 .. Len(line) - 1 : line'[i] = line[i + 1]
  BY DEF Pairs
<1>2. UNCHANGED <<tx, txi, sent>>
  BY DEF txVars
<1>3. Queued'
  BY <1>2 DEF Queued
<1>4. Escaping' = Escaping
  BY <1>2 DEF Escaping
<1>5. \A i \in 1 .. Len(line') - 1 : line'[i] = HDLC_ESC => ~needs_escape(line'[i + 1])
  <2> SUFFICES ASSUME NEW i \in 1 .. Len(line') - 1, line'[i] = HDLC_ESC
               PROVE  ~needs_escape(line'[i + 1])
    OBVIOUS
  <2>1. i \in 1 .. Len(line) - 1 /\ i + 1 \in 1 .. Len(line) - 1
    BY <1>1
  <2>2. line'[i] = line[i + 1] /\ line'[i + 1] = line[(i + 1) + 1]
    BY <1>1, <2>1
  <2> QED
    BY <2>1, <2>2 DEF Pairs
<1>6. line' # <<>> => line'[Len(line')] = line[Len(line)] /\ line'[1] = line[2]
                      /\ 1 \in 1 .. Len(line) - 1
  <2> SUFFICES ASSUME line' # <<>>
               PROVE  /\ line'[Len(line')] = line[Len(line)] /\ line'[1] = line[2]
                      /\ 1 \in 1 .. Len(line) - 1
    OBVIOUS
  <2>1. Len(line) - 1 \in 1 .. Len(line) - 1 /\ (Len(line) - 1) + 1 = Len(line)
        /\ 1 \in 1 .. Len(line) - 1 /\ 1 + 1 = 2
    BY <1>1
  <2> QED
    BY <1>1, <2>1
<1>7. line' = <<>> => Len(line) = 1
  <2>1. Len(<<>>) = 0
    OBVIOUS
  <2>2. line' = <<>> => Len(line') = 0
    BY <2>1
  <2> QED
    BY <1>1, <2>2
<1>8. Pairs'
  <2>1. line' # <<>> /\ line'[Len(line')] = HDLC_ESC => Escaping'
    BY <1>4, <1>6 DEF Pairs
  <2>2. rxi'.last_esc => IF line' = <<>> THEN Escaping' ELSE ~needs_escape(line'[1])
    <3> SUFFICES ASSUME line[1] = HDLC_ESC
                 PROVE  IF line' = <<>> THEN Escaping' ELSE ~needs_escape(line'[1])
      OBVIOUS
    <3>1. line' = <<>> => Escaping'
      BY <1>4, <1>7 DEF Pairs
    <3>2. line' # <<>> => ~needs_escape(line'[1])
      <4>1. line' # <<>> => ~needs_escape(line[1 + 1])
        BY <1>6 DEF Pairs
      <4> QED
        BY <1>6, <4>1
    <3> QED
      BY <3>1, <3>2
  <2> QED
    BY <1>1, <1>5, <2>1, <2>2 DEF Pairs
<1>9. Fits'
  <2>1. PICK q \in [0 .. Len(line) -> 0 .. MaxFrame] : Bounds(q, line, tx, Stored)
    BY DEF Fits
  <2>2. q[0] \in 0 .. MaxFrame /\ q[1] \in 0 .. MaxFrame
    BY <1>1, <2>1
  <2>3. Stored = rxi.bi /\ Stored' = rxi'.bi
    BY DEF Stored
  <2>4. rxi.bi <= q[0] /\ Allows(line[1], q[0], q[1])
    <3>1. 1 \in 1 .. Len(line) /\ 1 - 1 = 0
      BY <1>1
    <3> QED
      BY <2>1, <2>3, <3>1 DEF Bounds
  <2>5. Stored' <= q[1]
    BY <2>2, <2>3, <2>4
  <2>6. \E r \in [0 .. Len(line') -> 0 .. MaxFrame] : Bounds(r, line', tx, Stored')
    BY <1>1, <2>1, <2>5, BoundsTake
  <2> QED
    BY <1>2, <2>6 DEF Fits
<1> QED
  BY <1>3, <1>8, <1>9

(* What the handler's invariant says of its locals, as a record. *)
LEMMA LocalFacts ==
  ASSUME Locals
  PROVE  /\ rxi = [on |-> rxi.on, in_packet |-> rxi.in_packet, denied |-> rxi.denied,
                   buf |-> rxi.buf, last_esc |-> rxi.last_esc, bi |-> rxi.bi]
         /\ rxi.on \in BOOLEAN /\ rxi.in_packet \in BOOLEAN /\ rxi.denied \in BOOLEAN
         /\ in_packet \in BOOLEAN /\ held.on \in BOOLEAN /\ rxi.bi \in Nat
         /\ write_head \in Slot /\ Dec(write_head) \in Slot /\ Inc(write_head) \in Slot
         /\ Dec(Inc(write_head)) = write_head
         /\ OkBuffers(buffers)
  BY IncDec DEF Locals, RxiTypes, BufferTypes

(* Locals from the fields of rxi. *)
LEMMA LocalsFrom ==
  ASSUME NEW r, NEW ip \in BOOLEAN, NEW dn \in BOOLEAN, NEW bf, NEW le \in BOOLEAN, NEW n \in Nat,
         NEW w \in Slot, NEW bs, OkBuffers(bs),
         r = [on |-> TRUE, in_packet |-> ip, denied |-> dn, buf |-> bf, last_esc |-> le, bi |-> n],
         ip => bf = Dec(w),
         ~ip \/ dn => n = 0 /\ ~le,
         rxi' = r, write_head' = w, buffers' = bs,
         in_packet' \in BOOLEAN, held'.on \in BOOLEAN
  PROVE  Locals' /\ rxi'.on = TRUE /\ rxi'.bi = n /\ rxi'.last_esc = le
<1>1. /\ r.on = TRUE /\ r.in_packet = ip /\ r.denied = dn /\ r.buf = bf
      /\ r.last_esc = le /\ r.bi = n
  OBVIOUS
<1>2. BufferTypes' /\ write_head' \in Slot
  BY DEF BufferTypes
<1>3. RxiTypes'
  BY <1>1 DEF RxiTypes
<1> QED
  BY <1>1, <1>2, <1>3 DEF Locals

(* drain_uart_buffer begins where the last interrupt stopped. *)
LEMMA DrainBeginFits ==
  ASSUME Queued, Pairs, Locals, Fits, DrainBegin
  PROVE  Queued' /\ Pairs' /\ Locals' /\ Fits'
<1> DEFINE n == IF in_packet THEN buffers[Dec(write_head)].len ELSE 0
<1>1. /\ rxi' = [on |-> TRUE, in_packet |-> in_packet, denied |-> FALSE,
                 buf |-> Dec(write_head), last_esc |-> FALSE, bi |-> n]
      /\ UNCHANGED <<tx, txi, sent, line, write_head, buffers, in_packet, held>> /\ ~rxi.on
  BY DEF DrainBegin, txVars, ringVars
<1>2. n \in Nat /\ in_packet \in BOOLEAN /\ held.on \in BOOLEAN /\ write_head \in Slot
      /\ OkBuffers(buffers) /\ (~in_packet => n = 0)
  BY LocalFacts DEF OkBuffers
<1>3. Stored = n
  BY <1>1 DEF Stored
<1> HIDE DEF n
<1>4. Locals' /\ rxi'.on = TRUE /\ rxi'.bi = n /\ rxi'.last_esc = FALSE
  BY <1>1, <1>2, LocalsFrom
<1>5. Stored' = Stored
  BY <1>3, <1>4 DEF Stored
<1>6. Queued' /\ Pairs' /\ Fits'
  BY <1>1, <1>4, <1>5 DEF Queued, Pairs, Escaping, Fits
<1> QED
  BY <1>4, <1>6

(* A byte thrown away. *)
LEMMA DrainDeniedFits ==
  ASSUME Queued, Pairs, Locals, Fits, DrainDenied
  PROVE  Queued' /\ Pairs' /\ Locals' /\ Fits'
<1>1. /\ rxi.on /\ rxi.denied /\ line # <<>> /\ line' = Tail(line)
      /\ UNCHANGED <<txVars, rxi, in_packet, buffers, write_head, held>>
  BY DEF DrainDenied, Taken, ringVars
<1>2. rxi.bi = 0 /\ ~rxi.last_esc
  BY <1>1 DEF Locals
<1>3. Locals'
  BY <1>1, SameLocals
<1>4. Queued' /\ Pairs' /\ Fits'
  BY <1>1, <1>2, ByteTaken
<1> QED
  BY <1>3, <1>4

(* A flag: it is stored alone, in a buffer of its own, or not at all. *)
LEMMA DrainFlagFits ==
  ASSUME Queued, Pairs, Locals, Fits, DrainFlag
  PROVE  Queued' /\ Pairs' /\ Locals' /\ Fits'
<1> DEFINE closed == IF Finishes THEN [buffers EXCEPT ![rxi.buf].len = rxi.bi] ELSE buffers
<1>0. RxiTypes
  BY DEF Locals
<1>1. /\ rxi.on /\ ~rxi.denied /\ line # <<>> /\ line' = Tail(line) /\ Head(line) = HDLC_FLAG
      /\ UNCHANGED <<txVars, in_packet, held>>
  BY DEF DrainFlag, Taken
<1>2. line[1] = HDLC_FLAG /\ needs_escape(line[1])
  BY <1>1 DEF Pairs, needs_escape
<1>3. rxi.last_esc = FALSE
  BY <1>1, <1>2 DEF Pairs, Locals
<1>4. CASE rxi.bi = 1 /\ UNCHANGED <<write_head, buffers, rxi>>
  <2>1. Locals'
    BY <1>1, <1>4, SameLocals
  <2>2. \A x, y \in 0 .. MaxFrame : rxi.bi <= x /\ Allows(line[1], x, y) => rxi'.bi <= y
    BY <1>2, <1>4 DEF Allows
  <2>3. Queued' /\ Pairs' /\ Fits'
    BY <1>1, <1>3, <1>4, <2>2, ByteTaken
  <2> QED
    BY <2>1, <2>3
<1>5. OkBuffers(closed)
  <2>1. CASE Finishes
    <3>1. rxi.buf = Dec(write_head)
      BY <1>1, <2>1 DEF Locals, Finishes
    <3>2. rxi.buf \in Slot /\ rxi.bi \in Nat
      BY <3>1, LocalFacts
    <3>3. closed = WithLen(buffers, rxi.buf, rxi.bi)
      BY <2>1 DEF WithLen
    <3> HIDE DEF closed
    <3> QED
      BY <3>2, <3>3, LocalFacts, SetLength
  <2>2. CASE ~Finishes
    BY <2>2, LocalFacts
  <2> QED
    BY <2>1, <2>2
<1> HIDE DEF closed
<1>6. CASE /\ rxi.bi # 1 /\ buffers' = closed /\ UNCHANGED write_head
           /\ rxi' = [rxi EXCEPT !.denied = TRUE, !.bi = IF Finishes THEN 0 ELSE @]
  <2>1. (IF Finishes THEN 0 ELSE rxi.bi) = 0
    <3>1. CASE rxi.in_packet
      BY <1>6, <3>1, LocalFacts DEF Finishes
    <3>2. CASE ~rxi.in_packet
      BY <3>2 DEF Finishes, Locals
    <3> QED
      BY <3>1, <3>2
  <2>2. rxi' = [on |-> TRUE, in_packet |-> rxi.in_packet, denied |-> TRUE,
                buf |-> rxi.buf, last_esc |-> FALSE, bi |-> 0]
    <3>1. rxi.on = TRUE
      BY <1>1, LocalFacts
    <3>2. rxi' = [rxi EXCEPT !.denied = TRUE, !.bi = 0]
      BY <1>6, <2>1
    <3> QED
      BY <1>0, <1>3, <3>1, <3>2, LocalStores, Zenon
  <2>3. rxi.in_packet => rxi.buf = Dec(write_head)
    BY <1>1 DEF Locals
  <2>4. Locals' /\ rxi'.on = TRUE /\ rxi'.bi = 0 /\ rxi'.last_esc = FALSE
    <3>1. /\ 0 \in Nat /\ write_head \in Slot /\ write_head' = write_head /\ buffers' = closed
          /\ rxi.in_packet \in BOOLEAN /\ in_packet' \in BOOLEAN /\ held'.on \in BOOLEAN
      BY <1>1, <1>6, LocalFacts
    <3> QED
      BY <1>5, <2>2, <2>3, <3>1, LocalsFrom, Zenon
  <2>5. Queued' /\ Pairs' /\ Fits'
    BY <1>1, <2>4, ByteTaken
  <2> QED
    BY <2>4, <2>5
<1>7. CASE /\ rxi.bi # 1 /\ write_head' = Inc(write_head)
           /\ rxi' = [rxi EXCEPT !.buf = write_head, !.in_packet = TRUE,
                                 !.last_esc = FALSE, !.bi = 1]
           /\ buffers' = [closed EXCEPT ![write_head].len = 1,
                                        ![write_head].bytes[0] = HDLC_FLAG]
  <2>1. rxi' = [on |-> TRUE, in_packet |-> TRUE, denied |-> FALSE,
                buf |-> write_head, last_esc |-> FALSE, bi |-> 1]
    <3>1. rxi.on = TRUE /\ rxi.denied = FALSE
      BY <1>1, LocalFacts
    <3>2. rxi' = [rxi EXCEPT !.buf = write_head, !.in_packet = TRUE,
                             !.last_esc = FALSE, !.bi = 1]
      BY <1>7
    <3> QED
      BY <1>0, <3>1, <3>2, LocalStores, Zenon
  <2>2. OkBuffers(buffers')
    <3> DEFINE cs == WithLen(closed, write_head, 1)
    <3>1. OkBuffers(cs)
      BY <1>5, LocalFacts, SetLength
    <3>2. buffers' = WithByte(cs, write_head, 0, HDLC_FLAG)
      BY <1>7 DEF WithLen, WithByte
    <3> HIDE DEF cs
    <3> QED
      BY <3>1, <3>2, LocalFacts, SetByte
  <2>3. Locals' /\ rxi'.on = TRUE /\ rxi'.bi = 1 /\ rxi'.last_esc = FALSE
    <3>1. /\ 1 \in Nat /\ Inc(write_head) \in Slot /\ write_head = Dec(Inc(write_head))
          /\ write_head' = Inc(write_head) /\ in_packet' \in BOOLEAN /\ held'.on \in BOOLEAN
      BY <1>1, <1>7, LocalFacts
    <3> QED
      BY <2>1, <2>2, <3>1, LocalsFrom, Zenon
  <2>4. \A x, y \in 0 .. MaxFrame : rxi.bi <= x /\ Allows(line[1], x, y) => rxi'.bi <= y
    BY <1>2, <2>3 DEF Allows
  <2>5. Queued' /\ Pairs' /\ Fits'
    BY <1>1, <2>3, <2>4, ByteTaken
  <2> QED
    BY <2>3, <2>5
<1> QED
  BY <1>4, <1>6, <1>7 DEF DrainFlag, closed

(* A byte to be stored: there is room for it. *)
LEMMA RoomForByte ==
  ASSUME Pairs, Locals, Fits, rxi.on, line # <<>>, ~needs_escape(line[1])
  PROVE  rxi.bi < MaxFrame
<1>1. PICK q \in [0 .. Len(line) -> 0 .. MaxFrame] : Bounds(q, line, tx, Stored)
  BY DEF Fits
<1>2. Len(line) \in Nat \ {0}
  BY DEF Pairs
<1>3. q[0] \in 0 .. MaxFrame /\ q[1] \in 0 .. MaxFrame
  BY <1>1, <1>2
<1>4. rxi.bi <= q[0] /\ rxi.bi \in Nat
  BY <1>1, LocalFacts DEF Bounds, Stored
<1>5. Allows(line[1], q[0], q[1])
  <2>1. 1 \in 1 .. Len(line) /\ 1 - 1 = 0
    BY <1>2
  <2> QED
    BY <1>1, <2>1 DEF Bounds
<1> QED
  BY <1>3, <1>4, <1>5, FramesAssumption DEF Allows

(* Any other byte: ignored, an escape, or one that finds room. *)
LEMMA DrainDataFits ==
  ASSUME Queued, Pairs, Locals, Fits, DrainData
  PROVE  Queued' /\ Pairs' /\ Locals' /\ Fits' /\ panicked' = panicked
<1>0. RxiTypes
  BY DEF Locals
<1>1. /\ rxi.on /\ ~rxi.denied /\ line # <<>> /\ line' = Tail(line) /\ Head(line) # HDLC_FLAG
      /\ UNCHANGED <<txVars, write_head, in_packet, held>>
  BY DEF DrainData, Taken
<1>2. Head(line) = line[1] /\ rxi.on = TRUE /\ rxi.denied = FALSE
  BY <1>1, LocalFacts DEF Pairs
<1>3. CASE ~rxi.in_packet /\ UNCHANGED <<rxi, buffers, panicked>>
  <2>1. rxi.bi = 0 /\ ~rxi.last_esc
    BY <1>3 DEF Locals
  <2>2. Locals'
    BY <1>1, <1>3, SameLocals
  <2>3. Queued' /\ Pairs' /\ Fits'
    BY <1>1, <1>3, <2>1, ByteTaken
  <2> QED
    BY <1>3, <2>2, <2>3
<1>4. CASE /\ rxi.in_packet /\ line[1] = HDLC_ESC /\ UNCHANGED <<buffers, panicked>>
           /\ rxi' = [rxi EXCEPT !.last_esc = TRUE]
  <2>1. rxi' = [on |-> TRUE, in_packet |-> rxi.in_packet, denied |-> FALSE,
                buf |-> rxi.buf, last_esc |-> TRUE, bi |-> rxi.bi]
    BY <1>0, <1>2, <1>4, LocalStores, Zenon
  <2>2. /\ rxi.bi \in Nat /\ write_head \in Slot /\ write_head' = write_head
        /\ buffers' = buffers /\ OkBuffers(buffers)
        /\ rxi.in_packet \in BOOLEAN /\ in_packet' \in BOOLEAN /\ held'.on \in BOOLEAN
    BY <1>1, <1>4, LocalFacts
  <2>3. rxi.in_packet => rxi.buf = Dec(write_head)
    BY <1>1 DEF Locals
  <2>4. Locals' /\ rxi'.on = TRUE /\ rxi'.bi = rxi.bi /\ rxi'.last_esc = TRUE
    <3> DEFINE n == rxi.bi
               ip == rxi.in_packet
               bf == rxi.buf
    <3>1. /\ ~ip \/ FALSE => n = 0 /\ ~TRUE
          /\ n \in Nat /\ ip \in BOOLEAN /\ (ip => bf = Dec(write_head))
          /\ rxi' = [on |-> TRUE, in_packet |-> ip, denied |-> FALSE, buf |-> bf,
                     last_esc |-> TRUE, bi |-> n]
      BY <1>4, <2>1, <2>2, <2>3
    <3> HIDE DEF n, ip, bf
    <3>2. Locals' /\ rxi'.on = TRUE /\ rxi'.bi = n /\ rxi'.last_esc = TRUE
      BY <2>2, <3>1, LocalsFrom
    <3> QED
      BY <3>2 DEF n
  <2>5. \A x, y \in 0 .. MaxFrame : rxi.bi <= x /\ Allows(line[1], x, y) => rxi'.bi <= y
    BY <1>4, <2>2, <2>4, FramesAssumption DEF Allows
  <2>6. Queued' /\ Pairs' /\ Fits'
    BY <1>1, <1>4, <2>4, <2>5, ByteTaken
  <2> QED
    BY <1>4, <2>4, <2>6
<1>5. CASE /\ rxi.in_packet /\ (rxi.last_esc \/ line[1] # HDLC_ESC)
           /\ rxi' = [rxi EXCEPT !.last_esc = FALSE, !.bi = @ + 1]
           /\ IF rxi.bi < MaxFrame
                THEN /\ buffers' = [buffers EXCEPT ![rxi.buf].bytes[rxi.bi] =
                                       IF rxi.last_esc THEN Xor(Head(line)) ELSE Head(line)]
                     /\ UNCHANGED panicked
                ELSE panicked' = TRUE /\ UNCHANGED buffers
  <2>1. ~needs_escape(line[1])
    <3>1. CASE rxi.last_esc
      BY <1>1, <3>1 DEF Pairs
    <3>2. CASE line[1] # HDLC_ESC
      BY <1>1, <1>2, <3>2 DEF needs_escape
    <3> QED
      BY <1>5, <3>1, <3>2
  <2>2. rxi.bi < MaxFrame
    BY <1>1, <2>1, RoomForByte
  <2>3. rxi' = [on |-> TRUE, in_packet |-> rxi.in_packet, denied |-> FALSE,
                buf |-> rxi.buf, last_esc |-> FALSE, bi |-> rxi.bi + 1]
    <3>1. rxi' = [rxi EXCEPT !.last_esc = FALSE, !.bi = rxi.bi + 1]
      BY <1>5
    <3> QED
      BY <1>0, <1>2, <3>1, LocalStores, Zenon
  <2>4. rxi.buf = Dec(write_head)
    BY <1>1, <1>5 DEF Locals
  <2>5. OkBuffers(buffers') /\ panicked' = panicked
    <3> DEFINE v == IF rxi.last_esc THEN Xor(Head(line)) ELSE Head(line)
    <3>1. buffers' = WithByte(buffers, rxi.buf, rxi.bi, v) /\ panicked' = panicked
      BY <1>5, <2>2 DEF WithByte
    <3> HIDE DEF v
    <3>2. rxi.buf \in Slot
      BY <2>4, LocalFacts
    <3> QED
      BY <3>1, <3>2, LocalFacts, SetByte
  <2>6. /\ rxi.bi + 1 \in Nat /\ write_head \in Slot /\ write_head' = write_head
        /\ rxi.in_packet \in BOOLEAN /\ in_packet' \in BOOLEAN /\ held'.on \in BOOLEAN
    BY <1>1, LocalFacts
  <2>7. Locals' /\ rxi'.on = TRUE /\ rxi'.bi = rxi.bi + 1 /\ rxi'.last_esc = FALSE
    <3> DEFINE n == rxi.bi + 1
               ip == rxi.in_packet
               bf == rxi.buf
    <3>1. /\ ~ip \/ FALSE => n = 0 /\ ~FALSE
          /\ n \in Nat /\ ip \in BOOLEAN /\ (ip => bf = Dec(write_head))
          /\ rxi' = [on |-> TRUE, in_packet |-> ip, denied |-> FALSE, buf |-> bf,
                     last_esc |-> FALSE, bi |-> n]
      BY <1>5, <2>3, <2>4, <2>6
    <3> HIDE DEF n, ip, bf
    <3>2. Locals' /\ rxi'.on = TRUE /\ rxi'.bi = n /\ rxi'.last_esc = FALSE
      BY <2>5, <2>6, <3>1, LocalsFrom
    <3> QED
      BY <3>2 DEF n
  <2>8. \A x, y \in 0 .. MaxFrame : rxi.bi <= x /\ Allows(line[1], x, y) => rxi'.bi <= y
    BY <2>1, <2>7, LocalFacts, FramesAssumption DEF Allows
  <2>9. Queued' /\ Pairs' /\ Fits'
    BY <1>1, <2>7, <2>8, ByteTaken
  <2> QED
    BY <2>5, <2>7, <2>9
<1> QED
  BY <1>2, <1>3, <1>4, <1>5 DEF DrainData

(* The end of the handler: what it has stored is the length of the buffer. *)
LEMMA DrainEndFits ==
  ASSUME Queued, Pairs, Locals, Fits, DrainEnd
  PROVE  Queued' /\ Pairs' /\ Locals' /\ Fits'
<1>1. /\ rxi.on /\ in_packet' = rxi.in_packet /\ rxi' = Idle
      /\ buffers' = IF rxi.in_packet THEN [buffers EXCEPT ![rxi.buf].len = rxi.bi] ELSE buffers
      /\ UNCHANGED <<tx, txi, sent, line, write_head, held>>
  BY DEF DrainEnd, txVars
<1>2. /\ rxi'.on = FALSE /\ rxi'.in_packet = FALSE /\ rxi'.denied = FALSE
      /\ rxi'.last_esc = FALSE /\ rxi'.bi = 0
  BY <1>1 DEF Idle
<1>3. RxiTypes'
  <2>1. in_packet' \in BOOLEAN /\ held'.on \in BOOLEAN
    BY <1>1, LocalFacts
  <2> QED
    BY <1>1, <1>2, <2>1 DEF RxiTypes, Idle
<1>4. OkBuffers(buffers') /\ Stored' = rxi.bi
  <2>1. CASE rxi.in_packet
    <3>1. rxi.buf = Dec(write_head)
      BY <1>1, <2>1 DEF Locals
    <3>2. rxi.buf \in Slot /\ rxi.bi \in Nat
      BY <3>1, LocalFacts
    <3>3. buffers' = WithLen(buffers, rxi.buf, rxi.bi)
      BY <1>1, <2>1 DEF WithLen
    <3>4. OkBuffers(buffers') /\ buffers'[rxi.buf].len = rxi.bi
      BY <3>2, <3>3, LocalFacts, SetLength
    <3>5. Dec(write_head)' = rxi.buf
      BY <1>1, <3>1 DEF Dec
    <3> QED
      BY <1>1, <1>2, <2>1, <3>4, <3>5 DEF Stored
  <2>2. CASE ~rxi.in_packet
    <3>1. OkBuffers(buffers') /\ rxi.bi = 0
      BY <1>1, <2>2, LocalFacts DEF Locals
    <3> QED
      BY <1>1, <1>2, <2>2, <3>1 DEF Stored
  <2> QED
    BY <2>1, <2>2
<1>5. Locals'
  BY <1>1, <1>2, <1>3, <1>4, LocalFacts DEF Locals, BufferTypes
<1>6. Stored' = Stored
  BY <1>1, <1>4 DEF Stored
<1>7. Queued' /\ Pairs' /\ Fits'
  BY <1>1, <1>2, <1>6 DEF Queued, Pairs, Escaping, Fits
<1> QED
  BY <1>5, <1>7

(* TxBegin, Take and Discard leave the line and the handler's half alone. *)
LEMMA OthersFit ==
  ASSUME Queued, Pairs, Locals, Fits, txi' => tx # <<>>, held'.on \in BOOLEAN,
         UNCHANGED <<tx, sent, line, rxi, in_packet, buffers, write_head>>
  PROVE  Queued' /\ Pairs' /\ Locals' /\ Fits'
<1>1. Queued' /\ Pairs'
  BY DEF Queued, Pairs, Escaping
<1>2. Locals' /\ Stored' = Stored
  BY DEF Locals, BufferTypes, OkBuffers, RxiTypes, Stored
<1>3. Fits'
  BY <1>2 DEF Fits
<1> QED
  BY <1>1, <1>2, <1>3

(* Every step keeps the bound, until a byte is lost. *)
LEMMA FitStep == FitInv /\ [Next]_vars => FitInv'
<1> SUFFICES ASSUME FitInv, [Next]_vars PROVE FitInv'
  OBVIOUS
<1>1. CASE lost # 0
  <2>1. lost' = lost \/ lost' = lost + 1
    BY DEF Next, Step, Push, TxBegin, TxByte, TxEnd, LoseByte, DrainBegin, DrainDenied,
           DrainFlag, DrainData, DrainEnd, Take, Discard, history, vars
  <2> QED
    BY <1>1, <2>1 DEF FitInv
<1>2. CASE lost = 0
  <2>0. Queued /\ Pairs /\ Locals /\ Fits /\ panicked = FALSE
    BY <1>2 DEF FitInv
  <2> SUFFICES ASSUME lost' = 0
               PROVE  Queued' /\ Pairs' /\ Locals' /\ Fits' /\ panicked' = FALSE
    <3>1. lost' = lost \/ lost' = lost + 1
      BY DEF Next, Step, Push, TxBegin, TxByte, TxEnd, LoseByte, DrainBegin, DrainDenied,
             DrainFlag, DrainData, DrainEnd, Take, Discard, history, vars
    <3>2. lost' \in Nat
      BY <1>2, <3>1
    <3> QED
      BY <3>2 DEF FitInv
  <2>1. CASE \E tail \in Tails : Push(tail)
    <3>1. PICK tail \in Tails : Push(tail)
      BY <2>1
    <3>2. panicked' = panicked
      BY <3>1 DEF Push
    <3> QED
      BY <2>0, <3>1, <3>2, PushFits
  <2>2. CASE TxBegin
    <3>1. /\ tx # <<>> /\ held'.on \in BOOLEAN /\ panicked' = panicked
          /\ UNCHANGED <<tx, sent, line, rxi, in_packet, buffers, write_head>>
      BY <2>0, <2>2, LocalFacts DEF TxBegin, ringVars
    <3> QED
      BY <2>0, <3>1, OthersFit
  <2>3. CASE TxByte
    <3>1. panicked' = panicked
      BY <2>3 DEF TxByte
    <3> QED
      BY <2>0, <2>3, <3>1, TxByteFits
  <2>4. CASE TxEnd
    <3>1. panicked' = panicked
      BY <2>4 DEF TxEnd
    <3> QED
      BY <2>0, <2>4, <3>1, TxEndFits
  <2>5. CASE LoseByte
    BY <1>2, <2>5 DEF LoseByte
  <2>6. CASE DrainBegin
    <3>1. panicked' = panicked
      BY <2>6 DEF DrainBegin
    <3> QED
      BY <2>0, <2>6, <3>1, DrainBeginFits
  <2>7. CASE DrainDenied
    <3>1. panicked' = panicked
      BY <2>7 DEF DrainDenied
    <3> QED
      BY <2>0, <2>7, <3>1, DrainDeniedFits
  <2>8. CASE DrainFlag
    <3>1. panicked' = panicked
      BY <2>8 DEF DrainFlag
    <3> QED
      BY <2>0, <2>8, <3>1, DrainFlagFits
  <2>9. CASE DrainData
    BY <2>0, <2>9, DrainDataFits
  <2>10. CASE DrainEnd
    <3>1. panicked' = panicked
      BY <2>10 DEF DrainEnd
    <3> QED
      BY <2>0, <2>10, <3>1, DrainEndFits
  <2>11. CASE Take
    <3>1. /\ held' = [on |-> TRUE, idx |-> read_head, len |-> buffers[read_head].len]
          /\ UNCHANGED <<tx, txi, sent, line, rxi, in_packet, buffers, write_head, panicked>>
      BY <2>11 DEF Take, txVars, ringVars
    <3>2. held'.on \in BOOLEAN /\ (txi' => tx # <<>>)
      BY <2>0, <3>1 DEF Queued
    <3> QED
      BY <2>0, <3>1, <3>2, OthersFit
  <2>12. CASE Discard
    <3>1. /\ held' = None
          /\ UNCHANGED <<tx, txi, sent, line, rxi, in_packet, buffers, write_head, panicked>>
      BY <2>12 DEF Discard, txVars, ringVars
    <3>2. held'.on \in BOOLEAN /\ (txi' => tx # <<>>)
      BY <2>0, <3>1 DEF Queued, None
    <3> QED
      BY <2>0, <3>1, <3>2, OthersFit
  <2>13. CASE UNCHANGED vars
    <3>1. /\ held'.on \in BOOLEAN /\ (txi' => tx # <<>>) /\ panicked' = panicked
          /\ UNCHANGED <<tx, sent, line, rxi, in_packet, buffers, write_head>>
      BY <2>0, <2>13, LocalFacts DEF vars, txVars, ringVars, Queued
    <3> QED
      BY <2>0, <3>1, OthersFit
  <2> QED
    BY <2>1, <2>2, <2>3, <2>4, <2>5, <2>6, <2>7, <2>8, <2>9, <2>10, <2>11, <2>12, <2>13
       DEF Next, Step
<1> QED
  BY <1>1, <1>2

(***************************************************************************)
(* drain_uart_buffer indexes its buffer with a bounds check that halts the *)
(* board: for rings, buffers and bodies of every size, no frame of the     *)
(* other side is stored past the end of a buffer unless the line lost a    *)
(* byte, even when buffers are denied and the handler stops and resumes    *)
(* in the middle of a frame.                                               *)
(***************************************************************************)
THEOREM FramesFitTheirBuffers == Spec => []OverrunsOnlyAfterLoss
<1>1. FitInv => OverrunsOnlyAfterLoss
  BY DEF FitInv, OverrunsOnlyAfterLoss
<1> QED
  BY FitInit, FitStep, <1>1, PTL DEF Spec

-----------------------------------------------------------------------------
(***************************************************************************)
(* Order: frames are taken in the order they were pushed, whatever was     *)
(* lost, denied or overwritten.  A byte's value is what counts here, 2 and *)
(* more belong to the first byte of a frame, and drain_uart_buffer only    *)
(* ever writes to the newest buffer.  From the last frame taken, through   *)
(* the buffers in use, oldest first, and along the line, these values grow.*)
(***************************************************************************)

(* The first byte of a frame's body is its own, the others are not. *)
Numbered(f, k) ==
  /\ f.frame[2] = Own(k)
  /\ \A j \in 1 .. Len(f.frame) : j # 2 => f.frame[j][1] < 2

(* The queue holds the frames pushed last, in their order. *)
Numbering ==
  /\ Len(tx) <= Len(sent)
  /\ \A k \in DOMAIN sent : Len(sent[k]) \in 1 .. MaxFrame - 1 /\ sent[k][1] = Own(k)
  /\ \A i \in DOMAIN tx : Numbered(tx[i], Len(sent) - Len(tx) + i)

(* Frames whose first byte write_out has put on the line. *)
Begun == Len(sent) - Len(tx) + (IF tx # <<>> /\ tx[1].index > 2 THEN 1 ELSE 0)

(* A buffer counts once the first byte of a body is stored in it, and as   *)
(* long as someone may think so: its length, the handler, the main loop.   *)
Counts(b, s, x, h) ==
  \/ b.len >= 2
  \/ s = x.buf /\ x.bi >= 2
  \/ s = h.idx /\ h.len >= 2

(* The value of that byte, 0 where there is none of a frame's own. *)
Mark(b, s, x, h) ==
  IF 1 < MaxFrame /\ Counts(b, s, x, h) /\ b.bytes[1][1] >= 2 THEN b.bytes[1][1] ELSE 0

Marks(bs, x, h) == [s \in Slot |-> Mark(bs[s], s, x, h)]

(* The marks w of the u buffers from r on grow, within lo .. m. *)
Ordered(w, r, u, lo, m) ==
  /\ w \in [Slot -> Nat] /\ lo <= m
  /\ \A j \in 0 .. u - 1 :
       w[After(r, j)] # 0 => lo < w[After(r, j)] /\ w[After(r, j)] <= m
  /\ \A i, j \in 0 .. u - 1 :
       i < j /\ w[After(r, i)] # 0 /\ w[After(r, j)] # 0 => w[After(r, i)] < w[After(r, j)]

(* So do the values on the line, within m .. t. *)
OnLine(l, m, t) ==
  /\ l \in Seq(Byte) /\ m <= t
  /\ \A i \in 1 .. Len(l) : l[i][1] >= 2 => m < l[i][1] /\ l[i][1] <= t
  /\ \A i, j \in 1 .. Len(l) :
       i < j /\ l[i][1] >= 2 /\ l[j][1] >= 2 => l[i][1] < l[j][1]

(* Every buffer has MaxFrame bytes, and the one that marks it has a value. *)
OkBytes(bs) ==
  \A i \in Slot :
    /\ bs[i].bytes = [j \in 0 .. MaxFrame - 1 |-> bs[i].bytes[j]]
    /\ 1 < MaxFrame => bs[i].bytes[1][1] \in Nat

(* The ring and its two users, denied or not. *)
Ring ==
  /\ BufferTypes /\ OkBytes(buffers) /\ RxiTypes
  /\ write_head \in Slot /\ read_head \in Slot /\ free_buffers \in 0 .. N
  /\ write_head = After(read_head, N - free_buffers)
  /\ rxi.on /\ rxi.in_packet => rxi.buf = Dec(write_head)
  /\ ~rxi.on \/ ~rxi.in_packet => rxi.bi = 0

Holding ==
  /\ held.len \in Nat
  /\ IF held.on THEN held.idx = read_head /\ free_buffers < N ELSE held.len = 0

Passed(m) ==
  /\ Ordered(Marks(buffers, rxi, held), read_head, N - free_buffers, last + 1, m)
  /\ OnLine(line, m, Begun + 1)

OrderInv ==
  /\ Queued /\ Numbering /\ Ring /\ Holding /\ last \in Nat
  /\ \E m \in Nat : Passed(m)

(* The slots in use are told apart. *)
LEMMA AfterTells ==
  ASSUME NEW r \in Slot, NEW i \in 0 .. N - 1, NEW j \in 0 .. N - 1, i # j
  PROVE  After(r, i) \in Slot /\ After(r, j) \in Slot /\ After(r, i) # After(r, j)
  BY FramesAssumption DEF After, Slot

(* The newest slot is the one before the write head. *)
LEMMA NewestSlot ==
  ASSUME NEW r \in Slot, NEW u \in 1 .. N
  PROVE  Dec(After(r, u)) = After(r, u - 1)
  BY FramesAssumption DEF After, Dec, Slot

(* Every slot in use is a slot. *)
LEMMA AfterSlot ==
  ASSUME NEW r \in Slot, NEW j \in 0 .. N - 1
  PROVE  After(r, j) \in Slot
  BY FramesAssumption DEF After, Slot

(***************************************************************************)
(* A store of the handler: marks are wiped, and the newest buffer may be   *)
(* given one above all that came before.                                   *)
(***************************************************************************)
LEMMA MarkStored ==
  ASSUME NEW w, NEW v \in [Slot -> Nat], NEW r \in Slot, NEW u \in 0 .. N,
         NEW lo \in Nat, NEW m \in Nat, NEW n \in Nat, m <= n,
         Ordered(w, r, u, lo, m),
         \A s \in Slot : \/ v[s] = 0 \/ v[s] = w[s]
                         \/ s = Dec(After(r, u)) /\ m < v[s] /\ v[s] <= n
  PROVE  Ordered(v, r, u, lo, n)
<1>1. N \in Nat \ {0} /\ w \in [Slot -> Nat] /\ lo <= n
  BY FramesAssumption DEF Ordered
<1>2. ASSUME NEW j \in 0 .. u - 1, v[After(r, j)] # 0
      PROVE  \/ v[After(r, j)] = w[After(r, j)] /\ w[After(r, j)] # 0
             \/ j = u - 1 /\ m < v[After(r, j)] /\ v[After(r, j)] <= n
  <2>1. u \in 1 .. N /\ j \in 0 .. N - 1 /\ u - 1 \in 0 .. N - 1
    BY <1>1
  <2>2. Dec(After(r, u)) = After(r, u - 1) /\ After(r, j) \in Slot
    BY <2>1, NewestSlot, AfterSlot
  <2>3. After(r, j) = After(r, u - 1) => j = u - 1
    BY <2>1, AfterTells
  <2> QED
    BY <1>2, <2>2, <2>3
<1>3. ASSUME NEW j \in 0 .. u - 1, v[After(r, j)] # 0
      PROVE  lo < v[After(r, j)] /\ v[After(r, j)] <= n
  <2>1. After(r, j) \in Slot
    BY <1>1, AfterSlot
  <2>2. v[After(r, j)] \in Nat
    BY <2>1
  <2> QED
    BY <1>1, <1>2, <1>3, <2>2 DEF Ordered
<1>4. ASSUME NEW i \in 0 .. u - 1, NEW j \in 0 .. u - 1,
             i < j, v[After(r, i)] # 0, v[After(r, j)] # 0
      PROVE  v[After(r, i)] < v[After(r, j)]
  <2>1. After(r, i) \in Slot /\ After(r, j) \in Slot
    BY <1>1, AfterSlot
  <2>2. v[After(r, i)] \in Nat /\ v[After(r, j)] \in Nat
    BY <2>1
  <2>3. i # u - 1
    BY <1>4
  <2>4. v[After(r, i)] = w[After(r, i)] /\ w[After(r, i)] # 0
    BY <1>2, <1>4, <2>3
  <2>5. w[After(r, i)] <= m
    BY <2>4 DEF Ordered
  <2> QED
    BY <1>2, <1>4, <2>2, <2>4, <2>5 DEF Ordered
<1> QED
  BY <1>1, <1>3, <1>4 DEF Ordered

(* try_alloc_buffer: one buffer more, as yet without a mark. *)
LEMMA MarkOpened ==
  ASSUME NEW w, NEW v \in [Slot -> Nat], NEW r \in Slot, NEW u \in 0 .. N - 1,
         NEW lo \in Nat, NEW m \in Nat, Ordered(w, r, u, lo, m),
         \A s \in Slot : v[s] = 0 \/ v[s] = w[s],
         v[After(r, u)] = 0
  PROVE  Ordered(v, r, u + 1, lo, m)
<1>1. \A j \in 0 .. (u + 1) - 1 : v[After(r, j)] # 0 =>
         j \in 0 .. u - 1 /\ v[After(r, j)] = w[After(r, j)] /\ After(r, j) \in Slot
  <2> SUFFICES ASSUME NEW j \in 0 .. (u + 1) - 1, v[After(r, j)] # 0
               PROVE  j \in 0 .. u - 1 /\ v[After(r, j)] = w[After(r, j)] /\ After(r, j) \in Slot
    OBVIOUS
  <2>1. N \in Nat \ {0} /\ j # u
    BY FramesAssumption
  <2>2. j \in 0 .. u - 1 /\ j \in 0 .. N - 1
    BY <2>1
  <2> QED
    BY <2>2, AfterSlot
<1>2. ASSUME NEW j \in 0 .. (u + 1) - 1, v[After(r, j)] # 0
      PROVE  lo < v[After(r, j)] /\ v[After(r, j)] <= m
  BY <1>1, <1>2 DEF Ordered
<1>3. ASSUME NEW i \in 0 .. (u + 1) - 1, NEW j \in 0 .. (u + 1) - 1,
             i < j, v[After(r, i)] # 0, v[After(r, j)] # 0
      PROVE  v[After(r, i)] < v[After(r, j)]
  BY <1>1, <1>3 DEF Ordered
<1> QED
  BY <1>2, <1>3 DEF Ordered

(* discard: the oldest buffer goes; what it was taken for bounds the rest. *)
LEMMA MarkTaken ==
  ASSUME NEW w, NEW v \in [Slot -> Nat], NEW r \in Slot, NEW u \in 1 .. N,
         NEW lo \in Nat, NEW m \in Nat, Ordered(w, r, u, lo, m),
         \A s \in Slot : v[s] = 0 \/ v[s] = w[s],
         NEW k \in Nat, k = lo \/ (k = w[r] /\ w[r] # 0)
  PROVE  Ordered(v, Inc(r), u - 1, k, m)
<1>1. N \in Nat \ {0} /\ After(r, 0) = r /\ 0 \in 0 .. u - 1
  BY FramesAssumption, AfterOne
<1>2. lo <= k /\ k <= m
  BY <1>1 DEF Ordered
<1>3. \A j \in 0 .. (u - 1) - 1 :
        /\ After(Inc(r), j) = After(r, j + 1) /\ j + 1 \in 0 .. u - 1 /\ j + 1 > 0
        /\ After(r, j + 1) \in Slot
  <2> SUFFICES ASSUME NEW j \in 0 .. (u - 1) - 1
               PROVE  /\ After(Inc(r), j) = After(r, j + 1) /\ j + 1 \in 0 .. u - 1 /\ j + 1 > 0
                      /\ After(r, j + 1) \in Slot
    OBVIOUS
  <2>1. j + 1 \in 1 .. N /\ j + 1 \in 0 .. N - 1 /\ (j + 1) - 1 = j
    BY <1>1
  <2>2. After(Inc(r), (j + 1) - 1) = After(r, j + 1)
    BY <2>1, AfterShrinks
  <2> QED
    BY <1>1, <2>1, <2>2, AfterSlot
<1>4. ASSUME NEW j \in 0 .. (u - 1) - 1, v[After(Inc(r), j)] # 0
      PROVE  k < v[After(Inc(r), j)] /\ v[After(Inc(r), j)] <= m
  <2>1. v[After(r, j + 1)] = w[After(r, j + 1)] /\ w[After(r, j + 1)] # 0
    BY <1>3, <1>4
  <2>2. lo < w[After(r, j + 1)] /\ w[After(r, j + 1)] <= m
    BY <1>3, <2>1 DEF Ordered
  <2>3. w[r] # 0 => w[r] < w[After(r, j + 1)]
    BY <1>1, <1>3, <2>1 DEF Ordered
  <2> QED
    BY <1>3, <2>1, <2>2, <2>3
<1>5. ASSUME NEW i \in 0 .. (u - 1) - 1, NEW j \in 0 .. (u - 1) - 1, i < j,
             v[After(Inc(r), i)] # 0, v[After(Inc(r), j)] # 0
      PROVE  v[After(Inc(r), i)] < v[After(Inc(r), j)]
  <2>1. /\ v[After(r, i + 1)] = w[After(r, i + 1)] /\ w[After(r, i + 1)] # 0
        /\ v[After(r, j + 1)] = w[After(r, j + 1)] /\ w[After(r, j + 1)] # 0
    BY <1>3, <1>5
  <2>2. i + 1 < j + 1 /\ i + 1 \in 0 .. u - 1 /\ j + 1 \in 0 .. u - 1
    BY <1>3, <1>5
  <2>3. w[After(r, i + 1)] < w[After(r, j + 1)]
    BY <2>1, <2>2 DEF Ordered
  <2> QED
    BY <1>3, <2>1, <2>3
<1> QED
  BY <1>2, <1>4, <1>5 DEF Ordered

(* A byte has a value, and the escape does not change which frame's it is. *)
LEMMA ByteValue ==
  ASSUME NEW b \in Byte
  PROVE  b[1] \in Nat /\ Xor(b)[1] = b[1]
  BY DEF Byte, Xor

(* write_out puts a byte on the line: no frame's own, or that of the next. *)
LEMMA LineGrows ==
  ASSUME NEW l, NEW m \in Nat, NEW t \in Nat, OnLine(l, m, t),
         NEW b \in Byte, NEW n \in Nat, t <= n, b[1] < 2 \/ (t < b[1] /\ b[1] <= n)
  PROVE  OnLine(Append(l, b), m, n)
<1> DEFINE k == Append(l, b)
<1>1. /\ l \in Seq(Byte) /\ Len(l) \in Nat /\ Len(k) = Len(l) + 1 /\ k[Len(l) + 1] = b
      /\ k \in Seq(Byte) /\ \A i \in 1 .. Len(l) : k[i] = l[i] /\ l[i] \in Byte
  BY DEF OnLine
<1> HIDE DEF k
<1>2. b[1] \in Nat /\ \A i \in 1 .. Len(l) : l[i][1] \in Nat
  BY <1>1, ByteValue
<1>3. \A i \in 1 .. Len(k) : i \in 1 .. Len(l) \/ i = Len(l) + 1
  BY <1>1
<1>4. ASSUME NEW i \in 1 .. Len(k), k[i][1] >= 2
      PROVE  m < k[i][1] /\ k[i][1] <= n
  <2>1. CASE i \in 1 .. Len(l)
    <3>1. k[i] = l[i] /\ l[i][1] \in Nat
      BY <1>1, <1>2, <2>1
    <3>2. m < l[i][1] /\ l[i][1] <= t
      BY <1>4, <2>1, <3>1 DEF OnLine
    <3> QED
      BY <3>1, <3>2
  <2>2. CASE i = Len(l) + 1
    <3>1. m <= t /\ k[i] = b
      BY <1>1, <2>2 DEF OnLine
    <3> QED
      BY <1>2, <1>4, <3>1
  <2> QED
    BY <1>3, <2>1, <2>2
<1>5. ASSUME NEW i \in 1 .. Len(k), NEW j \in 1 .. Len(k), i < j, k[i][1] >= 2, k[j][1] >= 2
      PROVE  k[i][1] < k[j][1]
  <2>1. i \in 1 .. Len(l) /\ k[i] = l[i] /\ l[i][1] \in Nat
    BY <1>1, <1>2, <1>5
  <2>2. CASE j \in 1 .. Len(l)
    <3>1. k[j] = l[j]
      BY <1>1, <2>2
    <3> QED
      BY <1>5, <2>1, <2>2, <3>1 DEF OnLine
  <2>3. CASE j = Len(l) + 1
    <3>1. k[j] = b
      BY <1>1, <2>3
    <3>2. l[i][1] <= t
      BY <1>5, <2>1 DEF OnLine
    <3> QED
      BY <1>2, <1>5, <2>1, <3>1, <3>2
  <2> QED
    BY <1>3, <2>2, <2>3
<1>6. m <= n
  BY DEF OnLine
<1> QED
  BY <1>1, <1>4, <1>5, <1>6 DEF OnLine, k

(* A byte leaves the line; if it is a frame's own, those behind are later. *)
LEMMA LineShrinks ==
  ASSUME NEW l, NEW m \in Nat, NEW t \in Nat, OnLine(l, m, t), l # <<>>
  PROVE  /\ Head(l) \in Byte /\ OnLine(Tail(l), m, t)
         /\ Head(l)[1] >= 2 => m < Head(l)[1] /\ OnLine(Tail(l), Head(l)[1], t)
<1> DEFINE k == Tail(l)
<1>1. /\ l \in Seq(Byte) /\ Len(l) \in Nat /\ Len(l) >= 1 /\ Head(l) = l[1] /\ l[1] \in Byte
      /\ k \in Seq(Byte) /\ Len(k) = Len(l) - 1
      /\ \A i \in 1 .. Len(k) : k[i] = l[i + 1]
  BY DEF OnLine
<1> HIDE DEF k
<1>2. \A i \in 1 .. Len(k) : i + 1 \in 1 .. Len(l) /\ 1 < i + 1 /\ 1 \in 1 .. Len(l)
  BY <1>1
<1>3. ASSUME NEW i \in 1 .. Len(k), k[i][1] >= 2
      PROVE  m < k[i][1] /\ k[i][1] <= t
  BY <1>1, <1>2, <1>3 DEF OnLine
<1>4. ASSUME NEW i \in 1 .. Len(k), k[i][1] >= 2, l[1][1] >= 2
      PROVE  l[1][1] < k[i][1]
  BY <1>1, <1>2, <1>4 DEF OnLine
<1>5. ASSUME NEW i \in 1 .. Len(k), NEW j \in 1 .. Len(k), i < j, k[i][1] >= 2, k[j][1] >= 2
      PROVE  k[i][1] < k[j][1]
  <2>1. i + 1 < j + 1 /\ k[i] = l[i + 1] /\ k[j] = l[j + 1]
    BY <1>1, <1>5
  <2> QED
    BY <1>2, <1>5, <2>1 DEF OnLine
<1>6. l[1][1] >= 2 => m < l[1][1] /\ l[1][1] <= t
  <2>1. 1 \in 1 .. Len(l)
    BY <1>1
  <2> QED
    BY <2>1 DEF OnLine
<1>7. m <= t
  BY DEF OnLine
<1>8. OnLine(k, m, t)
  BY <1>1, <1>3, <1>5, <1>7 DEF OnLine
<1>9. l[1][1] >= 2 => OnLine(k, l[1][1], t)
  BY <1>1, <1>3, <1>4, <1>5, <1>6 DEF OnLine
<1> QED
  BY <1>1, <1>6, <1>8, <1>9 DEF k

(* Storing a length changes no byte. *)
LEMMA LengthKeepsBytes ==
  ASSUME NEW bs, OkBuffers(bs), OkBytes(bs), NEW k \in Slot, NEW v \in Nat
  PROVE  /\ OkBytes(WithLen(bs, k, v))
         /\ \A i \in Slot : WithLen(bs, k, v)[i].bytes = bs[i].bytes
<1> DEFINE cs == WithLen(bs, k, v)
<1>1. cs = [bs EXCEPT ![k] = [bs[k] EXCEPT !.len = v]]
  BY DEF WithLen
<1>2. [bs[k] EXCEPT !.len = v] = [len |-> v, bytes |-> bs[k].bytes]
  BY DEF OkBuffers
<1>3. cs = [i \in Slot |-> IF i = k THEN [len |-> v, bytes |-> bs[k].bytes] ELSE bs[i]]
  BY <1>1, <1>2 DEF OkBuffers
<1> HIDE DEF cs
<1>4. \A i \in Slot : cs[i].bytes = bs[i].bytes
  BY <1>3
<1>5. OkBytes(cs)
  BY <1>4 DEF OkBytes
<1> QED
  BY <1>4, <1>5 DEF cs

(* Storing a byte changes that byte only. *)
LEMMA ByteStored ==
  ASSUME NEW bs, OkBuffers(bs), OkBytes(bs), NEW k \in Slot,
         NEW j \in 0 .. MaxFrame - 1, NEW v, v[1] \in Nat
  PROVE  LET cs == WithByte(bs, k, j, v)
         IN /\ OkBytes(cs)
            /\ \A i \in Slot \ {k} : cs[i] = bs[i]
            /\ 1 < MaxFrame => cs[k].bytes[1] = IF j = 1 THEN v ELSE bs[k].bytes[1]
<1> DEFINE cs == WithByte(bs, k, j, v)
           nb == [bs[k].bytes EXCEPT ![j] = v]
<1>1. cs = [bs EXCEPT ![k] = [bs[k] EXCEPT !.bytes = nb]]
  BY DEF WithByte
<1>2. nb = [i \in 0 .. MaxFrame - 1 |-> IF i = j THEN v ELSE bs[k].bytes[i]]
  BY DEF OkBytes
<1> HIDE DEF nb
<1>3. [bs[k] EXCEPT !.bytes = nb] = [len |-> bs[k].len, bytes |-> nb]
  BY DEF OkBuffers
<1>4. cs = [i \in Slot |-> IF i = k THEN [len |-> bs[k].len, bytes |-> nb] ELSE bs[i]]
  BY <1>1, <1>3 DEF OkBuffers
<1> HIDE DEF cs
<1>5. cs[k].bytes = nb /\ \A i \in Slot \ {k} : cs[i] = bs[i]
  BY <1>4
<1>6. 1 < MaxFrame => nb[1] = IF j = 1 THEN v ELSE bs[k].bytes[1]
  <2>1. 1 < MaxFrame => 1 \in 0 .. MaxFrame - 1
    BY FramesAssumption
  <2> QED
    BY <1>2, <2>1
<1>7. nb = [i \in 0 .. MaxFrame - 1 |-> nb[i]] /\ (1 < MaxFrame => nb[1][1] \in Nat)
  BY <1>2, <1>6 DEF OkBytes
<1>8. OkBytes(cs)
  BY <1>5, <1>7 DEF OkBytes
<1> QED
  BY <1>5, <1>6, <1>8 DEF cs

(* Marks are numbers. *)
LEMMA MarksAre ==
  ASSUME NEW bs, NEW x, NEW h, OkBytes(bs)
  PROVE  /\ Marks(bs, x, h) \in [Slot -> Nat]
         /\ \A s \in Slot : Marks(bs, x, h)[s] = Mark(bs[s], s, x, h)
<1>1. \A s \in Slot : Mark(bs[s], s, x, h) \in Nat
  BY DEF Mark, OkBytes
<1> QED
  BY <1>1 DEF Marks

(* A buffer that does not begin to count keeps its mark or loses it. *)
LEMMA MarkKept ==
  ASSUME NEW b, NEW c, NEW s, NEW x, NEW y, NEW h, NEW g,
         1 < MaxFrame => c.bytes[1] = b.bytes[1],
         Counts(c, s, y, g) => Counts(b, s, x, h)
  PROVE  Mark(c, s, y, g) = 0 \/ Mark(c, s, y, g) = Mark(b, s, x, h)
  BY DEF Mark

-----------------------------------------------------------------------------
(* Order: the transmit channel. *)

(* Not more frames are begun than pushed. *)
LEMMA BegunIs ==
  ASSUME Queued, Numbering
  PROVE  /\ Len(tx) \in Nat /\ Len(sent) \in Nat /\ Begun \in Nat
         /\ tx # <<>> => Len(tx) >= 1 /\ 1 \in DOMAIN tx
<1>1. Len(tx) \in Nat /\ Len(sent) \in Nat /\ Len(tx) <= Len(sent)
  BY DEF Queued, Numbering
<1>2. tx # <<>> => Len(tx) >= 1 /\ 1 \in DOMAIN tx
  BY DEF Queued
<1> QED
  BY <1>1, <1>2 DEF Begun

(* The entry g takes the place of the first one, with the same frame. *)
LEMMA QueueWritten ==
  ASSUME Queued, Numbering, tx # <<>>, NEW g \in Entry, WellFramed(g),
         g.frame = tx[1].frame, tx' = <<g>> \o Tail(tx), UNCHANGED <<txi, sent>>
  PROVE  Queued' /\ Numbering' /\ tx' # <<>> /\ tx'[1] = g /\ Len(tx') = Len(tx)
<1>1. /\ Tail(tx) \in Seq(Entry) /\ Len(Tail(tx)) = Len(tx) - 1 /\ Len(tx) \in Nat
      /\ Len(tx) >= 1 /\ DOMAIN tx = 1 .. Len(tx)
      /\ \A i \in 1 .. Len(tx) - 1 : Tail(tx)[i] = tx[i + 1]
  BY DEF Queued
<1>2. /\ tx' \in Seq(Entry) /\ tx' # <<>> /\ tx'[1] = g /\ Len(tx') = Len(tx)
      /\ DOMAIN tx' = 1 .. Len(tx)
      /\ \A i \in 2 .. Len(tx) : tx'[i] = Tail(tx)[i - 1]
  BY <1>1
<1>3. ASSUME NEW i \in 2 .. Len(tx) PROVE tx'[i] = tx[i]
  <2>1. i - 1 \in 1 .. Len(tx) - 1 /\ (i - 1) + 1 = i
    BY <1>1
  <2> QED
    BY <1>1, <1>2, <2>1
<1>4. \A i \in 1 .. Len(tx) : i = 1 \/ i \in 2 .. Len(tx)
  BY <1>1
<1>5. Queued'
  BY <1>1, <1>2, <1>3, <1>4 DEF Queued
<1>6. \A i \in DOMAIN tx' : Numbered(tx'[i], Len(sent) - Len(tx) + i)
  <2> SUFFICES ASSUME NEW i \in 1 .. Len(tx)
               PROVE  Numbered(tx'[i], Len(sent) - Len(tx) + i)
    BY <1>2
  <2>1. Numbered(tx[i], Len(sent) - Len(tx) + i)
    BY <1>1 DEF Numbering
  <2>2. tx'[i].frame = tx[i].frame
    BY <1>2, <1>3, <1>4
  <2> QED
    BY <2>1, <2>2 DEF Numbered
<1>7. Numbering'
  BY <1>2, <1>6 DEF Numbering
<1> QED
  BY <1>2, <1>5, <1>7

(* push: the new frame is numbered next, and not begun. *)
LEMMA PushOrders ==
  ASSUME Queued, Numbering, NEW tail \in Tails, Push(tail)
  PROVE  Queued' /\ Numbering' /\ Begun' = Begun /\ line' = line
<1> DEFINE k == Len(sent) + 1
           body == Body(k, tail)
           f == Framed(body)
           e == [frame |-> f, index |-> 1, pending_escape |-> FALSE]
<1>1. tx' = Append(tx, e) /\ sent' = Append(sent, body) /\ UNCHANGED <<txi, line>>
  BY DEF Push
<1>2. /\ Len(sent) \in Nat /\ k \in Nat /\ sent \in Seq(Seq(Byte)) /\ tx \in Seq(Entry)
      /\ Len(tx) \in Nat /\ Len(tx) <= Len(sent)
  BY DEF Queued, Numbering
<1>3. /\ tail \in Seq(Byte) /\ Len(tail) \in Nat /\ Len(tail) + 2 <= MaxFrame
      /\ MaxFrame \in Nat /\ \A i \in 1 .. Len(tail) : tail[i][1] < 2
  BY TailsAssumption, OwnAssumption, FramesAssumption
<1>4. Own(k) \in Byte
  <2>1. k + 1 \in Nat
    BY <1>2
  <2> QED
    BY <2>1, Zenon DEF Own, Byte
<1>5. /\ body \in Seq(Byte) /\ Len(body) = Len(tail) + 1 /\ body[1] = Own(k)
      /\ \A i \in 2 .. Len(body) : body[i][1] < 2
  <2> DEFINE w == Own(k)
  <2>1. body = <<w>> \o tail /\ w \in Byte
    BY <1>4 DEF Body
  <2> HIDE DEF w, body
  <2>2. /\ body \in Seq(Byte) /\ Len(body) = Len(tail) + 1 /\ body[1] = w
        /\ \A i \in 2 .. Len(tail) + 1 : body[i] = tail[i - 1]
    BY <1>3, <2>1
  <2>3. \A i \in 2 .. Len(tail) + 1 : i - 1 \in 1 .. Len(tail)
    BY <1>3
  <2> QED
    BY <1>3, <2>2, <2>3 DEF w
<1> HIDE DEF body, k
<1>6. /\ f \in Seq(Byte) /\ Len(f) = Len(body) + 2 /\ f[1] = HDLC_FLAG
      /\ f[Len(body) + 2] = HDLC_FLAG
      /\ \A i \in 2 .. Len(body) + 1 : f[i] = body[i - 1]
  <2> DEFINE x == HDLC_FLAG
             g == <<x>> \o body
  <2>1. x \in Byte
    BY DEF HDLC_FLAG, Byte
  <2>2. f = g \o <<x>>
    BY DEF Framed
  <2> HIDE DEF x, f
  <2>3. /\ g \in Seq(Byte) /\ Len(g) = Len(body) + 1 /\ g[1] = x /\ Len(body) \in Nat
        /\ \A i \in 2 .. Len(body) + 1 : g[i] = body[i - 1]
    BY <1>5, <2>1
  <2> HIDE DEF g
  <2>4. /\ f \in Seq(Byte) /\ Len(f) = Len(g) + 1 /\ f[Len(g) + 1] = x
        /\ \A i \in 1 .. Len(g) : f[i] = g[i]
    BY <2>1, <2>2, <2>3
  <2> QED
    BY <2>3, <2>4 DEF x
<1> HIDE DEF f
<1>7. e \in Entry /\ e.frame = f /\ e.index = 1 /\ e.pending_escape = FALSE
  BY <1>6 DEF Entry
<1> HIDE DEF e
<1>8. WellFramed(e)
  BY <1>3, <1>5, <1>6, <1>7 DEF WellFramed
<1>9. Numbered(e, k)
  <2>1. Len(body) \in Nat /\ Len(body) >= 1 /\ f[2] = Own(k)
    BY <1>3, <1>5, <1>6
  <2>2. HDLC_FLAG[1] < 2
    BY DEF HDLC_FLAG
  <2>3. ASSUME NEW j \in 1 .. Len(body) + 2, j # 2 PROVE f[j][1] < 2
    <3>1. CASE j = 1 \/ j = Len(body) + 2
      BY <1>6, <2>2, <3>1
    <3>2. CASE j \in 3 .. Len(body) + 1
      <4>1. j \in 2 .. Len(body) + 1 /\ j - 1 \in 2 .. Len(body)
        BY <2>1, <3>2
      <4> QED
        BY <1>5, <1>6, <4>1
    <3> QED
      BY <2>1, <2>3, <3>1, <3>2
  <2> QED
    BY <1>6, <1>7, <2>1, <2>3 DEF Numbered
<1>10. /\ tx' \in Seq(Entry) /\ tx' # <<>> /\ DOMAIN tx' = 1 .. Len(tx) + 1
       /\ Len(tx') = Len(tx) + 1 /\ DOMAIN tx = 1 .. Len(tx)
       /\ tx'[Len(tx) + 1] = e /\ \A i \in 1 .. Len(tx) : tx'[i] = tx[i]
  BY <1>1, <1>2, <1>7
<1>11. /\ sent' \in Seq(Seq(Byte)) /\ DOMAIN sent' = 1 .. k /\ Len(sent') = k
       /\ DOMAIN sent = 1 .. Len(sent)
       /\ sent'[k] = body /\ \A i \in 1 .. Len(sent) : sent'[i] = sent[i]
  BY <1>1, <1>2, <1>5 DEF k
<1>12. /\ \A i \in 1 .. Len(tx) + 1 : i \in 1 .. Len(tx) \/ i = Len(tx) + 1
       /\ \A i \in 1 .. k : i \in 1 .. Len(sent) \/ i = k
  BY <1>2 DEF k
<1>13. Queued'
  BY <1>1, <1>7, <1>8, <1>10, <1>11, <1>12 DEF Queued
<1>14. Numbering'
  <2>1. Len(tx') <= Len(sent')
    BY <1>2, <1>10, <1>11 DEF k
  <2>2. \A j \in DOMAIN sent' : Len(sent'[j]) \in 1 .. MaxFrame - 1 /\ sent'[j][1] = Own(j)
    <3>1. Len(body) \in 1 .. MaxFrame - 1
      BY <1>3, <1>5
    <3> QED
      BY <1>5, <1>11, <1>12, <3>1 DEF Numbering
  <2>3. \A i \in DOMAIN tx' : Numbered(tx'[i], Len(sent') - Len(tx') + i)
    <3> SUFFICES ASSUME NEW i \in 1 .. Len(tx) + 1
                 PROVE  Numbered(tx'[i], Len(sent') - Len(tx') + i)
      BY <1>10
    <3>1. Len(sent') - Len(tx') + i = Len(sent) - Len(tx) + i
      BY <1>2, <1>10, <1>11 DEF k
    <3>2. CASE i = Len(tx) + 1
      <4>1. Len(sent) - Len(tx) + i = k
        BY <1>2, <3>2 DEF k
      <4> QED
        BY <1>9, <1>10, <3>1, <3>2, <4>1
    <3>3. CASE i \in 1 .. Len(tx)
      BY <1>10, <3>1, <3>3 DEF Numbering
    <3> QED
      BY <1>12, <3>2, <3>3
  <2> QED
    BY <2>1, <2>2, <2>3 DEF Numbering
<1>15. Begun' = Begun
  <2>1. Len(sent') - Len(tx') = Len(sent) - Len(tx)
    BY <1>2, <1>10, <1>11 DEF k
  <2>2. tx # <<>> => tx'[1] = tx[1]
    BY <1>2, <1>10
  <2>3. tx = <<>> => tx'[1].index = 1
    <3>1. tx = <<>> => Len(tx) = 0
      OBVIOUS
    <3> QED
      BY <1>7, <1>10, <3>1
  <2> QED
    BY <1>10, <2>1, <2>2, <2>3 DEF Begun
<1> QED
  BY <1>1, <1>13, <1>14, <1>15

(* write_out puts b on the line and leaves g at the head of the queue. *)
LEMMA ByteOrders ==
  ASSUME Queued, Numbering, tx # <<>>, NEW b \in Byte, NEW g \in Entry, WellFramed(g),
         g.frame = tx[1].frame, tx' = <<g>> \o Tail(tx), line' = Append(line, b),
         UNCHANGED <<txi, sent>>,
         \/ b[1] < 2 /\ (g.index > 2 <=> tx[1].index > 2)
         \/ /\ tx[1].index = 2 /\ g.index = 3
            /\ b[1] = Len(sent) - Len(tx) + 2,
         NEW m \in Nat, OnLine(line, m, Begun + 1)
  PROVE  Queued' /\ Numbering' /\ OnLine(line', m, Begun' + 1)
<1>1. Queued' /\ Numbering' /\ tx' # <<>> /\ tx'[1] = g /\ Len(tx') = Len(tx)
  BY QueueWritten
<1>2. Len(tx) \in Nat /\ Len(sent) \in Nat /\ Begun \in Nat /\ Len(tx) <= Len(sent)
  BY BegunIs DEF Numbering
<1>3. CASE b[1] < 2 /\ (g.index > 2 <=> tx[1].index > 2)
  <2>1. Begun' = Begun
    BY <1>1, <1>3 DEF Begun
  <2> QED
    BY <1>1, <1>2, <1>3, <2>1, LineGrows
<1>4. CASE tx[1].index = 2 /\ g.index = 3 /\ b[1] = Len(sent) - Len(tx) + 2
  <2>1. Begun = Len(sent) - Len(tx)
    BY <1>2, <1>4 DEF Begun
  <2>2. Begun' = Len(sent) - Len(tx) + 1
    BY <1>1, <1>2, <1>4 DEF Begun
  <2>3. Begun' = Begun + 1 /\ b[1] = (Begun + 1) + 1
    BY <1>2, <1>4, <2>1, <2>2
  <2> QED
    BY <1>1, <1>2, <2>3, LineGrows
<1> QED
  BY <1>3, <1>4

(* write_out, one byte. *)
LEMMA TxByteOrders ==
  ASSUME Queued, Numbering, TxByte, NEW m \in Nat, OnLine(line, m, Begun + 1)
  PROVE  Queued' /\ Numbering' /\ OnLine(line', m, Begun' + 1)
<1> DEFINE f == tx[1]
           b == f.frame[f.index]
           n == f.index
           L == Len(f.frame)
<1>1. tx # <<>> /\ Head(tx) = f /\ f \in Entry /\ WellFramed(f)
  BY HeadFacts DEF TxByte, Queued
<1>2. /\ f.frame \in Seq(Byte) /\ f.index \in Nat /\ f.pending_escape \in BOOLEAN /\ L \in Nat
  BY <1>1 DEF Entry
<1>3. n <= L /\ UNCHANGED <<txi, sent>> /\ WriteByte
  BY <1>1 DEF TxByte
<1>4. /\ L \in 3 .. MaxFrame + 1 /\ n \in 1 .. L /\ b \in Byte
      /\ f.frame[1] = HDLC_FLAG /\ f.frame[L] = HDLC_FLAG
  BY <1>1, <1>2, <1>3 DEF WellFramed
<1>5. n # 2 => b[1] < 2
  <2>1. Numbered(f, Len(sent) - Len(tx) + 1)
    BY <1>1, BegunIs DEF Numbering
  <2> QED
    BY <1>4, <2>1 DEF Numbered
<1>6. n = 2 => b = Own(Len(sent) - Len(tx) + 1) /\ b[1] = Len(sent) - Len(tx) + 2
  <2>1. Numbered(f, Len(sent) - Len(tx) + 1) /\ Len(sent) \in Nat /\ Len(tx) \in Nat
    BY <1>1, BegunIs DEF Numbering
  <2>2. n = 2 => b = Own(Len(sent) - Len(tx) + 1)
    BY <2>1 DEF Numbered
  <2>3. Own(Len(sent) - Len(tx) + 1)[1] = Len(sent) - Len(tx) + 2
    BY <2>1 DEF Own
  <2> QED
    BY <2>2, <2>3
<1>7. n = 2 => ~needs_escape(b)
  <2>1. HDLC_FLAG[1] = 0 /\ HDLC_ESC[1] = 1
    BY DEF HDLC_FLAG, HDLC_ESC
  <2>2. n = 2 => b[1] >= 2
    <3>1. Len(sent) \in Nat /\ Len(tx) \in Nat /\ Len(tx) <= Len(sent)
      BY BegunIs DEF Numbering
    <3> QED
      BY <1>6, <3>1
  <2>3. n = 2 => b # HDLC_FLAG /\ b # HDLC_ESC
    BY <2>1, <2>2
  <2> QED
    BY <2>3 DEF needs_escape
<1>8. CASE f.pending_escape
  <2> DEFINE g == [frame |-> f.frame, index |-> f.index + 1, pending_escape |-> FALSE]
  <2>1. line' = Append(line, Xor(b)) /\ tx' = <<g>> \o Tail(tx)
    <3>1. /\ line' = Append(line, Xor(b))
          /\ tx' = <<[f EXCEPT !.index = @ + 1, !.pending_escape = FALSE]>> \o Tail(tx)
      BY <1>1, <1>3, <1>8 DEF WriteByte
    <3>2. [f EXCEPT !.index = @ + 1, !.pending_escape = FALSE] = g
      BY <1>1, EntryStores
    <3> QED
      BY <3>1, <3>2
  <2>2. needs_escape(b) /\ n \in 3 .. L - 1
    <3>1. needs_escape(b) /\ n \in 2 .. L - 1
      BY <1>1, <1>8 DEF WellFramed
    <3>2. n # 2
      BY <1>7, <3>1
    <3> HIDE DEF b
    <3> QED
      BY <1>4, <3>1, <3>2
  <2>3. Xor(b) \in Byte /\ Xor(b)[1] < 2
    <3>1. b[1] < 2 /\ Xor(b)[1] = b[1]
      BY <1>4, <1>5, <2>2, ByteValue
    <3> QED
      BY <2>2, <3>1, XorFacts
  <2>4. g \in Entry /\ g.frame = f.frame /\ g.index = n + 1 /\ g.pending_escape = FALSE
    BY <1>2 DEF Entry
  <2> HIDE DEF g
  <2>5. WellFramed(g)
    BY <1>4, <2>2, <2>4 DEF WellFramed
  <2>6. g.index > 2 <=> tx[1].index > 2
    BY <2>2, <2>4
  <2> DEFINE x == Xor(b)
  <2> HIDE DEF x
  <2> QED
    BY <1>1, <1>3, <2>1, <2>3, <2>4, <2>5, <2>6, ByteOrders DEF x
<1>9. CASE ~f.pending_escape /\ needs_escape(b) /\ ~(OnTheEdge(f) /\ b = HDLC_FLAG)
  <2> DEFINE g == [frame |-> f.frame, index |-> f.index, pending_escape |-> TRUE]
  <2>1. line' = Append(line, HDLC_ESC) /\ tx' = <<g>> \o Tail(tx)
    <3>1. /\ line' = Append(line, HDLC_ESC)
          /\ tx' = <<[f EXCEPT !.pending_escape = TRUE]>> \o Tail(tx)
      BY <1>1, <1>3, <1>9 DEF WriteByte
    <3>2. [f EXCEPT !.pending_escape = TRUE] = g
      BY <1>1, EntryStores
    <3> QED
      BY <3>1, <3>2
  <2>2. n \in 2 .. L - 1
    BY <1>4, <1>9 DEF OnTheEdge
  <2>3. HDLC_ESC \in Byte /\ HDLC_ESC[1] < 2
    <3>1. HDLC_ESC \in Byte
      BY DEF HDLC_ESC, Byte
    <3>2. HDLC_ESC[1] < 2
      BY DEF HDLC_ESC
    <3> QED
      BY <3>1, <3>2
  <2>4. g \in Entry /\ g.frame = f.frame /\ g.index = n /\ g.pending_escape = TRUE
    BY <1>2 DEF Entry
  <2> HIDE DEF g
  <2>5. WellFramed(g)
    BY <1>4, <1>9, <2>2, <2>4 DEF WellFramed
  <2>6. g.index > 2 <=> tx[1].index > 2
    BY <2>4
  <2> QED
    BY <1>1, <1>3, <2>1, <2>3, <2>4, <2>5, <2>6, ByteOrders
<1>10. CASE ~f.pending_escape /\ (~needs_escape(b) \/ (OnTheEdge(f) /\ b = HDLC_FLAG))
  <2> DEFINE g == [frame |-> f.frame, index |-> f.index + 1,
                   pending_escape |-> f.pending_escape]
  <2>1. line' = Append(line, b) /\ tx' = <<g>> \o Tail(tx)
    <3>1. /\ line' = Append(line, b)
          /\ tx' = <<[f EXCEPT !.index = @ + 1]>> \o Tail(tx)
      BY <1>1, <1>3, <1>10 DEF WriteByte
    <3>2. [f EXCEPT !.index = @ + 1] = g
      BY <1>1, EntryStores
    <3> QED
      BY <3>1, <3>2
  <2>2. /\ g \in Entry /\ g.frame = f.frame /\ g.index = n + 1
        /\ g.pending_escape = f.pending_escape
    BY <1>2 DEF Entry
  <2> HIDE DEF g
  <2>3. WellFramed(g)
    BY <1>4, <1>10, <2>2 DEF WellFramed
  <2>4. \/ b[1] < 2 /\ (g.index > 2 <=> tx[1].index > 2)
        \/ /\ tx[1].index = 2 /\ g.index = 3
           /\ b[1] = Len(sent) - Len(tx) + 2
    <3>1. CASE n = 2
      BY <1>6, <2>2, <3>1
    <3>2. CASE n # 2
      BY <1>4, <1>5, <2>2, <3>2
    <3> QED
      BY <3>1, <3>2
  <2>5. b \in Byte
    BY <1>4
  <2> HIDE DEF b
  <2> QED
    BY <1>1, <1>3, <2>1, <2>2, <2>3, <2>4, <2>5, ByteOrders
<1> QED
  BY <1>2, <1>8, <1>9, <1>10 DEF WriteByte

(* write_out ends: a frame that is out is popped. *)
LEMMA TxEndOrders ==
  ASSUME Queued, Numbering, TxEnd
  PROVE  Queued' /\ Numbering' /\ Begun' = Begun /\ line' = line
<1>1. tx # <<>> /\ Head(tx) = tx[1] /\ WellFramed(tx[1]) /\ tx[1] \in Entry
  BY HeadFacts DEF TxEnd, Queued
<1>2. txi' = FALSE /\ sent' = sent /\ line' = line
  BY DEF TxEnd
<1>3. CASE tx' = tx
  BY <1>2, <1>3 DEF Queued, Numbering, Begun
<1>4. CASE tx[1].index > Len(tx[1].frame) /\ tx' = Tail(tx)
  <2>1. /\ tx' \in Seq(Entry) /\ Len(tx') = Len(tx) - 1 /\ Len(tx) \in Nat /\ Len(tx) >= 1
        /\ DOMAIN tx = 1 .. Len(tx) /\ DOMAIN tx' = 1 .. Len(tx) - 1
        /\ Len(sent) \in Nat /\ Len(tx) <= Len(sent)
        /\ \A i \in 1 .. Len(tx) - 1 : tx'[i] = tx[i + 1]
    BY <1>1, <1>4 DEF Queued, Numbering
  <2>2. \A i \in 1 .. Len(tx) - 1 : i + 1 \in 1 .. Len(tx) /\ i + 1 > 1
    BY <2>1
  <2>3. Queued'
    BY <1>2, <2>1, <2>2 DEF Queued
  <2>4. \A i \in DOMAIN tx' : Numbered(tx'[i], Len(sent') - Len(tx') + i)
    <3> SUFFICES ASSUME NEW i \in 1 .. Len(tx) - 1
                 PROVE  Numbered(tx'[i], Len(sent') - Len(tx') + i)
      BY <2>1
    <3>1. Len(sent') - Len(tx') + i = Len(sent) - Len(tx) + (i + 1)
      BY <1>2, <2>1
    <3>2. Numbered(tx[i + 1], Len(sent) - Len(tx) + (i + 1))
      BY <2>1, <2>2 DEF Numbering
    <3> QED
      BY <2>1, <3>1, <3>2
  <2>5. Numbering'
    <3>1. Len(tx') <= Len(sent')
      BY <1>2, <2>1
    <3> QED
      BY <1>2, <2>4, <3>1 DEF Numbering
  <2>6. tx[1].index > 2
    <3>1. /\ Len(tx[1].frame) \in 3 .. MaxFrame + 1 /\ MaxFrame \in Nat
          /\ tx[1].index \in 1 .. Len(tx[1].frame) + 1
      BY <1>1, FramesAssumption DEF WellFramed
    <3> QED
      BY <1>4, <3>1
  <2>7. tx' # <<>> => tx'[1].index = 1
    <3> SUFFICES ASSUME tx' # <<>> PROVE tx'[1].index = 1
      OBVIOUS
    <3>1. 1 \in 1 .. Len(tx) - 1 /\ 2 \in DOMAIN tx /\ 2 > 1 /\ 1 + 1 = 2
      BY <2>1
    <3>2. tx'[1] = tx[2]
      BY <2>1, <3>1
    <3>3. tx[2].index = 1
      BY <3>1 DEF Queued
    <3> QED
      BY <3>2, <3>3
  <2>8. Begun = Len(sent) - Len(tx) + 1
    BY <1>1, <2>6 DEF Begun
  <2>9. Begun' = Len(sent) - (Len(tx) - 1)
    <3>1. Begun' = Len(sent') - Len(tx') + 0
      <4>1. ~(tx' # <<>> /\ tx'[1].index > 2)
        BY <2>7
      <4> QED
        BY <4>1 DEF Begun
    <3> QED
      BY <1>2, <2>1, <3>1
  <2>10. Begun' = Begun
    BY <2>1, <2>8, <2>9
  <2> QED
    BY <1>2, <2>3, <2>5, <2>10
<1> QED
  BY <1>1, <1>3, <1>4 DEF TxEnd

-----------------------------------------------------------------------------
(* Order: the receive channel. *)

(* No buffer begins to count, and no first byte changes. *)
LEMMA MarksKept ==
  ASSUME NEW bs, NEW cs, NEW x, NEW y, NEW h, NEW g, OkBytes(bs), OkBytes(cs),
         \A s \in Slot : /\ 1 < MaxFrame => cs[s].bytes[1] = bs[s].bytes[1]
                         /\ Counts(cs[s], s, y, g) => Counts(bs[s], s, x, h)
  PROVE  /\ Marks(cs, y, g) \in [Slot -> Nat]
         /\ \A s \in Slot : \/ Marks(cs, y, g)[s] = 0
                            \/ Marks(cs, y, g)[s] = Marks(bs, x, h)[s]
<1>1. /\ Marks(cs, y, g) \in [Slot -> Nat]
      /\ \A s \in Slot : Marks(cs, y, g)[s] = Mark(cs[s], s, y, g)
      /\ \A s \in Slot : Marks(bs, x, h)[s] = Mark(bs[s], s, x, h)
  BY MarksAre
<1>2. ASSUME NEW s \in Slot
      PROVE  Mark(cs[s], s, y, g) = 0 \/ Mark(cs[s], s, y, g) = Mark(bs[s], s, x, h)
  BY MarkKept
<1> QED
  BY <1>1, <1>2

(* The transmit channel is left alone. *)
LEMMA SenderSame ==
  ASSUME Queued, Numbering, UNCHANGED txVars
  PROVE  Queued' /\ Numbering' /\ Begun' = Begun
  BY DEF Queued, Numbering, Begun, txVars

(* The ring and both users are left alone. *)
LEMMA RingSame ==
  ASSUME Ring, Holding,
         UNCHANGED <<buffers, rxi, in_packet, held, write_head, read_head, free_buffers>>
  PROVE  Ring' /\ Holding'
  BY DEF Ring, Holding, BufferTypes, OkBuffers, OkBytes, RxiTypes

(* A byte is taken: if it is a frame's own, it is a later one than all so far. *)
LEMMA TakenOrders ==
  ASSUME Queued, Numbering, line # <<>>, line' = Tail(line), UNCHANGED txVars,
         NEW m \in Nat, OnLine(line, m, Begun + 1)
  PROVE  /\ Head(line) \in Byte
         /\ \E n \in Nat : /\ m <= n /\ OnLine(line', n, Begun' + 1)
                           /\ Head(line)[1] >= 2 => m < Head(line)[1] /\ Head(line)[1] <= n
<1>1. Begun \in Nat /\ Begun' = Begun
  BY BegunIs, SenderSame
<1>2. /\ Head(line) \in Byte /\ OnLine(Tail(line), m, Begun + 1)
      /\ Head(line)[1] >= 2 => /\ m < Head(line)[1]
                               /\ OnLine(Tail(line), Head(line)[1], Begun + 1)
  BY <1>1, LineShrinks
<1>3. Head(line)[1] \in Nat
  BY <1>2, ByteValue
<1> DEFINE v == Head(line)[1]
<1> HIDE DEF v
<1>4. v \in Nat /\ (v >= 2 => m < v /\ OnLine(line', v, Begun' + 1))
  BY <1>1, <1>2, <1>3 DEF v
<1>5. OnLine(line', m, Begun' + 1)
  BY <1>1, <1>2
<1>6. \E n \in Nat : /\ m <= n /\ OnLine(line', n, Begun' + 1)
                     /\ v >= 2 => m < v /\ v <= n
  <2>1. CASE v >= 2
    BY <1>4, <2>1
  <2>2. CASE ~(v >= 2)
    BY <1>4, <1>5, <2>2
  <2> QED
    BY <2>1, <2>2
<1> QED
  BY <1>2, <1>6 DEF v

(* The ring in numbers: r, u, lo as Ordered takes them. *)
LEMMA RingIs ==
  ASSUME Ring, last \in Nat
  PROVE  /\ read_head \in Slot /\ N - free_buffers \in 0 .. N /\ last + 1 \in Nat
         /\ OkBuffers(buffers) /\ OkBytes(buffers) /\ RxiTypes
         /\ write_head \in Slot /\ Dec(write_head) \in Slot
         /\ write_head = After(read_head, N - free_buffers)
         /\ free_buffers \in 0 .. N
  BY FramesAssumption, IncDec DEF Ring, BufferTypes

(* The step leaves the order of the marks as it was, up to n. *)
LEMMA SameOrder ==
  ASSUME Ring, Ring', last \in Nat,
         UNCHANGED <<write_head, read_head, free_buffers, last>>,
         NEW m \in Nat, NEW n \in Nat, m <= n,
         Ordered(Marks(buffers, rxi, held), read_head, N - free_buffers, last + 1, m),
         \A s \in Slot : /\ 1 < MaxFrame => buffers'[s].bytes[1] = buffers[s].bytes[1]
                         /\ Counts(buffers'[s], s, rxi', held') => Counts(buffers[s], s, rxi, held)
  PROVE  Ordered(Marks(buffers, rxi, held)', read_head', N - free_buffers', last' + 1, n)
<1> DEFINE w == Marks(buffers, rxi, held)
           v == Marks(buffers', rxi', held')
           u == N - free_buffers
           lo == last + 1
<1>1. read_head \in Slot /\ u \in 0 .. N /\ lo \in Nat
  BY RingIs
<1>2. OkBytes(buffers) /\ OkBytes(buffers')
  BY DEF Ring, OkBytes
<1>3. v \in [Slot -> Nat] /\ \A s \in Slot : v[s] = 0 \/ v[s] = w[s]
  BY <1>2, MarksKept
<1>4. Ordered(w, read_head, u, lo, m)
  OBVIOUS
<1> HIDE DEF w, v, u, lo
<1>5. Ordered(v, read_head, u, lo, n)
  BY <1>1, <1>3, <1>4, MarkStored
<1>6. Marks(buffers, rxi, held)' = v
  BY DEF Marks, v
<1> QED
  BY <1>5, <1>6 DEF u, lo

(* What is within m is within n. *)
LEMMA HigherBound ==
  ASSUME Ring, last \in Nat, NEW m \in Nat, NEW n \in Nat, m <= n,
         Ordered(Marks(buffers, rxi, held), read_head, N - free_buffers, last + 1, m)
  PROVE  Ordered(Marks(buffers, rxi, held), read_head, N - free_buffers, last + 1, n)
<1> DEFINE w == Marks(buffers, rxi, held)
           u == N - free_buffers
           lo == last + 1
<1>1. read_head \in Slot /\ u \in 0 .. N /\ lo \in Nat /\ OkBytes(buffers)
  BY RingIs
<1>2. w \in [Slot -> Nat]
  BY <1>1, MarksAre
<1>3. Ordered(w, read_head, u, lo, m)
  OBVIOUS
<1> HIDE DEF w, u, lo
<1>4. Ordered(w, read_head, u, lo, n)
  BY <1>1, <1>2, <1>3, MarkStored
<1> QED
  BY <1>4 DEF w, u, lo

(* The handler begins with the newest buffer, as long as it was left. *)
LEMMA DrainBeginOrders ==
  ASSUME Ring, Holding, last \in Nat, DrainBegin, NEW m \in Nat,
         Ordered(Marks(buffers, rxi, held), read_head, N - free_buffers, last + 1, m)
  PROVE  /\ Ring' /\ Holding'
         /\ Ordered(Marks(buffers, rxi, held)', read_head', N - free_buffers', last' + 1, m)
<1>1. /\ rxi' = [on |-> TRUE, in_packet |-> in_packet, denied |-> FALSE,
                 buf |-> Dec(write_head), last_esc |-> FALSE,
                 bi |-> IF in_packet THEN buffers[Dec(write_head)].len ELSE 0]
      /\ UNCHANGED <<buffers, write_head, read_head, free_buffers, in_packet, held, last>>
  BY DEF DrainBegin, ringVars
<1>2. /\ rxi'.on = TRUE /\ rxi'.in_packet = in_packet /\ rxi'.denied = FALSE
      /\ rxi'.buf = Dec(write_head)
      /\ rxi'.bi = IF in_packet THEN buffers[Dec(write_head)].len ELSE 0
  BY <1>1
<1>3. Dec(write_head) \in Slot /\ buffers[Dec(write_head)].len \in Nat
  BY RingIs DEF OkBuffers
<1>4. RxiTypes'
  <2>1. rxi'.bi \in Nat
    BY <1>2, <1>3
  <2>2. rxi' = [on |-> rxi'.on, in_packet |-> rxi'.in_packet, denied |-> rxi'.denied,
                buf |-> rxi'.buf, last_esc |-> rxi'.last_esc, bi |-> rxi'.bi]
    BY <1>1
  <2>3. in_packet \in BOOLEAN /\ held.on \in BOOLEAN
    BY DEF Ring, RxiTypes
  <2> QED
    BY <1>1, <1>2, <2>1, <2>2, <2>3 DEF RxiTypes
<1>5. Ring'
  BY <1>1, <1>2, <1>4 DEF Ring, BufferTypes, OkBuffers, OkBytes
<1>6. Holding'
  BY <1>1 DEF Holding
<1>7. ASSUME NEW s \in Slot, Counts(buffers'[s], s, rxi', held')
      PROVE  Counts(buffers[s], s, rxi, held)
  <2>1. s = rxi'.buf /\ rxi'.bi >= 2 => buffers[s].len >= 2
    BY <1>2, <1>3
  <2> QED
    BY <1>1, <1>7, <2>1 DEF Counts
<1>8. \A s \in Slot : /\ buffers'[s].bytes[1] = buffers[s].bytes[1]
                      /\ Counts(buffers'[s], s, rxi', held') => Counts(buffers[s], s, rxi, held)
  BY <1>1, <1>7
<1>9. m <= m
  OBVIOUS
<1> QED
  BY <1>1, <1>5, <1>6, <1>8, <1>9, SameOrder

(* A step that leaves the ring alone, a byte thrown away for one. *)
LEMMA RingRests ==
  ASSUME Ring, Holding, last \in Nat, NEW m \in Nat, NEW n \in Nat, m <= n,
         UNCHANGED <<buffers, rxi, in_packet, held, write_head, read_head, free_buffers, last>>,
         Ordered(Marks(buffers, rxi, held), read_head, N - free_buffers, last + 1, m)
  PROVE  /\ Ring' /\ Holding'
         /\ Ordered(Marks(buffers, rxi, held)', read_head', N - free_buffers', last' + 1, n)
<1>1. Ring' /\ Holding'
  BY RingSame
<1>2. \A s \in Slot : /\ buffers'[s].bytes[1] = buffers[s].bytes[1]
                      /\ Counts(buffers'[s], s, rxi', held') => Counts(buffers[s], s, rxi, held)
  OBVIOUS
<1> QED
  BY <1>1, <1>2, SameOrder

(* The length is stored when a frame ends or the handler does. *)
LEMMA LengthStored ==
  ASSUME Ring, rxi.on, rxi.in_packet
  PROVE  LET cs == WithLen(buffers, rxi.buf, rxi.bi)
         IN /\ OkBuffers(cs) /\ OkBytes(cs)
            /\ \A s \in Slot : /\ cs[s].bytes = buffers[s].bytes
                               /\ cs[s].len >= 2 => Counts(buffers[s], s, rxi, held)
<1> DEFINE cs == WithLen(buffers, rxi.buf, rxi.bi)
<1>1. /\ rxi.buf \in Slot /\ rxi.bi \in Nat /\ OkBuffers(buffers) /\ OkBytes(buffers)
  BY IncDec DEF Ring, RxiTypes, BufferTypes
<1>2. /\ OkBuffers(cs) /\ cs[rxi.buf].len = rxi.bi
      /\ \A s \in Slot \ {rxi.buf} : cs[s].len = buffers[s].len
  BY <1>1, SetLength
<1>3. OkBytes(cs) /\ \A s \in Slot : cs[s].bytes = buffers[s].bytes
  BY <1>1, LengthKeepsBytes
<1> HIDE DEF cs
<1>4. ASSUME NEW s \in Slot, cs[s].len >= 2 PROVE Counts(buffers[s], s, rxi, held)
  <2>1. CASE s = rxi.buf
    BY <1>2, <1>4, <2>1 DEF Counts
  <2>2. CASE s # rxi.buf
    BY <1>2, <1>4, <2>2 DEF Counts
  <2> QED
    BY <2>1, <2>2
<1> QED
  BY <1>2, <1>3, <1>4 DEF cs

(* The end of the handler. *)
LEMMA DrainEndOrders ==
  ASSUME Ring, Holding, last \in Nat, DrainEnd, NEW m \in Nat,
         Ordered(Marks(buffers, rxi, held), read_head, N - free_buffers, last + 1, m)
  PROVE  /\ Ring' /\ Holding'
         /\ Ordered(Marks(buffers, rxi, held)', read_head', N - free_buffers', last' + 1, m)
<1>1. /\ rxi.on /\ rxi' = Idle /\ in_packet' = rxi.in_packet
      /\ buffers' = IF rxi.in_packet THEN WithLen(buffers, rxi.buf, rxi.bi) ELSE buffers
      /\ UNCHANGED <<write_head, read_head, free_buffers, held, last>>
  BY DEF DrainEnd, WithLen
<1>2. /\ OkBuffers(buffers') /\ OkBytes(buffers')
      /\ \A s \in Slot : /\ buffers'[s].bytes = buffers[s].bytes
                         /\ buffers'[s].len >= 2 => Counts(buffers[s], s, rxi, held)
  <2>1. CASE rxi.in_packet
    BY <1>1, <2>1, LengthStored
  <2>2. CASE ~rxi.in_packet
    BY <1>1, <2>2, RingIs DEF Counts
  <2> QED
    BY <2>1, <2>2
<1>3. rxi'.on = FALSE /\ rxi'.in_packet = FALSE /\ rxi'.denied = FALSE /\ rxi'.bi = 0
  BY <1>1 DEF Idle
<1>4. RxiTypes'
  <2>1. rxi.in_packet \in BOOLEAN /\ held.on \in BOOLEAN
    BY DEF Ring, RxiTypes
  <2> QED
    BY <1>1, <1>3, <2>1 DEF RxiTypes, Idle
<1>5. Ring'
  <2>1. BufferTypes' /\ OkBytes(buffers)'
    BY <1>2 DEF BufferTypes, OkBuffers, OkBytes
  <2> QED
    BY <1>1, <1>3, <1>4, <2>1 DEF Ring
<1>6. Holding'
  BY <1>1 DEF Holding
<1>7. \A s \in Slot : /\ buffers'[s].bytes[1] = buffers[s].bytes[1]
                      /\ Counts(buffers'[s], s, rxi', held') => Counts(buffers[s], s, rxi, held)
  BY <1>1, <1>2, <1>3 DEF Counts
<1>8. m <= m
  OBVIOUS
<1> QED
  BY <1>1, <1>5, <1>6, <1>7, <1>8, SameOrder

(* read_head_buf: the main loop is given the length as it is. *)
LEMMA TakeOrders ==
  ASSUME Ring, Holding, last \in Nat, Take, NEW m \in Nat,
         Ordered(Marks(buffers, rxi, held), read_head, N - free_buffers, last + 1, m)
  PROVE  /\ Ring' /\ Holding'
         /\ Ordered(Marks(buffers, rxi, held)', read_head', N - free_buffers', last' + 1, m)
<1>1. /\ held' = [on |-> TRUE, idx |-> read_head, len |-> buffers[read_head].len]
      /\ free_buffers # N
      /\ UNCHANGED <<buffers, rxi, in_packet, write_head, read_head, free_buffers, last>>
  BY DEF Take, ringVars
<1>2. held'.on = TRUE /\ held'.idx = read_head /\ held'.len = buffers[read_head].len
  BY <1>1
<1>3. read_head \in Slot /\ buffers[read_head].len \in Nat /\ free_buffers \in 0 .. N
  BY RingIs DEF OkBuffers
<1>4. Ring'
  BY <1>1, <1>2 DEF Ring, BufferTypes, OkBuffers, OkBytes, RxiTypes
<1>5. Holding'
  BY <1>1, <1>2, <1>3, FramesAssumption DEF Holding
<1>6. \A s \in Slot : /\ buffers'[s].bytes[1] = buffers[s].bytes[1]
                      /\ Counts(buffers'[s], s, rxi', held') => Counts(buffers[s], s, rxi, held)
  BY <1>1, <1>2 DEF Counts
<1>7. m <= m
  OBVIOUS
<1> QED
  BY <1>1, <1>4, <1>5, <1>6, <1>7, SameOrder

(* A flag: the frame that ends keeps its mark, the next buffer has none. *)
LEMMA DrainFlagOrders ==
  ASSUME Ring, Holding, last \in Nat, DrainFlag, NEW m \in Nat,
         Ordered(Marks(buffers, rxi, held), read_head, N - free_buffers, last + 1, m)
  PROVE  /\ Ring' /\ Holding'
         /\ Ordered(Marks(buffers, rxi, held)', read_head', N - free_buffers', last' + 1, m)
<1> DEFINE closed == IF Finishes THEN WithLen(buffers, rxi.buf, rxi.bi) ELSE buffers
<1>1. rxi.on /\ UNCHANGED <<read_head, in_packet, held, last>>
  BY DEF DrainFlag, Taken
<1>2. /\ OkBuffers(closed) /\ OkBytes(closed)
      /\ \A s \in Slot : /\ closed[s].bytes = buffers[s].bytes
                         /\ closed[s].len >= 2 => Counts(buffers[s], s, rxi, held)
  <2>1. CASE Finishes
    BY <1>1, <2>1, LengthStored DEF Finishes
  <2>2. CASE ~Finishes
    BY <2>2, RingIs DEF Counts
  <2> QED
    BY <2>1, <2>2
<1>3. /\ rxi.on \in BOOLEAN /\ rxi.in_packet \in BOOLEAN /\ rxi.denied \in BOOLEAN
      /\ in_packet \in BOOLEAN /\ held.on \in BOOLEAN /\ rxi.bi \in Nat
      /\ rxi.in_packet => rxi.buf = Dec(write_head)
      /\ ~rxi.in_packet => rxi.bi = 0
  BY <1>1 DEF Ring, RxiTypes
<1>4. m <= m
  OBVIOUS
<1>5. CASE rxi.bi = 1
  <2>1. UNCHANGED <<buffers, rxi, in_packet, held, write_head, read_head, free_buffers, last>>
    BY <1>1, <1>5 DEF DrainFlag
  <2> QED
    BY <1>4, <2>1, RingRests
<1>6. CASE rxi.bi # 1 /\ free_buffers = 0
  <2>1. /\ rxi' = [rxi EXCEPT !.denied = TRUE, !.bi = IF Finishes THEN 0 ELSE rxi.bi]
        /\ buffers' = closed
        /\ UNCHANGED <<write_head, free_buffers>>
    BY <1>6, FramesAssumption DEF DrainFlag, WithLen
  <2>2. rxi' = [on |-> rxi.on, in_packet |-> rxi.in_packet, denied |-> TRUE,
                buf |-> rxi.buf, last_esc |-> rxi.last_esc,
                bi |-> IF Finishes THEN 0 ELSE rxi.bi]
    <3>1. RxiTypes
      BY DEF Ring
    <3> QED
      BY <2>1, <3>1, LocalStores, Zenon
  <2>3. /\ rxi'.on = rxi.on /\ rxi'.in_packet = rxi.in_packet /\ rxi'.denied = TRUE
        /\ rxi'.buf = rxi.buf /\ rxi'.last_esc = rxi.last_esc
        /\ rxi'.bi = IF Finishes THEN 0 ELSE rxi.bi
    BY <2>2
  <2>4. rxi'.bi \in Nat /\ (rxi'.bi = 0 \/ rxi'.bi = rxi.bi)
    BY <1>3, <2>3
  <2>5. RxiTypes'
    BY <1>1, <1>3, <2>2, <2>3, <2>4 DEF RxiTypes
  <2>6. BufferTypes' /\ OkBytes(buffers)'
    BY <1>2, <2>1 DEF BufferTypes
  <2>7. Ring'
    BY <1>1, <1>3, <2>1, <2>3, <2>4, <2>5, <2>6 DEF Ring
  <2>8. Holding'
    BY <1>1, <2>1 DEF Holding
  <2>9. ASSUME NEW s \in Slot
        PROVE  /\ buffers'[s].bytes[1] = buffers[s].bytes[1]
               /\ Counts(buffers'[s], s, rxi', held') => Counts(buffers[s], s, rxi, held)
    <3>1. /\ buffers'[s].bytes = buffers[s].bytes
          /\ buffers'[s].len >= 2 => Counts(buffers[s], s, rxi, held)
      BY <1>2, <2>1
    <3>2. s = rxi'.buf /\ rxi'.bi >= 2 => s = rxi.buf /\ rxi.bi >= 2
      BY <2>3, <2>4
    <3> QED
      BY <1>1, <3>1, <3>2 DEF Counts
  <2> QED
    BY <1>1, <1>4, <2>1, <2>7, <2>8, <2>9, SameOrder
<1>7. CASE rxi.bi # 1 /\ free_buffers > 0
  <2>1. /\ write_head' = Inc(write_head) /\ free_buffers' = free_buffers - 1
        /\ rxi' = [rxi EXCEPT !.buf = write_head, !.in_packet = TRUE,
                              !.last_esc = FALSE, !.bi = 1]
        /\ buffers' = WithByte(WithLen(closed, write_head, 1), write_head, 0, HDLC_FLAG)
    <3>1. free_buffers # 0 /\ rxi.bi # 1
      BY <1>7
    <3> QED
      BY <3>1, Zenon DEF DrainFlag, WithLen, WithByte
  <2>2. rxi' = [on |-> rxi.on, in_packet |-> TRUE, denied |-> rxi.denied,
                buf |-> write_head, last_esc |-> FALSE, bi |-> 1]
    <3>1. RxiTypes
      BY DEF Ring
    <3>2. [rxi EXCEPT !.buf = write_head, !.in_packet = TRUE, !.last_esc = FALSE, !.bi = 1] =
            [on |-> rxi.on, in_packet |-> TRUE, denied |-> rxi.denied,
             buf |-> write_head, last_esc |-> FALSE, bi |-> 1]
      BY <3>1, OpenStores, Zenon
    <3> QED
      BY <2>1, <3>2, Zenon
  <2>3. /\ rxi'.on = rxi.on /\ rxi'.in_packet = TRUE /\ rxi'.denied = rxi.denied
        /\ rxi'.buf = write_head /\ rxi'.last_esc = FALSE /\ rxi'.bi = 1
    BY <2>2
  <2> DEFINE u == N - free_buffers
  <2>4. /\ write_head \in Slot /\ read_head \in Slot /\ free_buffers \in 1 .. N
        /\ write_head = After(read_head, u) /\ u \in 0 .. N - 1
        /\ N - (free_buffers - 1) = u + 1 /\ free_buffers - 1 \in 0 .. N
        /\ Inc(write_head) \in Slot /\ Dec(Inc(write_head)) = write_head
    BY <1>7, RingIs, IncDec, FramesAssumption
  <2> HIDE DEF u, closed
  <2>5. /\ OkBuffers(buffers') /\ OkBytes(buffers') /\ buffers'[write_head].len = 1
        /\ \A s \in Slot \ {write_head} : buffers'[s].len = closed[s].len
        /\ \A s \in Slot : 1 < MaxFrame => buffers'[s].bytes[1] = closed[s].bytes[1]
    <3> DEFINE cs == WithLen(closed, write_head, 1)
    <3>1. /\ OkBuffers(cs) /\ cs[write_head].len = 1
          /\ \A s \in Slot \ {write_head} : cs[s].len = closed[s].len
      <4>1. OkBuffers(closed) /\ write_head \in Slot /\ 1 \in Nat
        BY <1>2, <2>4
      <4> QED
        BY <4>1, SetLength
    <3>2. OkBytes(cs) /\ \A s \in Slot : cs[s].bytes = closed[s].bytes
      BY <1>2, <2>4, LengthKeepsBytes
    <3>3. buffers' = WithByte(cs, write_head, 0, HDLC_FLAG)
      BY <2>1
    <3> HIDE DEF cs
    <3>4. HDLC_FLAG[1] \in Nat /\ 0 \in 0 .. MaxFrame - 1
      BY FramesAssumption DEF HDLC_FLAG
    <3>5. OkBuffers(buffers') /\ \A s \in Slot : buffers'[s].len = cs[s].len
      BY <2>4, <3>1, <3>3, SetByte
    <3>6. /\ OkBytes(buffers') /\ \A s \in Slot \ {write_head} : buffers'[s] = cs[s]
          /\ 1 < MaxFrame => buffers'[write_head].bytes[1] = cs[write_head].bytes[1]
      BY <2>4, <3>1, <3>2, <3>3, <3>4, ByteStored
    <3> QED
      BY <2>4, <3>1, <3>2, <3>5, <3>6
  <2>6. Ring'
    <3>1. BufferTypes' /\ OkBytes(buffers)'
      BY <2>5 DEF BufferTypes
    <3>2. RxiTypes'
      BY <1>1, <1>3, <2>2, <2>3 DEF RxiTypes
    <3>3. write_head' = After(read_head', N - free_buffers')
      <4>1. Inc(write_head) = After(read_head, u + 1)
        BY <2>4, AfterGrows
      <4> QED
        BY <1>1, <2>1, <2>4, <4>1
    <3>4. rxi'.buf = Dec(write_head')
      BY <2>1, <2>3, <2>4
    <3> QED
      BY <1>1, <2>1, <2>3, <2>4, <3>1, <3>2, <3>3, <3>4 DEF Ring
  <2>7. held.len >= 2 => held.on /\ held.idx = read_head /\ free_buffers < N
    BY DEF Holding
  <2>8. Holding'
    BY <1>1, <2>1, <2>4, FramesAssumption DEF Holding
  <2>9. held.len >= 2 => held.idx # write_head
    <3> SUFFICES ASSUME held.len >= 2 PROVE held.idx # write_head
      OBVIOUS
    <3>1. u \in 1 .. N - 1 /\ 0 \in 0 .. N - 1 /\ u \in 0 .. N - 1 /\ u # 0
      BY <2>4, <2>7, FramesAssumption DEF u
    <3>2. After(read_head, u) # After(read_head, 0)
      BY <2>4, <3>1, AfterTells
    <3> QED
      BY <2>4, <2>7, <3>2, AfterOne
  <2> DEFINE w == Marks(buffers, rxi, held)
             v == Marks(buffers', rxi', held')
             lo == last + 1
  <2>10. ASSUME NEW s \in Slot
         PROVE  /\ 1 < MaxFrame => buffers'[s].bytes[1] = buffers[s].bytes[1]
                /\ Counts(buffers'[s], s, rxi', held') => Counts(buffers[s], s, rxi, held)
                /\ s = write_head => ~Counts(buffers'[s], s, rxi', held')
    <3>1. 1 < MaxFrame => buffers'[s].bytes[1] = buffers[s].bytes[1]
      BY <1>2, <2>5
    <3>2. ~(rxi'.bi >= 2) /\ held' = held
      BY <1>1, <2>3
    <3>3. s = write_head => ~Counts(buffers'[s], s, rxi', held')
      BY <2>5, <2>9, <3>2 DEF Counts
    <3>4. s # write_head => (buffers'[s].len >= 2 => Counts(buffers[s], s, rxi, held))
      BY <1>2, <2>5
    <3>5. Counts(buffers'[s], s, rxi', held') => Counts(buffers[s], s, rxi, held)
      BY <3>2, <3>3, <3>4 DEF Counts
    <3> QED
      BY <3>1, <3>3, <3>5
  <2>11. OkBytes(buffers) /\ OkBytes(buffers') /\ lo \in Nat
    BY <2>5, RingIs
  <2>12. v \in [Slot -> Nat] /\ \A s \in Slot : v[s] = 0 \/ v[s] = w[s]
    BY <2>10, <2>11, MarksKept
  <2>13. v[write_head] = 0
    <3>1. v[write_head] = Mark(buffers'[write_head], write_head, rxi', held')
      BY <2>4, <2>11, MarksAre
    <3>2. ~Counts(buffers'[write_head], write_head, rxi', held')
      BY <2>4, <2>10
    <3> QED
      BY <3>1, <3>2 DEF Mark
  <2>14. Ordered(w, read_head, u, lo, m)
    BY DEF u
  <2> HIDE DEF w, v, lo
  <2>15. Ordered(v, read_head, u + 1, lo, m)
    BY <2>4, <2>11, <2>12, <2>13, <2>14, MarkOpened
  <2>16. Marks(buffers, rxi, held)' = v
    BY DEF Marks, v
  <2>17. N - free_buffers' = u + 1 /\ last' + 1 = lo /\ read_head' = read_head
    BY <1>1, <2>1, <2>4 DEF lo
  <2> QED
    BY <2>6, <2>8, <2>15, <2>16, <2>17
<1>8. free_buffers \in 0 .. N
  BY RingIs
<1> QED
  BY <1>5, <1>6, <1>7, <1>8, FramesAssumption

(* Any other byte: only the newest buffer gets one, and a later frame's. *)
LEMMA DrainDataOrders ==
  ASSUME Ring, Holding, last \in Nat, DrainData, NEW m \in Nat, NEW n \in Nat, m <= n,
         Head(line) \in Byte,
         Head(line)[1] >= 2 => m < Head(line)[1] /\ Head(line)[1] <= n,
         Ordered(Marks(buffers, rxi, held), read_head, N - free_buffers, last + 1, m)
  PROVE  /\ Ring' /\ Holding'
         /\ Ordered(Marks(buffers, rxi, held)', read_head', N - free_buffers', last' + 1, n)
<1>1. rxi.on /\ UNCHANGED <<write_head, read_head, free_buffers, in_packet, held, last>>
  BY DEF DrainData, Taken
<1>2. RxiTypes /\ rxi.bi \in Nat /\ (rxi.in_packet => rxi.buf = Dec(write_head))
  BY <1>1 DEF Ring, RxiTypes
<1>3. Holding'
  BY <1>1 DEF Holding
<1>4. CASE UNCHANGED <<rxi, buffers>>
  BY <1>1, <1>4, RingRests
<1>5. CASE rxi.in_packet /\ buffers' = buffers /\ rxi' = [rxi EXCEPT !.last_esc = TRUE]
  <2>1. rxi' = [on |-> rxi.on, in_packet |-> rxi.in_packet, denied |-> rxi.denied,
                buf |-> rxi.buf, last_esc |-> TRUE, bi |-> rxi.bi]
    BY <1>2, <1>5, LocalStores, Zenon
  <2>2. /\ rxi'.on = rxi.on /\ rxi'.in_packet = rxi.in_packet /\ rxi'.denied = rxi.denied
        /\ rxi'.buf = rxi.buf /\ rxi'.bi = rxi.bi
    BY <2>1
  <2>3. RxiTypes'
    BY <1>1, <1>2, <2>1, <2>2 DEF RxiTypes
  <2>4. Ring'
    BY <1>1, <1>5, <2>2, <2>3 DEF Ring, BufferTypes, OkBuffers, OkBytes
  <2>5. \A s \in Slot : /\ buffers'[s].bytes[1] = buffers[s].bytes[1]
                        /\ Counts(buffers'[s], s, rxi', held') => Counts(buffers[s], s, rxi, held)
    BY <1>1, <1>5, <2>2 DEF Counts
  <2> QED
    BY <1>1, <1>3, <2>4, <2>5, SameOrder
<1>6. CASE /\ rxi.in_packet
           /\ rxi' = [rxi EXCEPT !.last_esc = FALSE, !.bi = @ + 1]
           /\ IF rxi.bi < MaxFrame
                THEN buffers' = [buffers EXCEPT ![rxi.buf].bytes[rxi.bi] =
                                            IF rxi.last_esc THEN Xor(Head(line)) ELSE Head(line)]
                ELSE UNCHANGED buffers
  <2> DEFINE v == IF rxi.last_esc THEN Xor(Head(line)) ELSE Head(line)
  <2>1. rxi' = [on |-> rxi.on, in_packet |-> rxi.in_packet, denied |-> rxi.denied,
                buf |-> rxi.buf, last_esc |-> FALSE, bi |-> rxi.bi + 1]
    <3>1. rxi' = [rxi EXCEPT !.last_esc = FALSE, !.bi = rxi.bi + 1]
      BY <1>6
    <3> QED
      BY <1>2, <3>1, LocalStores, Zenon
  <2>2. /\ rxi'.on = rxi.on /\ rxi'.in_packet = rxi.in_packet /\ rxi'.denied = rxi.denied
        /\ rxi'.buf = rxi.buf /\ rxi'.bi = rxi.bi + 1
    BY <2>1
  <2>3. RxiTypes'
    BY <1>1, <1>2, <2>1, <2>2 DEF RxiTypes
  <2>4. rxi.buf \in Slot /\ rxi.buf = Dec(write_head) /\ OkBuffers(buffers) /\ OkBytes(buffers)
    BY <1>2, <1>6, RingIs
  <2>5. v[1] = Head(line)[1] /\ v[1] \in Nat
    BY ByteValue
  <2>6. v[1] >= 2 => m < v[1] /\ v[1] <= n
    BY <2>5
  <2>7. rxi.bi < MaxFrame => buffers' = WithByte(buffers, rxi.buf, rxi.bi, v)
    BY <1>6 DEF WithByte
  <2>8. ~(rxi.bi < MaxFrame) => buffers' = buffers
    BY <1>6
  <2> HIDE DEF v
  <2>9. /\ OkBuffers(buffers') /\ OkBytes(buffers')
        /\ \A s \in Slot : buffers'[s].len = buffers[s].len
        /\ \A s \in Slot \ {rxi.buf} : buffers'[s] = buffers[s]
        /\ 1 < MaxFrame => buffers'[rxi.buf].bytes[1] =
                              IF rxi.bi = 1 THEN v ELSE buffers[rxi.buf].bytes[1]
    <3>1. CASE rxi.bi < MaxFrame
      <4>1. rxi.bi \in 0 .. MaxFrame - 1
        BY <1>2, <3>1, FramesAssumption
      <4>2. OkBuffers(buffers') /\ \A s \in Slot : buffers'[s].len = buffers[s].len
        BY <2>4, <2>7, <3>1, SetByte
      <4>3. /\ OkBytes(buffers')
            /\ \A s \in Slot \ {rxi.buf} : buffers'[s] = buffers[s]
            /\ 1 < MaxFrame => buffers'[rxi.buf].bytes[1] =
                                  IF rxi.bi = 1 THEN v ELSE buffers[rxi.buf].bytes[1]
        BY <2>4, <2>5, <2>7, <3>1, <4>1, ByteStored
      <4> QED
        BY <4>2, <4>3
    <3>2. CASE ~(rxi.bi < MaxFrame)
      <4>1. 1 < MaxFrame => rxi.bi # 1
        BY <1>2, <3>2, FramesAssumption
      <4> QED
        BY <2>4, <2>8, <3>2, <4>1
    <3> QED
      BY <3>1, <3>2
  <2>10. Ring'
    <3>1. BufferTypes' /\ OkBytes(buffers)'
      BY <2>9 DEF BufferTypes
    <3> QED
      BY <1>1, <1>6, <2>2, <2>3, <3>1 DEF Ring
  <2> DEFINE w == Marks(buffers, rxi, held)
             z == Marks(buffers', rxi', held')
             u == N - free_buffers
             lo == last + 1
  <2>11. /\ z \in [Slot -> Nat]
         /\ \A s \in Slot : z[s] = Mark(buffers'[s], s, rxi', held')
         /\ \A s \in Slot : w[s] = Mark(buffers[s], s, rxi, held)
    BY <2>4, <2>9, MarksAre
  <2>12. ASSUME NEW s \in Slot
         PROVE  z[s] = 0 \/ z[s] = w[s] \/ (s = Dec(write_head) /\ m < z[s] /\ z[s] <= n)
    <3>1. CASE s # rxi.buf
      <4>1. buffers'[s] = buffers[s]
        BY <2>9, <3>1
      <4>2. Counts(buffers'[s], s, rxi', held') => Counts(buffers[s], s, rxi, held)
        BY <1>1, <2>2, <3>1, <4>1 DEF Counts
      <4> QED
        BY <2>11, <4>1, <4>2, MarkKept
    <3>2. CASE s = rxi.buf /\ rxi.bi # 1
      <4>1. 1 < MaxFrame => buffers'[s].bytes[1] = buffers[s].bytes[1]
        BY <2>9, <3>2
      <4>2. rxi'.bi >= 2 => rxi.bi >= 2
        BY <1>2, <2>2, <3>2
      <4>3. Counts(buffers'[s], s, rxi', held') => Counts(buffers[s], s, rxi, held)
        BY <1>1, <2>2, <2>9, <4>2 DEF Counts
      <4> QED
        BY <2>11, <4>1, <4>3, MarkKept
    <3>3. CASE s = rxi.buf /\ rxi.bi = 1
      <4>1. 1 < MaxFrame => buffers'[s].bytes[1] = v
        BY <2>9, <3>3
      <4>2. z[s] = 0 \/ (z[s] = v[1] /\ v[1] >= 2)
        BY <2>11, <4>1 DEF Mark
      <4> QED
        BY <2>4, <2>6, <3>3, <4>2
    <3> QED
      BY <3>1, <3>2, <3>3
  <2>13. Ordered(w, read_head, u, lo, m) /\ z = Marks(buffers, rxi, held)'
    BY DEF Marks
  <2>14. /\ read_head \in Slot /\ u \in 0 .. N /\ lo \in Nat
         /\ write_head = After(read_head, u)
    BY RingIs
  <2> HIDE DEF w, z, u, lo
  <2>15. \A s \in Slot : \/ z[s] = 0 \/ z[s] = w[s]
                         \/ s = Dec(After(read_head, u)) /\ m < z[s] /\ z[s] <= n
    BY <2>12, <2>14
  <2>16. Ordered(z, read_head, u, lo, n)
    <3>1. z \in [Slot -> Nat] /\ read_head \in Slot /\ u \in 0 .. N /\ lo \in Nat
      BY <2>11, <2>14
    <3>2. Ordered(w, read_head, u, lo, m)
      BY <2>13
    <3> QED
      BY <2>15, <3>1, <3>2, MarkStored
  <2>17. N - free_buffers' = u /\ last' + 1 = lo /\ read_head' = read_head
    BY <1>1 DEF u, lo
  <2> QED
    BY <1>3, <2>10, <2>13, <2>16, <2>17
<1> QED
  BY <1>4, <1>5, <1>6 DEF DrainData

(* A frame passes the FCS: its number is the mark of the oldest buffer. *)
LEMMA ValidIsMarked ==
  ASSUME Ring, Holding, Numbering, Queued, held.on,
         NEW k \in Valid(Content(held.idx, held.len))
  PROVE  /\ k \in Nat /\ Marks(buffers, rxi, held)[read_head] = k + 1 /\ k + 1 # 0
<1> DEFINE c == Content(held.idx, held.len)
           b == buffers[held.idx]
<1>1. /\ k \in DOMAIN sent /\ k \in Nat /\ k >= 1 /\ c = <<HDLC_FLAG>> \o sent[k]
      /\ sent[k] \in Seq(Byte)
  BY DEF Valid, Queued
<1>2. Len(sent[k]) \in 1 .. MaxFrame - 1 /\ sent[k][1] = Own(k) /\ Own(k)[1] = k + 1
  BY <1>1 DEF Numbering, Own
<1>3. held.idx = read_head /\ held.len \in Nat /\ read_head \in Slot
  BY DEF Holding, Ring
<1>4. DOMAIN c = 1 .. held.len
  BY DEF Content
<1>5. /\ DOMAIN (<<HDLC_FLAG>> \o sent[k]) = 1 .. Len(sent[k]) + 1
      /\ (<<HDLC_FLAG>> \o sent[k])[2] = sent[k][1]
  <2> DEFINE x == HDLC_FLAG
             t == sent[k]
  <2>1. x \in Byte /\ t \in Seq(Byte) /\ Len(t) >= 1 /\ Len(t) \in Nat
    <3>1. x \in Byte
      BY DEF HDLC_FLAG, Byte
    <3> QED
      BY <1>1, <1>2, <3>1
  <2> HIDE DEF x, t
  <2>2. DOMAIN (<<x>> \o t) = 1 .. Len(t) + 1 /\ (<<x>> \o t)[2] = t[1]
    BY <2>1
  <2> QED
    BY <2>2 DEF x, t
<1>6. 2 \in DOMAIN c /\ c[2] = Own(k)
  BY <1>1, <1>2, <1>5
<1>7. held.len >= 2 /\ c[2] = b.bytes[1]
  <2>1. 2 \in 1 .. held.len
    BY <1>4, <1>6
  <2>2. c[2] = buffers[held.idx].bytes[2 - 1]
    BY <2>1 DEF Content
  <2> QED
    BY <1>3, <2>1, <2>2
<1> HIDE DEF c
<1>8. 1 < MaxFrame /\ b.bytes[1][1] = k + 1 /\ k + 1 >= 2
  BY <1>1, <1>2, <1>6, <1>7, FramesAssumption
<1>9. Counts(b, read_head, rxi, held)
  BY <1>3, <1>7 DEF Counts
<1>10. Mark(b, read_head, rxi, held) = k + 1
  BY <1>8, <1>9 DEF Mark
<1>11. Marks(buffers, rxi, held)[read_head] = Mark(b, read_head, rxi, held)
  BY <1>3, MarksAre DEF Ring
<1> QED
  BY <1>1, <1>10, <1>11

(* What follows a number is one. *)
LEMMA OneUp == \A k \in Nat : k + 1 \in Nat
  OBVIOUS

(* discard: the frame that is taken is a later one than the last. *)
LEMMA DiscardOrders ==
  ASSUME Ring, Holding, Numbering, Queued, last \in Nat, Discard, NEW m \in Nat,
         Ordered(Marks(buffers, rxi, held), read_head, N - free_buffers, last + 1, m)
  PROVE  /\ Ring' /\ Holding' /\ last' \in Nat
         /\ Ordered(Marks(buffers, rxi, held)', read_head', N - free_buffers', last' + 1, m)
         /\ Valid(Content(held.idx, held.len)) # {} => last' > last
<1> DEFINE good == Valid(Content(held.idx, held.len))
           w == Marks(buffers, rxi, held)
           z == Marks(buffers', rxi', held')
           u == N - free_buffers
           lo == last + 1
<1>1. /\ held.on /\ held' = None /\ read_head' = Inc(read_head)
      /\ free_buffers' = free_buffers + 1
      /\ last' = IF good = {} THEN last ELSE CHOOSE k \in good : TRUE
      /\ UNCHANGED <<buffers, rxi, in_packet, write_head>>
  BY DEF Discard
<1>2. held'.on = FALSE /\ held'.idx = 0 /\ held'.len = 0
  BY <1>1 DEF None
<1>3. /\ read_head \in Slot /\ Inc(read_head) \in Slot /\ u \in 1 .. N
      /\ free_buffers + 1 \in 0 .. N /\ N - (free_buffers + 1) = u - 1
      /\ write_head = After(read_head, u) /\ lo \in Nat
  BY <1>1, RingIs, IncDec, FramesAssumption DEF Holding
<1>4. good # {} => last' \in good
  BY <1>1
<1>5. /\ last' \in Nat
      /\ \/ last' = last /\ good = {}
         \/ last' + 1 = w[read_head] /\ w[read_head] # 0
  <2>1. CASE good = {}
    BY <1>1, <2>1
  <2>2. CASE good # {}
    <3>1. last' \in good
      BY <1>4, <2>2
    <3> HIDE DEF w
    <3>2. last' \in Nat /\ w[read_head] = last' + 1 /\ last' + 1 # 0
      BY <1>1, <3>1, ValidIsMarked DEF w
    <3> QED
      BY <3>2
  <2> QED
    BY <2>1, <2>2
<1>6. Ordered(w, read_head, u, lo, m)
  OBVIOUS
<1>7. w[read_head] # 0 => lo < w[read_head]
  <2>1. After(read_head, 0) = read_head /\ 0 \in 0 .. u - 1
    BY <1>3, AfterOne
  <2> HIDE DEF w, u, lo
  <2> QED
    BY <1>6, <2>1 DEF Ordered
<1>8. good # {} => last' > last
  <2> HIDE DEF w, good
  <2> QED
    BY <1>5, <1>7
<1>9. OkBytes(buffers) /\ OkBytes(buffers')
  BY <1>1, RingIs
<1>10. z \in [Slot -> Nat] /\ \A s \in Slot : z[s] = 0 \/ z[s] = w[s]
  <2>1. \A s \in Slot : /\ 1 < MaxFrame => buffers'[s].bytes[1] = buffers[s].bytes[1]
                        /\ Counts(buffers'[s], s, rxi', held') => Counts(buffers[s], s, rxi, held)
    BY <1>1, <1>2 DEF Counts
  <2> QED
    BY <1>9, <2>1, MarksKept
<1>11. z = Marks(buffers, rxi, held)'
  BY DEF Marks
<1> HIDE DEF w, z, u, lo, good
<1>12. last' + 1 \in Nat /\ (last' + 1 = lo \/ (last' + 1 = w[read_head] /\ w[read_head] # 0))
  <2>1. last' + 1 \in Nat
    <3>1. last' \in Nat
      BY <1>5, Zenon
    <3> QED
      BY <3>1, OneUp, Zenon
  <2>2. last' = last => last' + 1 = lo
    BY DEF lo
  <2> QED
    BY <1>5, <2>1, <2>2, Zenon
<1>13. Ordered(z, Inc(read_head), u - 1, last' + 1, m)
  <2> DEFINE k == last' + 1
             r == read_head
  <2>1. k \in Nat /\ (k = lo \/ (k = w[r] /\ w[r] # 0)) /\ lo \in Nat /\ r \in Slot /\ u \in 1 .. N
    BY <1>3, <1>12
  <2>2. Ordered(w, r, u, lo, m)
    BY <1>6
  <2> HIDE DEF k, r
  <2>3. Ordered(z, Inc(r), u - 1, k, m)
    BY <1>10, <2>1, <2>2, MarkTaken
  <2> QED
    BY <2>3 DEF k, r
<1>14. Ring'
  <2>1. write_head' = After(read_head', N - free_buffers')
    BY <1>1, <1>3, AfterShrinks
  <2>2. RxiTypes'
    BY <1>1, <1>2 DEF Ring, RxiTypes
  <2> QED
    BY <1>1, <1>3, <2>1, <2>2 DEF Ring, BufferTypes, OkBuffers, OkBytes
<1>15. Holding'
  BY <1>2 DEF Holding
<1>16. N - free_buffers' = u - 1
  BY <1>1, <1>3
<1> QED
  BY <1>1, <1>5, <1>8, <1>11, <1>13, <1>14, <1>15, <1>16 DEF good

-----------------------------------------------------------------------------
(* Order: the whole. *)

(* The start: no frame was pushed, taken or stored. *)
LEMMA OrderInit == Init => OrderInv
<1> SUFFICES ASSUME Init PROVE OrderInv
  OBVIOUS
<1> DEFINE w == Marks(buffers, rxi, held)
<1>1. /\ tx = <<>> /\ sent = <<>> /\ txi = FALSE /\ line = <<>> /\ last = 0
      /\ write_head = 0 /\ read_head = 0 /\ free_buffers = N /\ in_packet = FALSE
      /\ buffers = [i \in Slot |-> [len |-> 0, bytes |-> [j \in 0 .. MaxFrame - 1 |-> HDLC_FLAG]]]
      /\ rxi = Idle /\ held = None
  BY DEF Init
<1>2. Len(tx) = 0 /\ Len(sent) = 0 /\ DOMAIN tx = {} /\ DOMAIN sent = {} /\ Len(line) = 0
  BY <1>1
<1>3. Queued
  BY <1>1 DEF Queued
<1>4. Numbering
  BY <1>2 DEF Numbering
<1>5. BufferTypes
  BY <1>1 DEF BufferTypes, OkBuffers
<1>6. OkBytes(buffers)
  <2>1. HDLC_FLAG[1] \in Nat
    BY DEF HDLC_FLAG
  <2>2. \A i \in Slot : buffers[i].bytes = [j \in 0 .. MaxFrame - 1 |-> HDLC_FLAG]
    BY <1>1
  <2>3. 1 < MaxFrame => 1 \in 0 .. MaxFrame - 1
    BY FramesAssumption
  <2> QED
    BY <2>1, <2>2, <2>3 DEF OkBytes
<1>7. RxiTypes /\ rxi.on = FALSE /\ rxi.bi = 0
  BY <1>1 DEF RxiTypes, Idle, None
<1>8. Ring
  <2>1. 0 \in Slot /\ N \in Nat \ {0} /\ After(0, 0) = 0
    BY FramesAssumption DEF Slot, After
  <2> QED
    BY <1>1, <1>5, <1>6, <1>7, <2>1 DEF Ring
<1>9. Holding
  BY <1>1 DEF Holding, None
<1>10. Passed(1)
  <2>1. w \in [Slot -> Nat]
    BY <1>6, MarksAre
  <2> HIDE DEF w
  <2>2. N - free_buffers = 0 /\ last + 1 = 1
    BY <1>1, FramesAssumption
  <2>3. Ordered(w, read_head, 0, 1, 1)
    BY <2>1 DEF Ordered
  <2>4. Begun + 1 = 1
    BY <1>1, <1>2 DEF Begun
  <2>5. OnLine(line, 1, 1)
    BY <1>1, <1>2 DEF OnLine
  <2> QED
    BY <2>2, <2>3, <2>4, <2>5 DEF Passed, w
<1> QED
  BY <1>1, <1>3, <1>4, <1>8, <1>9, <1>10 DEF OrderInv

(* A step of the transmit channel, which is all the line sees of it. *)
LEMMA SenderOrders ==
  ASSUME OrderInv, Queued', Numbering',
         UNCHANGED <<buffers, rxi, in_packet, held, write_head, read_head, free_buffers, last>>,
         \A m \in Nat : OnLine(line, m, Begun + 1) => OnLine(line', m, Begun' + 1)
  PROVE  OrderInv'
<1>1. PICK m \in Nat : Passed(m)
  BY DEF OrderInv
<1>2. Ring /\ Holding /\ last \in Nat /\ m <= m
  BY DEF OrderInv
<1>3. Ordered(Marks(buffers, rxi, held), read_head, N - free_buffers, last + 1, m)
  BY <1>1 DEF Passed
<1>4. /\ Ring' /\ Holding'
      /\ Ordered(Marks(buffers, rxi, held)', read_head', N - free_buffers', last' + 1, m)
  BY <1>2, <1>3, RingRests
<1>5. OnLine(line', m, Begun' + 1)
  BY <1>1 DEF Passed
<1>6. Passed(m)'
  BY <1>4, <1>5 DEF Passed
<1> QED
  BY <1>2, <1>4, <1>6 DEF OrderInv

(* A step that takes a byte off the line. *)
LEMMA TakerOrders ==
  ASSUME OrderInv, line # <<>>, line' = Tail(line), UNCHANGED <<txVars, last>>,
         ASSUME NEW m \in Nat, NEW n \in Nat, m <= n, Head(line) \in Byte,
                Head(line)[1] >= 2 => m < Head(line)[1] /\ Head(line)[1] <= n,
                Ordered(Marks(buffers, rxi, held), read_head, N - free_buffers, last + 1, m)
         PROVE  /\ Ring' /\ Holding'
                /\ Ordered(Marks(buffers, rxi, held)', read_head', N - free_buffers',
                           last' + 1, n)
  PROVE  OrderInv'
<1>1. PICK m \in Nat : Passed(m)
  BY DEF OrderInv
<1>2. Queued /\ Numbering /\ last' \in Nat
  BY DEF OrderInv
<1>3. /\ OnLine(line, m, Begun + 1)
      /\ Ordered(Marks(buffers, rxi, held), read_head, N - free_buffers, last + 1, m)
  BY <1>1 DEF Passed
<1>4. /\ Head(line) \in Byte
      /\ \E n \in Nat : /\ m <= n /\ OnLine(line', n, Begun' + 1)
                        /\ Head(line)[1] >= 2 => m < Head(line)[1] /\ Head(line)[1] <= n
  BY <1>2, <1>3, TakenOrders
<1>5. PICK n \in Nat : /\ m <= n /\ OnLine(line', n, Begun' + 1)
                       /\ Head(line)[1] >= 2 => m < Head(line)[1] /\ Head(line)[1] <= n
  BY <1>4
<1>6. /\ Ring' /\ Holding'
      /\ Ordered(Marks(buffers, rxi, held)', read_head', N - free_buffers', last' + 1, n)
  BY <1>3, <1>4, <1>5
<1>7. Queued' /\ Numbering'
  BY <1>2, SenderSame
<1>8. Passed(n)'
  BY <1>5, <1>6 DEF Passed
<1> QED
  BY <1>2, <1>6, <1>7, <1>8 DEF OrderInv

(* A step that leaves the line and the transmit channel alone. *)
LEMMA ReceiverOrders ==
  ASSUME OrderInv, UNCHANGED <<txVars, line>>,
         ASSUME NEW m \in Nat,
                Ordered(Marks(buffers, rxi, held), read_head, N - free_buffers, last + 1, m)
         PROVE  /\ Ring' /\ Holding' /\ last' \in Nat
                /\ Ordered(Marks(buffers, rxi, held)', read_head', N - free_buffers',
                           last' + 1, m)
  PROVE  OrderInv'
<1>1. PICK m \in Nat : Passed(m)
  BY DEF OrderInv
<1>2. /\ OnLine(line, m, Begun + 1)
      /\ Ordered(Marks(buffers, rxi, held), read_head, N - free_buffers, last + 1, m)
  BY <1>1 DEF Passed
<1>3. /\ Ring' /\ Holding' /\ last' \in Nat
      /\ Ordered(Marks(buffers, rxi, held)', read_head', N - free_buffers', last' + 1, m)
  BY <1>2
<1>4. Queued' /\ Numbering' /\ Begun' = Begun
  BY SenderSame DEF OrderInv
<1>5. Passed(m)'
  BY <1>2, <1>3, <1>4 DEF Passed
<1> QED
  BY <1>3, <1>4, <1>5 DEF OrderInv

(* Every step keeps the order. *)
LEMMA OrderStep == OrderInv /\ [Next]_vars => OrderInv'
<1> SUFFICES ASSUME OrderInv, [Next]_vars PROVE OrderInv'
  OBVIOUS
<1> DEFINE rest == <<buffers, rxi, in_packet, held, write_head, read_head, free_buffers, last>>
<1>0. Queued /\ Numbering /\ Ring /\ Holding /\ last \in Nat
  BY DEF OrderInv
<1>1. CASE UNCHANGED vars
  <2>1. UNCHANGED <<txVars, line>> /\ UNCHANGED rest
    BY <1>1 DEF vars, ringVars
  <2>2. Queued' /\ Numbering' /\ Begun' = Begun
    BY <1>0, <2>1, SenderSame
  <2> QED
    BY <2>1, <2>2, SenderOrders
<1>2. ASSUME NEW tail \in Tails, Push(tail) PROVE OrderInv'
  <2>1. Queued' /\ Numbering' /\ Begun' = Begun /\ line' = line
    BY <1>0, <1>2, PushOrders
  <2>2. UNCHANGED rest
    BY <1>2 DEF Push, ringVars
  <2> QED
    BY <2>1, <2>2, SenderOrders
<1>3. CASE TxBegin
  <2>1. UNCHANGED rest /\ UNCHANGED <<tx, sent, line>> /\ tx # <<>>
    BY <1>3 DEF TxBegin, ringVars
  <2>2. Queued' /\ Numbering' /\ Begun' = Begun
    BY <1>0, <2>1 DEF Queued, Numbering, Begun
  <2> QED
    BY <2>1, <2>2, SenderOrders
<1>4. CASE TxByte
  <2>1. UNCHANGED rest
    BY <1>4 DEF TxByte, ringVars
  <2>2. \A m \in Nat : OnLine(line, m, Begun + 1) =>
                         Queued' /\ Numbering' /\ OnLine(line', m, Begun' + 1)
    BY <1>0, <1>4, TxByteOrders
  <2>3. \E m \in Nat : OnLine(line, m, Begun + 1)
    BY DEF OrderInv, Passed
  <2>4. Queued' /\ Numbering'
    BY <2>2, <2>3
  <2> QED
    BY <2>1, <2>2, <2>4, SenderOrders
<1>5. CASE TxEnd
  <2>1. Queued' /\ Numbering' /\ Begun' = Begun /\ line' = line
    BY <1>0, <1>5, TxEndOrders
  <2>2. UNCHANGED rest
    BY <1>5 DEF TxEnd, ringVars
  <2> QED
    BY <2>1, <2>2, SenderOrders
<1>6. CASE LoseByte
  <2>1. UNCHANGED rest /\ line # <<>> /\ line' = Tail(line) /\ UNCHANGED <<txVars, last>>
    BY <1>6 DEF LoseByte, ringVars
  <2>2. ASSUME NEW m \in Nat, NEW n \in Nat, m <= n,
               Ordered(Marks(buffers, rxi, held), read_head, N - free_buffers, last + 1, m)
        PROVE  /\ Ring' /\ Holding'
               /\ Ordered(Marks(buffers, rxi, held)', read_head', N - free_buffers', last' + 1, n)
    BY <1>0, <2>1, <2>2, RingRests
  <2> QED
    BY <2>1, <2>2, TakerOrders
<1>7. CASE DrainBegin
  <2>1. UNCHANGED <<txVars, line>> /\ UNCHANGED last
    BY <1>7 DEF DrainBegin
  <2>2. ASSUME NEW m \in Nat,
               Ordered(Marks(buffers, rxi, held), read_head, N - free_buffers, last + 1, m)
        PROVE  /\ Ring' /\ Holding' /\ last' \in Nat
               /\ Ordered(Marks(buffers, rxi, held)', read_head', N - free_buffers', last' + 1, m)
    BY <1>0, <1>7, <2>1, <2>2, DrainBeginOrders
  <2> QED
    BY <2>1, <2>2, ReceiverOrders
<1>8. CASE DrainDenied
  <2>1. UNCHANGED rest /\ line # <<>> /\ line' = Tail(line) /\ UNCHANGED <<txVars, last>>
    BY <1>8 DEF DrainDenied, Taken, ringVars
  <2>2. ASSUME NEW m \in Nat, NEW n \in Nat, m <= n,
               Ordered(Marks(buffers, rxi, held), read_head, N - free_buffers, last + 1, m)
        PROVE  /\ Ring' /\ Holding'
               /\ Ordered(Marks(buffers, rxi, held)', read_head', N - free_buffers', last' + 1, n)
    BY <1>0, <2>1, <2>2, RingRests
  <2> QED
    BY <2>1, <2>2, TakerOrders
<1>9. CASE DrainFlag
  <2>1. line # <<>> /\ line' = Tail(line) /\ UNCHANGED <<txVars, last>>
    BY <1>9 DEF DrainFlag, Taken
  <2>2. ASSUME NEW m \in Nat, NEW n \in Nat, m <= n,
               Ordered(Marks(buffers, rxi, held), read_head, N - free_buffers, last + 1, m)
        PROVE  /\ Ring' /\ Holding'
               /\ Ordered(Marks(buffers, rxi, held)', read_head', N - free_buffers', last' + 1, n)
    <3>1. Ordered(Marks(buffers, rxi, held), read_head, N - free_buffers, last + 1, n)
      BY <1>0, <2>2, HigherBound
    <3> QED
      BY <1>0, <1>9, <3>1, DrainFlagOrders
  <2> QED
    BY <2>1, <2>2, TakerOrders
<1>10. CASE DrainData
  <2>1. line # <<>> /\ line' = Tail(line) /\ UNCHANGED <<txVars, last>>
    BY <1>10 DEF DrainData, Taken
  <2>2. ASSUME NEW m \in Nat, NEW n \in Nat, m <= n, Head(line) \in Byte,
               Head(line)[1] >= 2 => m < Head(line)[1] /\ Head(line)[1] <= n,
               Ordered(Marks(buffers, rxi, held), read_head, N - free_buffers, last + 1, m)
        PROVE  /\ Ring' /\ Holding'
               /\ Ordered(Marks(buffers, rxi, held)', read_head', N - free_buffers', last' + 1, n)
    BY <1>0, <1>10, <2>2, DrainDataOrders
  <2> QED
    BY <2>1, <2>2, TakerOrders
<1>11. CASE DrainEnd
  <2>1. UNCHANGED <<txVars, line>> /\ UNCHANGED last
    BY <1>11 DEF DrainEnd
  <2>2. ASSUME NEW m \in Nat,
               Ordered(Marks(buffers, rxi, held), read_head, N - free_buffers, last + 1, m)
        PROVE  /\ Ring' /\ Holding' /\ last' \in Nat
               /\ Ordered(Marks(buffers, rxi, held)', read_head', N - free_buffers', last' + 1, m)
    BY <1>0, <1>11, <2>1, <2>2, DrainEndOrders
  <2> QED
    BY <2>1, <2>2, ReceiverOrders
<1>12. CASE Take
  <2>1. UNCHANGED <<txVars, line>> /\ UNCHANGED last
    BY <1>12 DEF Take
  <2>2. ASSUME NEW m \in Nat,
               Ordered(Marks(buffers, rxi, held), read_head, N - free_buffers, last + 1, m)
        PROVE  /\ Ring' /\ Holding' /\ last' \in Nat
               /\ Ordered(Marks(buffers, rxi, held)', read_head', N - free_buffers', last' + 1, m)
    BY <1>0, <1>12, <2>1, <2>2, TakeOrders
  <2> QED
    BY <2>1, <2>2, ReceiverOrders
<1>13. CASE Discard
  <2>1. UNCHANGED <<txVars, line>>
    BY <1>13 DEF Discard
  <2>2. ASSUME NEW m \in Nat,
               Ordered(Marks(buffers, rxi, held), read_head, N - free_buffers, last + 1, m)
        PROVE  /\ Ring' /\ Holding' /\ last' \in Nat
               /\ Ordered(Marks(buffers, rxi, held)', read_head', N - free_buffers', last' + 1, m)
    BY <1>0, <1>13, <2>2, DiscardOrders
  <2> QED
    BY <2>1, <2>2, ReceiverOrders
<1> QED
  BY <1>1, <1>2, <1>3, <1>4, <1>5, <1>6, <1>7, <1>8, <1>9, <1>10, <1>11, <1>12, <1>13
  DEF Next, Step

(***************************************************************************)
(* The frames that pass the FCS are taken in the order they were pushed,   *)
(* none of them twice: for rings and buffers of every size, and also when  *)
(* bytes were lost, when drain_uart_buffer denied a buffer and counts on   *)
(* in one that is already finished, and when interrupts end anywhere.      *)
(***************************************************************************)
THEOREM FramesAreTakenInOrder == Spec => TakenInOrder
<1>1. OrderInv /\ [Next]_vars =>
        [Discard /\ Valid(Content(held.idx, held.len)) # {} => last' > last]_vars
  <2> SUFFICES ASSUME OrderInv, Discard, Valid(Content(held.idx, held.len)) # {}
               PROVE  last' > last
    OBVIOUS
  <2>1. PICK m \in Nat : Passed(m)
    BY DEF OrderInv
  <2>2. Ordered(Marks(buffers, rxi, held), read_head, N - free_buffers, last + 1, m)
    BY <2>1 DEF Passed
  <2>3. Queued /\ Numbering /\ Ring /\ Holding /\ last \in Nat
    BY DEF OrderInv
  <2> QED
    BY <2>2, <2>3, DiscardOrders
<1> QED
  BY <1>1, OrderInit, OrderStep, PTL DEF Spec, TakenInOrder
=============================================================================
