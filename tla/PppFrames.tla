------------------------------ MODULE PppFrames ------------------------------
(***************************************************************************)
(* How antimony moves PPP frames over its UART (net/phy.rs): a transmit    *)
(* channel that escapes bytes, a line, and a receive channel that unescapes *)
(* them into a ring of buffers, shared by the interrupt handler and the    *)
(* main loop of net.rs.                                                    *)
(*                                                                         *)
(* The handler runs to its end before the main loop goes on, but bytes     *)
(* arrive meanwhile, so it takes one step per byte; its local variables    *)
(* are the record rxi.  The two channels are those of two boards.          *)
(***************************************************************************)
EXTENDS Naturals, Sequences

CONSTANTS
  N,          \* CHANNEL_MAX_FRAMES
  MaxFrame,   \* MAX_FRAME, bytes of a buffer
  LineCap,    \* bytes between the two: the FIFOs of both UARTs
  MaxSent,    \* frames pushed
  MaxLost,    \* bytes the line loses
  Tails       \* what follows the first byte of a frame's body

ASSUME FramesAssumption ==
  /\ N \in Nat \ {0} /\ MaxFrame \in Nat \ {0}
  /\ LineCap \in Nat \ {0} /\ MaxSent \in Nat /\ MaxLost \in Nat

(***************************************************************************)
(* MAX_FRAME is one flag, the header, PPP_MRU and the FCS, and the link    *)
(* accepts no other MRU (control.rs): a flag and the body fit.             *)
(***************************************************************************)
Byte == Nat \X BOOLEAN
ASSUME TailsAssumption ==
  \A tail \in Tails : tail \in Seq(Byte) /\ Len(tail) + 2 <= MaxFrame

(***************************************************************************)
(* A byte is a value and whether bit 5 is flipped.  0 and 1 are the flag   *)
(* and the escape; the others stand for the frame they are sent in, so     *)
(* that the bytes of two frames are never taken for each other.            *)
(***************************************************************************)
HDLC_FLAG == <<0, FALSE>>
HDLC_ESC == <<1, FALSE>>
Own(k) == <<k + 1, FALSE>>
Xor(b) == <<b[1], ~b[2]>>

(* Only its first byte is a frame's own: with the FCS taken as below, what *)
(* the line leaves of one frame is not taken for the start of another.     *)
ASSUME OwnAssumption == \A tail \in Tails : \A i \in DOMAIN tail : tail[i][1] < 2

(* Mutant: the escape is not escaped. *)
needs_escape_flag(b) == b = HDLC_FLAG

(* link_init: the bytes to escape. *)
needs_escape(b) == b \in {HDLC_FLAG, HDLC_ESC}

(***************************************************************************)
(* begin_ppp, write, finish_ppp: what lies between the flags, the FCS      *)
(* included, is the body.  The FCS is taken to tell every damaged frame.   *)
(***************************************************************************)
Body(k, tail) == <<Own(k)>> \o tail
Framed(body) == <<HDLC_FLAG>> \o body \o <<HDLC_FLAG>>

VARIABLES
  tx,            \* XmitChannel.buffers: [frame, index, pending_escape]
  txi,           \* the handler is inside write_out
  line,
  sent,          \* the bodies pushed so far
  write_head, finished_head, read_head, free_buffers,
  in_packet,
  buffers,       \* [len, bytes]
  rxi,           \* locals of drain_uart_buffer
  held,          \* what read_head_buf gave the main loop: buffer and length
  last,          \* history: number of the last frame that passed the FCS
  denied,        \* history: a buffer was denied
  split,         \* history: the frames that lost an escape, see DrainEnd
  lost,          \* history: bytes lost on the line
  panicked       \* a byte was written past the end of a buffer

txVars == <<tx, txi, sent>>
ringVars == <<write_head, finished_head, read_head, free_buffers, buffers>>
history == <<denied, split, lost>>
vars == <<txVars, line, ringVars, in_packet, rxi, held, last, history, panicked>>

Slot == 0 .. N - 1
Inc(h) == IF h = N - 1 THEN 0 ELSE h + 1
Dec(h) == IF h = 0 THEN N - 1 ELSE h - 1

Idle == [on |-> FALSE, in_packet |-> FALSE, denied |-> FALSE, buf |-> 0,
         last_esc |-> FALSE, bi |-> 0]
None == [on |-> FALSE, idx |-> 0, len |-> 0]

(* RecvChannel::new, XmitChannel::new *)
Init ==
  /\ tx = <<>> /\ txi = FALSE /\ sent = <<>>
  /\ line = <<>>
  /\ write_head = 0 /\ finished_head = 0 /\ read_head = 0 /\ free_buffers = N
  /\ in_packet = FALSE
  /\ buffers = [i \in Slot |-> [len |-> 0, bytes |-> [j \in 0 .. MaxFrame - 1 |-> HDLC_FLAG]]]
  /\ rxi = Idle /\ held = None
  /\ last = 0 /\ denied = FALSE /\ split = {} /\ lost = 0
  /\ panicked = FALSE

-----------------------------------------------------------------------------
(* The transmit channel. *)

(***************************************************************************)
(* push: the frame is queued.  What follows is never done, since the queue *)
(* is then not empty; frames leave by interrupts caused by other bytes.    *)
(***************************************************************************)
Push(tail) ==
  /\ Len(sent) < MaxSent /\ ~txi
  /\ LET body == Body(Len(sent) + 1, tail)
     IN /\ sent' = Append(sent, body)
        /\ tx' = Append(tx, [frame |-> Framed(body), index |-> 1,
                             pending_escape |-> FALSE])
  /\ UNCHANGED <<txi, line, ringVars, in_packet, rxi, held, last, history, panicked>>

(* mei_uart, 20: there is room in the FIFO. *)
TxBegin ==
  /\ ~txi /\ tx # <<>> /\ Len(line) < LineCap
  /\ txi' = TRUE
  /\ UNCHANGED <<tx, sent, line, ringVars, in_packet, rxi, held, last, history, panicked>>

(* Mutant: only the opening flag is spared the escape. *)
OnTheEdgeFirst(f) == f.index = 1

(* write_out, one turn of its inner loop. *)
OnTheEdge(f) == f.index \in {1, Len(f.frame)}

WriteByte ==
  LET f == Head(tx)
      b == f.frame[f.index]
  IN /\ txi /\ Len(line) < LineCap
     /\ \/ /\ f.pending_escape
           /\ line' = Append(line, Xor(b))
           /\ tx' = <<[f EXCEPT !.index = @ + 1, !.pending_escape = FALSE]>> \o Tail(tx)
        \/ /\ ~f.pending_escape
           /\ needs_escape(b) /\ ~(OnTheEdge(f) /\ b = HDLC_FLAG)
           /\ line' = Append(line, HDLC_ESC)
           /\ tx' = <<[f EXCEPT !.pending_escape = TRUE]>> \o Tail(tx)
        \/ /\ ~f.pending_escape
           /\ ~needs_escape(b) \/ (OnTheEdge(f) /\ b = HDLC_FLAG)
           /\ line' = Append(line, b)
           /\ tx' = <<[f EXCEPT !.index = @ + 1]>> \o Tail(tx)

(* A frame that is out is popped, and write_out ends: one frame a call. *)
TxByte ==
  /\ txi /\ Head(tx).index <= Len(Head(tx).frame)
  /\ WriteByte
  /\ UNCHANGED <<txi, sent, ringVars, in_packet, rxi, held, last, history, panicked>>

TxEnd ==
  /\ txi
  /\ txi' = FALSE
  /\ \/ Head(tx).index > Len(Head(tx).frame) /\ tx' = Tail(tx)
     \/ /\ Head(tx).index <= Len(Head(tx).frame) /\ Len(line) = LineCap
        /\ UNCHANGED tx
  /\ UNCHANGED <<sent, line, ringVars, in_packet, rxi, held, last, history, panicked>>

(* The line may lose a byte, here the oldest one (a noisy line, external). *)
LoseByte ==
  /\ line # <<>> /\ lost < MaxLost
  /\ line' = Tail(line) /\ lost' = lost + 1
  /\ UNCHANGED <<txVars, ringVars, in_packet, rxi, held, last, denied, split, panicked>>

-----------------------------------------------------------------------------
(* The receive channel: the interrupt handler. *)

(* drain_uart_buffer, up to its loop. *)
DrainBegin ==
  /\ ~rxi.on /\ line # <<>>
  /\ rxi' = [on |-> TRUE, in_packet |-> in_packet, denied |-> FALSE,
             buf |-> Dec(write_head), last_esc |-> FALSE,
             bi |-> IF in_packet THEN buffers[Dec(write_head)].len ELSE 0]
  /\ UNCHANGED <<txVars, line, ringVars, in_packet, held, last, history, panicked>>

Taken == rxi.on /\ line # <<>> /\ line' = Tail(line)

(* After a denial the rest of the FIFO is thrown away. *)
DrainDenied ==
  /\ Taken /\ rxi.denied
  /\ UNCHANGED <<txVars, ringVars, in_packet, rxi, held, last, history, panicked>>

(***************************************************************************)
(* A flag.  It ends the frame being received, unless that is empty so far, *)
(* and opens the next one in a buffer of try_alloc_buffer.                 *)
(***************************************************************************)
Finishes == rxi.in_packet /\ rxi.bi > 1

(* Mutant: the oldest buffer is overwritten when none is free. *)
DrainFlagOverwrites ==
  LET closed == IF Finishes THEN [buffers EXCEPT ![rxi.buf].len = rxi.bi] ELSE buffers
  IN /\ Taken /\ ~rxi.denied /\ Head(line) = HDLC_FLAG
     /\ finished_head' = IF Finishes THEN Inc(finished_head) ELSE finished_head
     /\ \/ /\ rxi.bi = 1
           /\ UNCHANGED <<write_head, free_buffers, buffers, rxi>>
        \/ /\ rxi.bi # 1
           /\ write_head' = Inc(write_head)
           /\ free_buffers' = IF free_buffers = 0 THEN 0 ELSE free_buffers - 1
           /\ rxi' = [rxi EXCEPT !.buf = write_head, !.in_packet = TRUE,
                                 !.last_esc = FALSE, !.bi = 1]
           /\ buffers' = [closed EXCEPT ![write_head].len = 1,
                                        ![write_head].bytes[0] = HDLC_FLAG]
     /\ UNCHANGED <<txVars, read_head, in_packet, held, last, history, panicked>>

DrainFlag ==
  LET closed == IF Finishes THEN [buffers EXCEPT ![rxi.buf].len = rxi.bi] ELSE buffers
  IN /\ Taken /\ ~rxi.denied /\ Head(line) = HDLC_FLAG
     /\ finished_head' = IF Finishes THEN Inc(finished_head) ELSE finished_head
     /\ \/ /\ rxi.bi = 1
           /\ UNCHANGED <<write_head, free_buffers, buffers, rxi, denied>>
        \/ /\ rxi.bi # 1 /\ free_buffers = 0
           /\ rxi' = [rxi EXCEPT !.denied = TRUE, !.bi = IF Finishes THEN 0 ELSE @]
           /\ buffers' = closed
           /\ denied' = TRUE
           /\ UNCHANGED <<write_head, free_buffers>>
        \/ /\ rxi.bi # 1 /\ free_buffers > 0
           /\ write_head' = Inc(write_head)
           /\ free_buffers' = free_buffers - 1
           /\ rxi' = [rxi EXCEPT !.buf = write_head, !.in_packet = TRUE,
                                 !.last_esc = FALSE, !.bi = 1]
           /\ buffers' = [closed EXCEPT ![write_head].len = 1,
                                        ![write_head].bytes[0] = HDLC_FLAG]
           /\ UNCHANGED denied
     /\ UNCHANGED <<txVars, read_head, in_packet, held, last, split, lost,
                    panicked>>

(***************************************************************************)
(* Any other byte; outside a frame it is ignored.  The index is checked at *)
(* run time only: a frame too long for its buffer is a panic.              *)
(***************************************************************************)
DrainData ==
  LET b == Head(line)
  IN /\ Taken /\ ~rxi.denied /\ b # HDLC_FLAG
     /\ \/ ~rxi.in_packet /\ UNCHANGED <<rxi, buffers, panicked>>
        \/ /\ rxi.in_packet /\ ~rxi.last_esc /\ b = HDLC_ESC
           /\ rxi' = [rxi EXCEPT !.last_esc = TRUE]
           /\ UNCHANGED <<buffers, panicked>>
        \/ /\ rxi.in_packet /\ (rxi.last_esc \/ b # HDLC_ESC)
           /\ rxi' = [rxi EXCEPT !.last_esc = FALSE, !.bi = @ + 1]
           /\ IF rxi.bi < MaxFrame
                THEN /\ buffers' = [buffers EXCEPT ![rxi.buf].bytes[rxi.bi] =
                                              IF rxi.last_esc THEN Xor(b) ELSE b]
                     /\ UNCHANGED panicked
                ELSE panicked' = TRUE /\ UNCHANGED buffers
     /\ UNCHANGED <<txVars, write_head, finished_head, read_head, free_buffers,
                    in_packet, held, last, history>>

(***************************************************************************)
(* The FIFO is empty.  last_esc is not stored back: when the interrupt     *)
(* ends between an escape and its byte, the escape is lost, and the frame  *)
(* being received, which its own byte tells, will not pass the FCS.        *)
(***************************************************************************)
Split ==
  IF rxi.last_esc /\ rxi.bi > 1 THEN {buffers[rxi.buf].bytes[1][1] - 1} ELSE {}

(* Mutant: the interrupt forgets that it is inside a frame. *)
DrainEndForgets ==
  /\ rxi.on /\ line = <<>>
  /\ in_packet' = FALSE
  /\ split' = split \cup Split
  /\ rxi' = Idle
  /\ UNCHANGED <<txVars, line, ringVars, held, last, denied, lost, panicked>>

DrainEnd ==
  /\ rxi.on /\ line = <<>>
  /\ in_packet' = rxi.in_packet
  /\ buffers' = IF rxi.in_packet THEN [buffers EXCEPT ![rxi.buf].len = rxi.bi] ELSE buffers
  /\ split' = split \cup Split
  /\ rxi' = Idle
  /\ UNCHANGED <<txVars, line, write_head, finished_head, read_head, free_buffers,
                 held, last, denied, lost, panicked>>

-----------------------------------------------------------------------------
(* The main loop (net.rs, run), between interrupts. *)

(* read_head_buf, in a critical section *)
Take ==
  /\ ~rxi.on /\ ~held.on
  /\ free_buffers # N /\ read_head # finished_head
  /\ held' = [on |-> TRUE, idx |-> read_head, len |-> buffers[read_head].len]
  /\ UNCHANGED <<txVars, line, ringVars, in_packet, rxi, last, history, panicked>>

Content(i, len) == [j \in 1 .. len |-> buffers[i].bytes[j - 1]]

(* try_from_hdlc_frame *)
Valid(content) == {k \in DOMAIN sent : content = <<HDLC_FLAG>> \o sent[k]}

(* Mutant: read_head stays. *)
DiscardAgain ==
  /\ ~rxi.on /\ held.on
  /\ LET good == Valid(Content(held.idx, held.len))
     IN last' = IF good = {} THEN last ELSE CHOOSE k \in good : TRUE
  /\ held' = None
  /\ free_buffers' = IF free_buffers = N THEN N ELSE free_buffers + 1
  /\ UNCHANGED <<txVars, line, write_head, finished_head, read_head, buffers,
                 in_packet, rxi, history, panicked>>

(* The frame is used, then discard() frees its buffer. *)
Discard ==
  /\ ~rxi.on /\ held.on
  /\ LET good == Valid(Content(held.idx, held.len))
     IN last' = IF good = {} THEN last ELSE CHOOSE k \in good : TRUE
  /\ held' = None
  /\ read_head' = Inc(read_head)
  /\ free_buffers' = free_buffers + 1
  /\ UNCHANGED <<txVars, line, write_head, finished_head, buffers, in_packet, rxi,
                 history, panicked>>

-----------------------------------------------------------------------------
Step ==
  \/ \E tail \in Tails : Push(tail)
  \/ TxBegin \/ TxByte \/ TxEnd \/ LoseByte
  \/ DrainBegin \/ DrainDenied \/ DrainFlag \/ DrainData \/ DrainEnd
  \/ Take \/ Discard

(* After a panic the board is halted. *)
Next == ~panicked /\ Step

Spec == Init /\ [][Next]_vars

(***************************************************************************)
(* An interrupt that has begun is served to its end, every received byte   *)
(* raises one, and the main loop goes on, however often it is interrupted. *)
(* Nothing makes TxBegin happen: push does not start the transmitter, and  *)
(* on an idle line a queued frame stays where it is.                       *)
(***************************************************************************)
FairSpec ==
  /\ Spec
  /\ WF_vars(TxByte) /\ WF_vars(TxEnd)
  /\ WF_vars(DrainBegin) /\ WF_vars(DrainDenied) /\ WF_vars(DrainFlag)
  /\ WF_vars(DrainData) /\ WF_vars(DrainEnd)
  /\ SF_vars(Take) /\ SF_vars(Discard)

-----------------------------------------------------------------------------
(* Properties *)

(***************************************************************************)
(* While no buffer was denied, the handler never writes to the buffer the  *)
(* main loop reads outside of its critical section (run).                  *)
(***************************************************************************)
ReaderUndisturbed ==
  ~denied /\ held.on =>
    /\ buffers[held.idx].len = held.len
    /\ rxi.on /\ rxi.in_packet => rxi.buf # held.idx

(***************************************************************************)
(* A frame is never taken twice, nor after a later one: not when bytes are *)
(* lost, not when the ring is full and what drain_uart_buffer drops and    *)
(* overwrites no longer agrees with finished_head.                         *)
(***************************************************************************)
TakenInOrder ==
  [][Discard /\ Valid(Content(held.idx, held.len)) # {} => last' > last]_vars

(***************************************************************************)
(* A frame outgrows its buffer (the unchecked bi of drain_uart_buffer)     *)
(* only if the flag between two frames was lost.                           *)
(***************************************************************************)
OverrunsOnlyAfterLoss == panicked => lost > 0

(***************************************************************************)
(* A frame that write_out has finished is taken in the end, whole, however *)
(* many interrupts of drain_uart_buffer it is spread over, unless the ring *)
(* was full or a byte was lost.  An interrupt that ends between an escape  *)
(* and its byte costs the frame it ends in, and no other one.              *)
(***************************************************************************)
WrittenFramesArrive ==
  \A k \in 1 .. MaxSent :
    <>(Len(sent) - Len(tx) >= k) => <>(last = k \/ denied \/ k \in split \/ lost > 0)
=============================================================================
