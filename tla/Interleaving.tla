---------------------------- MODULE Interleaving ----------------------------
(***************************************************************************)
(* What bismuth's interleave checker promises to do with the two test      *)
(* functions of app/debug.rs: run them as two threads, an instruction of   *)
(* one at a time, on registers of their own and a shared LOCK, and start   *)
(* them afresh only after both have returned.                              *)
(***************************************************************************)
EXTENDS Integers, Sequences

CONSTANT MaxPad   \* instructions the compiler may add to the prologue

VARIABLES
  pad,     \* what it added
  lock,    \* LOCK
  ctx      \* of each thread: the program counter and the loaded value

Thread == {0, 1}

(***************************************************************************)
(* test_a and test_b, trylock and unlock inlined, inside _interleave_wrap: *)
(* push and blx, the two loads of LOCK (the second is volatile), what is   *)
(* between them, and the return to _interleave_stop.                       *)
(***************************************************************************)
Trylock == <<"load", "test", "load", "up">>
Unlock == <<"load", "down">>
Prologue(n) == [i \in 1 .. 2 + n |-> "nop"]

Code(t, n) ==
  Prologue(n) \o Trylock \o <<"nop">> \o
  (IF t = 0 THEN Unlock ELSE <<>>) \o <<"ret">>

\* the address of _interleave_stop, as thread t gets there
Stop(t, n) == Len(Code(t, n)) + 1

Fresh == [pc |-> 1, x |-> 0]

\* registers and LOCK after the instruction at c.pc
Ran(t, n, c, l) ==
  LET op == Code(t, n)[c.pc]
      next == [c EXCEPT !.pc = @ + 1]
  IN  CASE op \in {"nop", "ret"} -> [ctx |-> next, lock |-> l]
        [] op = "load" -> [ctx |-> [next EXCEPT !.x = l], lock |-> l]
        [] op = "up" -> [ctx |-> next, lock |-> c.x + 1]
        [] op = "down" -> [ctx |-> next, lock |-> c.x - 1]
        [] op = "test" -> [ctx |-> IF c.x > 0 THEN [c EXCEPT !.pc = Stop(t, n) - 1] ELSE next,
                           lock |-> l]

Init ==
  /\ pad \in 0 .. MaxPad
  /\ lock = 0 /\ ctx = [t \in Thread |-> Fresh]

Instruction(t) ==
  /\ ctx[t].pc # Stop(t, pad)
  /\ ctx' = [ctx EXCEPT ![t] = Ran(t, pad, ctx[t], lock).ctx]
  /\ lock' = Ran(t, pad, ctx[t], lock).lock
  /\ UNCHANGED pad

Restart ==
  /\ \A t \in Thread : ctx[t].pc = Stop(t, pad)
  /\ lock' = 0 /\ ctx' = [t \in Thread |-> Fresh]
  /\ UNCHANGED pad

Next == Restart \/ \E t \in Thread : Instruction(t)

Spec == Init /\ [][Next]_<<pad, lock, ctx>>
=============================================================================
