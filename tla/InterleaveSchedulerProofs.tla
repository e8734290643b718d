--------------------- MODULE InterleaveSchedulerProofs ---------------------
(***************************************************************************)
(* bismuth's interleave checker, for every number of runs and every length *)
(* of prologue the compiler may choose.                                    *)
(***************************************************************************)
EXTENDS InterleaveScheduler, TLAPS

Registers == [pc : Int, x : Int]

-----------------------------------------------------------------------------
(* The tests. *)

Ops == {"nop", "ret", "load", "test", "up", "down"}

(* A test is a sequence of known instructions that ends in its return. *)
LEMMA CodeFacts ==
  ASSUME NEW t \in Thread, NEW n \in Nat
  PROVE  /\ Abs!Code(t, n) \in Seq(Ops)
         /\ Len(Abs!Code(t, n)) > 1
         /\ Abs!Code(t, n)[Len(Abs!Code(t, n))] = "ret"
<1> DEFINE body == Abs!Prologue(n) \o Abs!Trylock \o <<"nop">> \o
                     (IF t = 0 THEN Abs!Unlock ELSE <<>>)
<1>1. Abs!Prologue(n) \in Seq(Ops) /\ Len(Abs!Prologue(n)) = 2 + n
  BY DEF Abs!Prologue, Ops
<1>2. Abs!Trylock \in Seq(Ops) /\ Abs!Unlock \in Seq(Ops)
  BY DEF Abs!Trylock, Abs!Unlock, Ops
<1>3. <<"nop">> \in Seq(Ops) /\ <<"ret">> \in Seq(Ops) /\ <<>> \in Seq(Ops)
  BY DEF Ops
<1>4. body \in Seq(Ops) /\ Len(body) > 1
  <2>1. ASSUME NEW p \in Seq(Ops), NEW q \in Seq(Ops), Len(p) > 1
        PROVE  p \o q \in Seq(Ops) /\ Len(p \o q) > 1
    BY <2>1
  <2>2. /\ Abs!Prologue(n) \o Abs!Trylock \in Seq(Ops)
        /\ Len(Abs!Prologue(n) \o Abs!Trylock) > 1
    BY <1>1, <1>2, <2>1
  <2>3. /\ Abs!Prologue(n) \o Abs!Trylock \o <<"nop">> \in Seq(Ops)
        /\ Len(Abs!Prologue(n) \o Abs!Trylock \o <<"nop">>) > 1
    BY <1>3, <2>1, <2>2
  <2>4. (IF t = 0 THEN Abs!Unlock ELSE <<>>) \in Seq(Ops)
    BY <1>2, <1>3
  <2> QED
    BY <2>1, <2>3, <2>4
<1>5. Abs!Code(t, n) = body \o <<"ret">>
  BY DEF Abs!Code
<1> HIDE DEF body
<1> QED
  BY <1>3, <1>4, <1>5

(* An instruction leaves registers and a count, and moves the program      *)
(* counter to another place of the test: no test jumps to itself.          *)
LEMMA RanFacts ==
  ASSUME NEW t \in Thread, NEW n \in Nat, NEW c \in Registers, NEW l \in Int,
         c.pc \in 1 .. Abs!Stop(t, n), c.pc # Abs!Stop(t, n)
  PROVE  /\ Abs!Ran(t, n, c, l).ctx \in Registers
         /\ Abs!Ran(t, n, c, l).ctx.pc \in 1 .. Abs!Stop(t, n)
         /\ Abs!Ran(t, n, c, l).ctx.pc # c.pc
         /\ Abs!Ran(t, n, c, l).lock \in Int
<1> DEFINE code == Abs!Code(t, n)
           op == code[c.pc]
<1>1. code \in Seq(Ops) /\ Len(code) > 1 /\ code[Len(code)] = "ret"
  BY CodeFacts
<1>2. Abs!Stop(t, n) = Len(code) + 1
  BY DEF Abs!Stop
<1> HIDE DEF code
<1>3. c.pc \in 1 .. Len(code) /\ op \in Ops
  BY <1>1, <1>2 DEF Registers
<1>4. op = "test" => c.pc # Len(code)
  BY <1>1
<1>5. Abs!Ran(t, n, c, l) =
        CASE op \in {"nop", "ret"} -> [ctx |-> [c EXCEPT !.pc = @ + 1], lock |-> l]
          [] op = "load" -> [ctx |-> [[c EXCEPT !.pc = @ + 1] EXCEPT !.x = l], lock |-> l]
          [] op = "up" -> [ctx |-> [c EXCEPT !.pc = @ + 1], lock |-> c.x + 1]
          [] op = "down" -> [ctx |-> [c EXCEPT !.pc = @ + 1], lock |-> c.x - 1]
          [] op = "test" -> [ctx |-> IF c.x > 0 THEN [c EXCEPT !.pc = Abs!Stop(t, n) - 1]
                                     ELSE [c EXCEPT !.pc = @ + 1], lock |-> l]
  BY DEF Abs!Ran, code
<1> HIDE DEF op
<1>6. CASE op \in {"nop", "ret"}
  BY <1>2, <1>3, <1>5, <1>6 DEF Registers
<1>7. CASE op = "load"
  <2>1. Abs!Ran(t, n, c, l) = [ctx |-> [pc |-> c.pc + 1, x |-> l], lock |-> l]
    BY <1>5, <1>7 DEF Registers
  <2> QED
    BY <1>2, <1>3, <2>1 DEF Registers
<1>8. CASE op = "up"
  BY <1>2, <1>3, <1>5, <1>8 DEF Registers
<1>9. CASE op = "down"
  BY <1>2, <1>3, <1>5, <1>9 DEF Registers
<1>10. CASE op = "test"
  BY <1>1, <1>2, <1>3, <1>4, <1>5, <1>10 DEF Registers
<1> QED
  BY <1>3, <1>6, <1>7, <1>8, <1>9, <1>10 DEF Ops


-----------------------------------------------------------------------------
(* The inductive invariant. *)

Stepping == phase = "stepping"
Loaded == cpu.pc = bvr      \* the next instruction has not run yet

Types ==
  /\ pad \in Nat /\ LOCK \in Int /\ cpu \in Registers /\ bvr \in Int
  /\ threads \in [Thread -> [pc : Int, x : Int, did_stop : BOOLEAN]]
  /\ current_thread \in Thread
  /\ policy \in [counter : Nat, param : Nat, is_ok : BOOLEAN]
  /\ phase \in {"idle", "stepping"} /\ i \in Nat
  /\ ran \in [Thread -> Nat] /\ clash \in BOOLEAN
  /\ \A t \in Thread : threads[t].pc \in 1 .. Abs!Stop(t, pad)
  /\ Stepping => cpu.pc \in 1 .. Abs!Stop(current_thread, pad)

(***************************************************************************)
(* A thread that was saved at its end is known to be there, and is loaded  *)
(* again only when both are: thread 0, to return from run.  Between loading *)
(* and the instruction, processor and saved context agree.                 *)
(***************************************************************************)
Saved ==
  /\ \A t \in Thread : threads[t].did_stop <=> threads[t].pc = Abs!Stop(t, pad)
  /\ Stepping /\ Loaded =>
       /\ cpu.pc = threads[current_thread].pc /\ cpu.x = threads[current_thread].x
       /\ current_thread = 1 => ~threads[1].did_stop
       /\ threads[0].did_stop /\ current_thread = 0 => threads[1].did_stop
  /\ Stepping /\ ~Loaded => ~threads[current_thread].did_stop

(* Between two runs both tests are at their end, or none was ever begun. *)
Between ==
  ~Stepping =>
    \/ \A t \in Thread : threads[t].did_stop
    \/ threads = [t \in Thread |-> Empty] /\ LOCK = 0

(* What an instruction did to LOCK is in the verdict once check has seen it. *)
Verdict ==
  Stepping =>
    /\ Loaded => (policy.is_ok <=> ~clash)
    /\ ~Loaded => (policy.is_ok /\ LOCK <= 1 <=> ~clash)

Preempted ==
  \/ ran[0] = policy.param
  \/ threads[0].did_stop /\ ran[0] < policy.param

(***************************************************************************)
(* The policy's counter is one ahead of the first test's instructions      *)
(* while that one is loaded; the second test runs from the moment the      *)
(* counter reaches param, or the first test its end, until its own end.    *)
(***************************************************************************)
Counted ==
  Stepping =>
    /\ current_thread = 0 /\ ran[1] = 0 =>
         /\ ran[0] <= policy.param
         /\ Loaded => ran[0] + 1 = policy.counter /\ ran[0] < policy.param
         /\ ~Loaded => ran[0] = policy.counter
    /\ current_thread = 0 /\ ran[1] > 0 => threads[1].did_stop
    /\ current_thread = 1 =>
         /\ Preempted
         /\ policy.counter >= policy.param \/ threads[0].did_stop
         /\ ~Loaded => ran[1] > 0
    /\ ran[1] = 0 => ~threads[1].did_stop

IInv == Types /\ Saved /\ Between /\ Verdict /\ Counted

(* The end of a test is not its beginning. *)
LEMMA StopFacts ==
  ASSUME NEW t \in Thread, NEW n \in Nat
  PROVE  Abs!Stop(t, n) \in Nat /\ Abs!Stop(t, n) > 1
  BY CodeFacts DEF Abs!Stop

(* Nothing has happened at first. *)
LEMMA IInvInit == Init => IInv
<1> SUFFICES ASSUME Init PROVE IInv
  OBVIOUS
<1> USE DEF Init, Empty, Abs!Fresh, Stepping
<1>1. pad \in Nat
  BY SchedulerAssumption
<1>2. \A t \in Thread : Abs!Stop(t, pad) \in Nat /\ Abs!Stop(t, pad) > 1
  BY <1>1, StopFacts
<1>3. Types
  <2>1. /\ threads \in [Thread -> [pc : Int, x : Int, did_stop : BOOLEAN]]
        /\ \A t \in Thread : threads[t].pc = 1
    OBVIOUS
  <2>2. ran \in [Thread -> Nat] /\ current_thread \in Thread
    BY DEF Thread
  <2>3. cpu \in Registers /\ policy \in [counter : Nat, param : Nat, is_ok : BOOLEAN]
    BY DEF Registers
  <2>4. \A t \in Thread : threads[t].pc \in 1 .. Abs!Stop(t, pad)
    BY <1>2, <2>1
  <2>5. LOCK \in Int /\ bvr \in Int /\ i \in Nat /\ phase = "idle"
    OBVIOUS
  <2>6. clash \in BOOLEAN
    BY Zenon
  <2> HIDE DEF Init
  <2> QED
    BY <1>1, <2>1, <2>2, <2>3, <2>4, <2>5, <2>6 DEF Types
<1>4. Saved /\ Between
  BY <1>2 DEF Saved, Between
<1>5. Verdict /\ Counted
  BY DEF Verdict, Counted
<1> QED
  BY <1>3, <1>4, <1>5 DEF IInv

(* run starts both tests afresh, with nothing executed and nothing seen. *)
LEMMA RunStep ==
  ASSUME IInv, run
  PROVE  IInv'
<1> USE DEF run, Empty, Abs!Fresh, Stepping, Loaded
<1>1. /\ pad' = pad /\ pad \in Nat /\ i \in Nat
  BY DEF IInv, Types
<1>2. \A t \in Thread : Abs!Stop(t, pad) \in Nat /\ Abs!Stop(t, pad) > 1
  BY <1>1, StopFacts
<1>3. Types'
  <2>1. /\ threads' \in [Thread -> [pc : Int, x : Int, did_stop : BOOLEAN]]
        /\ \A t \in Thread : threads'[t].pc = 1
    OBVIOUS
  <2>2. ran' \in [Thread -> Nat] /\ current_thread' \in Thread
    BY DEF Thread
  <2>3. cpu' \in Registers /\ policy' \in [counter : Nat, param : Nat, is_ok : BOOLEAN]
    BY <1>1 DEF Registers
  <2>4. current_thread' \in Thread /\ cpu'.pc = 1
    BY DEF Thread
  <2>5. \A t \in Thread : threads'[t].pc \in 1 .. Abs!Stop(t, pad)'
    BY <1>1, <1>2, <2>1
  <2>6. (cpu.pc)' \in 1 .. Abs!Stop(current_thread, pad)'
    BY <1>1, <1>2, <2>4
  <2>7. LOCK' \in Int /\ bvr' \in Int /\ i' \in Nat /\ phase' = "stepping"
    BY <1>1
  <2>8. clash' \in BOOLEAN
    BY Zenon
  <2> HIDE DEF run
  <2> QED
    BY <1>1, <2>1, <2>2, <2>3, <2>5, <2>6, <2>7, <2>8 DEF Types
<1>4. Saved' /\ Between'
  BY <1>1, <1>2 DEF Saved, Between, Thread
<1>5. Verdict' /\ Counted'
  BY <1>1 DEF Verdict, Counted, Thread
<1> QED
  BY <1>3, <1>4, <1>5 DEF IInv

(* An instruction moves the processor away from the breakpoint. *)
LEMMA ExecuteStep ==
  ASSUME IInv, Execute
  PROVE  IInv'
<1> DEFINE t == current_thread
           r == Abs!Ran(t, pad, cpu, LOCK)
<1>1. /\ t \in Thread /\ pad \in Nat /\ cpu \in Registers /\ LOCK \in Int
      /\ cpu.pc \in 1 .. Abs!Stop(t, pad) /\ cpu.pc # Abs!Stop(t, pad)
  BY DEF IInv, Types, Execute, AtStop, Stepping
<1>2. /\ r.ctx \in Registers /\ r.ctx.pc \in 1 .. Abs!Stop(t, pad)
      /\ r.ctx.pc # cpu.pc /\ r.lock \in Int
  BY <1>1, RanFacts
<1>3. /\ cpu' = r.ctx /\ LOCK' = r.lock /\ clash' = (clash \/ r.lock > 1)
      /\ ran' = [ran EXCEPT ![t] = @ + 1]
      /\ UNCHANGED <<pad, bvr, threads, current_thread, policy, phase, i, result_set>>
      /\ Stepping /\ Loaded
  BY DEF Execute, Stepping, Loaded
<1> HIDE DEF r
<1>4. Types'
  BY <1>1, <1>2, <1>3 DEF IInv, Types, Stepping, Thread
<1>5. Stepping' /\ ~Loaded'
  BY <1>2, <1>3 DEF Stepping, Loaded
<1>6. Saved' /\ Between'
  <2>1. ~threads[t].did_stop
    <3>1. cpu.pc = threads[t].pc
      BY <1>3 DEF IInv, Saved
    <3> QED
      BY <1>1, <3>1 DEF IInv, Saved
  <2> QED
    BY <2>1, <1>3, <1>5 DEF IInv, Saved, Between
<1>7. Verdict'
  BY <1>2, <1>3, <1>5 DEF IInv, Verdict, Types
<1>8. Counted'
  <2>1. ran'[t] = ran[t] + 1 /\ \A u \in Thread : u # t => ran'[u] = ran[u]
    BY <1>1, <1>3 DEF IInv, Types
  <2>2. \A u \in Thread : ran[u] \in Nat
    BY DEF IInv, Types
  <2>3. policy.counter \in Nat /\ policy.param \in Nat
    BY DEF IInv, Types
  <2>4. CASE t = 0
    <3>1. /\ ran'[0] = ran[0] + 1 /\ ran'[1] = ran[1] /\ ran[0] \in Nat /\ ran[1] \in Nat
          /\ current_thread' = 0 /\ threads' = threads /\ policy' = policy
      BY <2>1, <2>2, <2>4, <1>3 DEF Thread
    <3>2. /\ ran[1] = 0 => ran[0] + 1 = policy.counter /\ ran[0] < policy.param
          /\ ran[1] > 0 => threads[1].did_stop
          /\ ran[1] = 0 => ~threads[1].did_stop
      BY <2>4, <1>3 DEF IInv, Counted
    <3>3. (ran[1])' = 0 => (ran[0])' = (policy.counter)' /\ (ran[0])' <= (policy.param)'
      BY <2>3, <3>1, <3>2
    <3>4. /\ ((ran[1])' > 0 => (threads[1].did_stop)')
          /\ ((ran[1])' = 0 => ~(threads[1].did_stop)')
      BY <3>1, <3>2
    <3> QED
      BY <3>1, <3>3, <3>4, <1>5 DEF Counted
  <2>5. CASE t = 1
    <3>1. /\ ran'[0] = ran[0] /\ ran'[1] = ran[1] + 1 /\ ran[0] \in Nat /\ ran[1] \in Nat
          /\ current_thread' = 1 /\ threads' = threads /\ policy' = policy
      BY <2>1, <2>2, <2>5, <1>3 DEF Thread
    <3>2. /\ Preempted
          /\ policy.counter >= policy.param \/ threads[0].did_stop
      BY <2>5, <1>3 DEF IInv, Counted
    <3>3. Preempted'
      BY <3>1, <3>2 DEF Preempted
    <3>4. (ran[1])' > 0 /\ (ran[1])' # 0
      BY <3>1
    <3>5. (policy.counter >= policy.param \/ threads[0].did_stop)'
      BY <3>1, <3>2, Zenon
    <3> QED
      BY <3>1, <3>3, <3>4, <3>5, <1>5 DEF Counted
  <2> QED
    BY <1>1, <2>4, <2>5 DEF Thread
<1> QED
  BY <1>4, <1>6, <1>7, <1>8 DEF IInv

(* Once the first thread has been counted out, or is done, the policy      *)
(* chooses the second until that is done too.                              *)
LEMMA PolicyFacts ==
  ASSUME NEW p, NEW th
  PROVE  /\ next_thread(p, th) \in Thread
         /\ next_thread(p, th) = 1 =>
              ~th[1].did_stop /\ (~(p.counter < p.param) \/ th[0].did_stop)
         /\ next_thread(p, th) = 0 =>
              th[1].did_stop \/ (p.counter < p.param /\ ~th[0].did_stop)
  BY DEF next_thread, Thread

(* The handler saves the thread where it is and loads the one chosen. *)
LEMMA NextInstructionStep ==
  ASSUME IInv, next_instruction
  PROVE  IInv'
<1> DEFINE c == current_thread
           saved == [threads EXCEPT ![c] =
                       [pc |-> cpu.pc, x |-> cpu.x, did_stop |-> @.did_stop \/ AtStop(c)]]
           n == next_thread(policy, saved)
<1>1. /\ c \in Thread /\ pad \in Nat /\ cpu \in Registers /\ LOCK \in Int
      /\ threads \in [Thread -> [pc : Int, x : Int, did_stop : BOOLEAN]]
      /\ policy \in [counter : Nat, param : Nat, is_ok : BOOLEAN]
      /\ cpu.pc \in 1 .. Abs!Stop(c, pad)
      /\ \A t \in Thread : threads[t].pc \in 1 .. Abs!Stop(t, pad)
      /\ \A t \in Thread : ran[t] \in Nat
  BY DEF IInv, Types, next_instruction, Stepping
<1>2. Stepping /\ ~Loaded
  BY DEF next_instruction, Stepping, Loaded
<1>3. /\ threads' = saved /\ current_thread' = n
      /\ cpu' = [pc |-> saved[n].pc, x |-> saved[n].x] /\ bvr' = saved[n].pc
      /\ UNCHANGED <<pad, LOCK, phase, i, result_set, ran, clash>>
  BY DEF next_instruction
<1>4. policy' = [counter |-> policy.counter + 1, param |-> policy.param,
                 is_ok |-> policy.is_ok /\ LOCK <= 1]
  <2>1. policy' = check([policy EXCEPT !.counter = @ + 1])
    BY DEF next_instruction
  <2>2. [policy EXCEPT !.counter = @ + 1] =
          [counter |-> policy.counter + 1, param |-> policy.param, is_ok |-> policy.is_ok]
    BY <1>1
  <2> QED
    BY <2>1, <2>2 DEF check
<1>5. ~threads[c].did_stop
  BY <1>2 DEF IInv, Saved
<1>6. /\ saved[c] = [pc |-> cpu.pc, x |-> cpu.x, did_stop |-> AtStop(c)]
      /\ \A t \in Thread : t # c => saved[t] = threads[t]
  <2>1. (threads[c].did_stop \/ AtStop(c)) = AtStop(c)
    BY <1>5 DEF AtStop
  <2> QED
    BY <1>1, <2>1
<1>7. saved \in [Thread -> [pc : Int, x : Int, did_stop : BOOLEAN]]
  <2>1. [pc |-> cpu.pc, x |-> cpu.x, did_stop |-> threads[c].did_stop \/ AtStop(c)]
          \in [pc : Int, x : Int, did_stop : BOOLEAN]
    BY <1>1 DEF Registers
  <2> QED
    BY <1>1, <2>1
<1>8. \A t \in Thread : saved[t].did_stop <=> saved[t].pc = Abs!Stop(t, pad)
  <2>1. saved[c].did_stop <=> saved[c].pc = Abs!Stop(c, pad)
    <3>1. saved[c].did_stop = AtStop(c) /\ saved[c].pc = cpu.pc
      BY <1>6
    <3> QED
      BY <3>1, Zenon DEF AtStop
  <2>2. \A t \in Thread : threads[t].did_stop <=> threads[t].pc = Abs!Stop(t, pad)
    BY DEF IInv, Saved
  <2> QED
    BY <1>6, <2>1, <2>2
<1>9. \A t \in Thread : saved[t].pc \in 1 .. Abs!Stop(t, pad)
  BY <1>1, <1>6
<1>10. /\ n \in Thread
       /\ n = 1 => ~saved[1].did_stop /\ (~(policy.counter < policy.param) \/ saved[0].did_stop)
       /\ n = 0 => saved[1].did_stop \/ (policy.counter < policy.param /\ ~saved[0].did_stop)
  BY PolicyFacts
<1> HIDE DEF saved, n
<1>11. Stepping' /\ Loaded'
  BY <1>2, <1>3 DEF Stepping, Loaded
<1>12. Types'
  <2>1. cpu' \in Registers /\ bvr' \in Int /\ (cpu.pc)' \in 1 .. Abs!Stop(n, pad)
    BY <1>3, <1>7, <1>9, <1>10 DEF Registers
  <2>2. policy' \in [counter : Nat, param : Nat, is_ok : BOOLEAN]
    BY <1>1, <1>4
  <2> QED
    BY <2>1, <2>2, <1>1, <1>3, <1>7, <1>9, <1>10 DEF IInv, Types
<1>13. Saved' /\ Between'
  <2>1. (cpu.pc = threads[current_thread].pc /\ cpu.x = threads[current_thread].x)'
    BY <1>3
  <2> QED
    BY <2>1, <1>3, <1>8, <1>10, <1>11 DEF Saved, Between
<1>14. Verdict'
  BY <1>2, <1>3, <1>4, <1>11 DEF IInv, Verdict
<1>15. Counted'
  <2>1. ran[1] = 0 => c = 0 /\ ~saved[1].did_stop
    <3>1. c = 1 => ran[1] > 0
      BY <1>2 DEF IInv, Counted
    <3>2. ran[1] = 0 => ~threads[1].did_stop
      BY <1>2 DEF IInv, Counted
    <3> QED
      BY <3>1, <3>2, <1>1, <1>6 DEF Thread
  <2>2. ran[1] = 0 => ran[0] = policy.counter /\ ran[0] <= policy.param
    BY <2>1, <1>2 DEF IInv, Counted
  <2>3. ran[1] > 0 /\ c = 0 => saved[1].did_stop
    BY <1>2, <1>6 DEF IInv, Counted, Thread
  <2>4. c = 1 => Preempted /\ (policy.counter >= policy.param \/ threads[0].did_stop)
    BY <1>2 DEF IInv, Counted
  <2>5. c = 1 => saved[0] = threads[0]
    BY <1>6 DEF Thread
  <2>6. CASE n = 0
    <3>1. ran[1] = 0 => policy.counter < policy.param
      BY <1>10, <2>1, <2>6
    <3>2. ran[1] > 0 => saved[1].did_stop
      BY <1>1, <1>10, <2>3, <2>4, <2>5, <2>6 DEF Thread
    <3>3. /\ (ran[1])' = 0 =>
               /\ (ran[0])' <= (policy.param)'
               /\ (ran[0])' + 1 = (policy.counter)' /\ (ran[0])' < (policy.param)'
      BY <1>1, <1>3, <1>4, <2>2, <3>1
    <3>4. /\ (ran[1])' > 0 => (threads[1].did_stop)'
          /\ (ran[1])' = 0 => ~(threads[1].did_stop)'
      BY <1>3, <2>1, <3>2
    <3> QED
      BY <2>6, <3>3, <3>4, <1>3, <1>11 DEF Counted
  <2>7. CASE n = 1
    <3>1. Preempted'
      <4>1. CASE c = 0
        <5>1. ran[1] = 0
          BY <1>1, <1>10, <2>3, <2>7, <4>1 DEF Thread
        <5>2. ran[0] = policy.param \/ (saved[0].did_stop /\ ran[0] < policy.param)
          <6>1. ran[0] = policy.counter /\ ran[0] <= policy.param
            BY <2>2, <5>1
          <6>2. ~(policy.counter < policy.param) \/ saved[0].did_stop
            BY <1>10, <2>7
          <6>3. policy.counter \in Nat /\ policy.param \in Nat
            BY <1>1
          <6>4. ~(policy.counter < policy.param) => ran[0] = policy.param
            BY <6>1, <6>3
          <6>5. ran[0] = policy.param \/ ran[0] < policy.param
            BY <6>1, <6>3
          <6> QED
            BY <6>2, <6>4, <6>5, Zenon
        <5> QED
          BY <1>3, <1>4, <5>2 DEF Preempted
      <4>2. CASE c = 1
        BY <1>3, <1>4, <2>4, <2>5, <4>2 DEF Preempted
      <4> QED
        BY <1>1, <4>1, <4>2 DEF Thread
    <3>2. (policy.counter >= policy.param \/ threads[0].did_stop)'
      BY <1>1, <1>3, <1>4, <1>10, <2>7
    <3>3. (ran[1])' = 0 => ~(threads[1].did_stop)'
      BY <1>3, <2>1
    <3> QED
      BY <2>7, <3>1, <3>2, <3>3, <1>3, <1>11 DEF Counted
  <2> QED
    BY <1>10, <2>6, <2>7 DEF Thread
<1> QED
  BY <1>12, <1>13, <1>14, <1>15 DEF IInv

(* Only thread 0 leaves through _interleave_stop, after both got there: it *)
(* is loaded there only when there is nothing left to do.                  *)
LEMMA AtTheEnd ==
  ASSUME IInv, Return
  PROVE  current_thread = 0 /\ \A t \in Thread : threads[t].did_stop
<1>1. Stepping /\ Loaded /\ current_thread \in Thread
  BY DEF IInv, Types, Return, Stepping, Loaded
<1>2. cpu.pc = threads[current_thread].pc /\ AtStop(current_thread)
  BY <1>1 DEF IInv, Saved, Return
<1>3. threads[current_thread].did_stop
  BY <1>1, <1>2 DEF IInv, Saved, AtStop
<1>4. /\ current_thread = 1 => ~threads[1].did_stop
      /\ threads[0].did_stop /\ current_thread = 0 => threads[1].did_stop
  BY <1>1 DEF IInv, Saved
<1> QED
  BY <1>1, <1>3, <1>4, Zenon DEF Thread

(* Return: run ends with both threads stopped, and the next one may begin. *)
LEMMA ReturnStep ==
  ASSUME IInv, Return
  PROVE  IInv'
<1>1. current_thread = 0 /\ \A t \in Thread : threads[t].did_stop
  BY AtTheEnd
<1>2. /\ phase' = "idle" /\ i' = i + 1
      /\ UNCHANGED <<pad, LOCK, cpu, bvr, threads, current_thread, policy, ran, clash>>
  BY <1>1 DEF Return, machine
<1>3. ~Stepping'
  BY <1>2 DEF Stepping
<1>4. Types'
  BY <1>2, <1>3 DEF IInv, Types
<1>5. Saved' /\ Between'
  <2>1. \A t \in Thread : threads[t].did_stop <=> threads[t].pc = Abs!Stop(t, pad)
    BY DEF IInv, Saved
  <2> QED
    BY <1>1, <1>2, <1>3, <2>1 DEF Saved, Between
<1>6. Verdict' /\ Counted'
  BY <1>3 DEF Verdict, Counted
<1> QED
  BY <1>4, <1>5, <1>6 DEF IInv

(* Every step keeps the invariant. *)
LEMMA Inductive ==
  ASSUME IInv, [Next]_vars
  PROVE  IInv'
<1>1. CASE UNCHANGED vars
  BY <1>1 DEF vars, machine, IInv, Types, Saved, Between, Verdict, Counted,
              Preempted, Stepping, Loaded
<1> QED
  BY <1>1, RunStep, ExecuteStep, NextInstructionStep, ReturnStep DEF Next

(* The invariant holds throughout. *)
LEMMA IInvAlways == Spec => []IInv
  BY IInvInit, Inductive, PTL DEF Spec

-----------------------------------------------------------------------------
(* Every run of the checker gives its verdict on all the instructions it   *)
(* stepped through: LabPolicyAba::check sees LOCK after each of them, the  *)
(* last of a thread included.                                              *)
THEOREM VerdictIsExact == Spec => []VerdictExact
<1>1. IInv => VerdictExact
  BY DEF IInv, Verdict, VerdictExact, Stepping, Loaded
<1> QED
  BY <1>1, IInvAlways, PTL

(* LabPolicyAba::next_thread takes the processor from the first test once, *)
(* after the instructions the run is about, whatever the length of either. *)
THEOREM FirstTestPreemptedOnce == Spec => []PreemptedOnce
<1>1. IInv => PreemptedOnce
  <2>1. ASSUME IInv, Stepping, ran[1] > 0, ~threads[1].did_stop
        PROVE  Preempted
    <3>1. current_thread = 1
      BY <2>1 DEF IInv, Types, Counted, Thread
    <3> QED
      BY <2>1, <3>1 DEF IInv, Counted
  <2> QED
    BY <2>1 DEF PreemptedOnce, Preempted, Stepping
<1> QED
  BY <1>1, IInvAlways, PTL

-----------------------------------------------------------------------------
(* The refinement: every thread's registers, wherever they are kept. *)

Contexts == [t \in {0, 1} |-> Context(t)]
absVars == <<pad, LOCK, Contexts>>

(* Before the first run nothing is saved but fresh registers. *)
LEMMA AbsInit == Init => Abs!Init
  BY DEF Init, Abs!Init, Abs!Thread, Thread, Empty, Abs!Fresh, Context

(* run is a restart, or the first start, which shows nothing. *)
LEMMA RunRefines ==
  ASSUME IInv, run
  PROVE  Abs!Restart \/ UNCHANGED absVars
<1>1. ~Stepping /\ pad' = pad /\ LOCK' = 0 /\ phase = "idle"
  BY DEF run, Stepping
<1>2. Contexts' = [t \in {0, 1} |-> Abs!Fresh]
  <2>1. \A t \in {0, 1} : (Context(t))' = Abs!Fresh
    BY DEF run, Context, Empty, Abs!Fresh, Thread
  <2> QED
    BY <2>1 DEF Contexts
<1>3. \A t \in {0, 1} : Context(t) = [pc |-> threads[t].pc, x |-> threads[t].x]
  BY <1>1 DEF Context
<1>4. CASE \A t \in Thread : threads[t].did_stop
  <2>1. \A t \in Thread : threads[t].pc = Abs!Stop(t, pad)
    BY <1>4 DEF IInv, Saved
  <2>2. \A t \in Abs!Thread : Contexts[t].pc = Abs!Stop(t, pad)
    BY <1>3, <2>1 DEF Contexts, Abs!Thread, Thread
  <2> QED
    BY <1>1, <1>2, <2>2 DEF Abs!Restart, Abs!Thread, Contexts
<1>5. CASE threads = [t \in Thread |-> Empty] /\ LOCK = 0
  <2>1. Contexts = [t \in {0, 1} |-> Abs!Fresh]
    BY <1>3, <1>5 DEF Contexts, Empty, Abs!Fresh, Thread
  <2> QED
    BY <1>1, <1>2, <1>5, <2>1 DEF absVars
<1> QED
  BY <1>1, <1>4, <1>5 DEF IInv, Between

(* An instruction of the processor is one of the thread that is loaded. *)
LEMMA ExecuteRefines ==
  ASSUME IInv, Execute
  PROVE  \E t \in Abs!Thread : Abs!Instruction(t)
<1> DEFINE c == current_thread
<1>1. /\ c \in {0, 1} /\ phase = "stepping" /\ phase' = phase
      /\ current_thread' = c /\ threads' = threads /\ pad' = pad
      /\ cpu.pc # Abs!Stop(c, pad)
      /\ cpu' = Abs!Ran(c, pad, cpu, LOCK).ctx
      /\ LOCK' = Abs!Ran(c, pad, cpu, LOCK).lock
  BY DEF IInv, Types, Execute, AtStop, Thread
<1>2. Context(c) = cpu /\ (Context(c))' = cpu'
  BY <1>1 DEF Context
<1>3. \A t \in {0, 1} : t # c => (Context(t))' = Context(t)
  BY <1>1 DEF Context
<1>4. Contexts[c] = cpu
  BY <1>1, <1>2 DEF Contexts
<1>5. Contexts' = [Contexts EXCEPT ![c] = Abs!Ran(c, pad, cpu, LOCK).ctx]
  BY <1>1, <1>2, <1>3 DEF Contexts
<1>6. Abs!Instruction(c)
  BY <1>1, <1>4, <1>5 DEF Abs!Instruction, Contexts
<1> QED
  BY <1>1, <1>6 DEF Abs!Thread

(* Saving one thread and loading another leaves every register alone. *)
LEMMA NextInstructionRefines ==
  ASSUME IInv, next_instruction
  PROVE  UNCHANGED absVars
<1> DEFINE c == current_thread
           saved == [threads EXCEPT ![c] =
                       [pc |-> cpu.pc, x |-> cpu.x, did_stop |-> @.did_stop \/ AtStop(c)]]
           n == next_thread(policy, saved)
<1>1. /\ c \in {0, 1} /\ cpu = [pc |-> cpu.pc, x |-> cpu.x]
      /\ threads \in [{0, 1} -> [pc : Int, x : Int, did_stop : BOOLEAN]]
  BY DEF IInv, Types, Registers, Thread
<1>2. /\ phase = "stepping" /\ phase' = phase /\ pad' = pad /\ LOCK' = LOCK
      /\ threads' = saved /\ current_thread' = n
      /\ cpu' = [pc |-> saved[n].pc, x |-> saved[n].x]
  BY DEF next_instruction
<1>3. \A t \in {0, 1} : Context(t) = [pc |-> saved[t].pc, x |-> saved[t].x]
  BY <1>1, <1>2 DEF Context
<1>4. \A t \in {0, 1} : (Context(t))' = [pc |-> saved[t].pc, x |-> saved[t].x]
  BY <1>2 DEF Context
<1> HIDE DEF saved
<1> QED
  BY <1>2, <1>3, <1>4 DEF absVars, Contexts

(* Nor does the return from run touch one. *)
LEMMA ReturnRefines ==
  ASSUME IInv, Return
  PROVE  UNCHANGED absVars
<1>1. /\ phase = "stepping" /\ phase' = "idle" /\ current_thread = 0
      /\ UNCHANGED <<pad, LOCK, cpu, bvr, threads, current_thread, policy>>
  BY AtTheEnd DEF Return, machine
<1>2. cpu = [pc |-> threads[0].pc, x |-> threads[0].x]
  <2>1. cpu.pc = threads[0].pc /\ cpu.x = threads[0].x
    BY <1>1 DEF IInv, Saved, Return, Stepping, Loaded
  <2> QED
    BY <2>1 DEF IInv, Types, Registers
<1>3. \A t \in {0, 1} : (Context(t))' = Context(t)
  BY <1>1, <1>2 DEF Context
<1> QED
  BY <1>1, <1>3 DEF absVars, Contexts

(* bismuth's checker runs the two tests as two threads with registers of   *)
(* their own: every step of the handler and of the policy is invisible to  *)
(* them, and a test begins again only after both have returned.            *)
THEOREM SteppingInterleaves == Spec => ImplementsInterleaving
<1>1. ASSUME IInv, [Next]_vars
      PROVE  [Abs!Next]_absVars
  <2>1. CASE UNCHANGED vars
    BY <2>1 DEF vars, machine, absVars, Contexts, Context
  <2> QED
    BY <1>1, <2>1, RunRefines, ExecuteRefines, NextInstructionRefines, ReturnRefines
       DEF Next, Abs!Next
<1>2. [Abs!Next]_absVars => [Abs!Next]_<<pad, LOCK, [t \in {0, 1} |-> Context(t)]>>
  BY DEF absVars, Contexts
<1> QED
  BY <1>1, <1>2, AbsInit, IInvAlways, PTL DEF Spec, ImplementsInterleaving, Abs!Spec
=============================================================================
