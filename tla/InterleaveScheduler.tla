------------------------ MODULE InterleaveScheduler ------------------------
(***************************************************************************)
(* bismuth's interleave checker (app/debug.rs): a mismatch breakpoint lets *)
(* one instruction of a thread run and then raises a prefetch abort; the   *)
(* abort handler saves the thread, asks the policy which one goes next,    *)
(* looks at LOCK and loads the thread chosen.  debug_init_singlestep runs  *)
(* the two tests once for every number of instructions the first of them   *)
(* gets before the second one runs.                                        *)
(*                                                                         *)
(* The instructions after _interleave_stop, up to the swi that elevates    *)
(* thread 0 back into InterleaveScheduler::run, are one step.              *)
(***************************************************************************)
EXTENDS Integers, Sequences

CONSTANTS
  MaxPad,
  Runs     \* of debug_init_singlestep's loop: 10

ASSUME SchedulerAssumption == MaxPad \in Nat /\ Runs \in Nat

VARIABLES
  pad,
  LOCK,
  cpu,              \* the registers of the thread that runs
  bvr,              \* breakpoint_value_register_0
  threads,          \* as saved: registers and did_stop
  current_thread,
  policy,           \* LabPolicyAba
  phase,            \* "idle", "stepping", or "lost": jumped to address 0
  i,                \* the loop's variable
  result_set,
  ran,              \* history: instructions each thread has executed
  clash             \* history: LOCK was above 1 in this run

machine == <<LOCK, cpu, bvr, threads, current_thread, policy>>
vars == <<pad, machine, phase, i, result_set, ran, clash>>

(***************************************************************************)
(* A thread's registers: in the processor while it runs.                   *)
(***************************************************************************)
Context(t) ==
  IF t = current_thread /\ phase # "idle" THEN cpu
  ELSE [pc |-> threads[t].pc, x |-> threads[t].x]

Abs == INSTANCE Interleaving WITH lock <- LOCK, ctx <- [t \in {0, 1} |-> Context(t)]

Thread == {0, 1}
Empty == [pc |-> 1, x |-> 0, did_stop |-> FALSE]
AtStop(t) == cpu.pc = Abs!Stop(t, pad)

Init ==
  /\ pad \in 0 .. MaxPad
  /\ LOCK = 0 /\ cpu = Abs!Fresh /\ bvr = 0
  /\ threads = [t \in Thread |-> Empty] /\ current_thread = 0
  /\ policy = [counter |-> 0, param |-> 0, is_ok |-> TRUE]
  /\ phase = "idle" /\ i = 0 /\ result_set = {}
  /\ ran = [t \in Thread |-> 0] /\ clash = FALSE

(***************************************************************************)
(* InterleaveScheduler::run, up to the rfe into _interleave_wrap.  Address *)
(* 0 mismatches every instruction, so the first one already aborts.        *)
(***************************************************************************)
\* Mutant: every run is about the same point
run_same ==
  /\ phase = "idle" /\ i < Runs
  /\ phase' = "stepping"
  /\ current_thread' = 0 /\ threads' = [t \in Thread |-> Empty]
  /\ policy' = [counter |-> 0, param |-> 0, is_ok |-> TRUE]
  /\ LOCK' = 0
  /\ bvr' = 0
  /\ cpu' = Abs!Fresh
  /\ ran' = [t \in Thread |-> 0] /\ clash' = FALSE
  /\ UNCHANGED <<pad, i, result_set>>

run ==
  /\ phase = "idle" /\ i < Runs
  /\ phase' = "stepping"
  /\ current_thread' = 0 /\ threads' = [t \in Thread |-> Empty]
  /\ policy' = [counter |-> 0, param |-> i, is_ok |-> TRUE]
  /\ LOCK' = 0                       \* LabPolicyAba::init
  /\ bvr' = 0
  /\ cpu' = Abs!Fresh
  /\ ran' = [t \in Thread |-> 0] /\ clash' = FALSE
  /\ UNCHANGED <<pad, i, result_set>>

(***************************************************************************)
(* The processor: the instruction at the breakpoint's address runs.        *)
(***************************************************************************)
Execute ==
  LET t == current_thread
      r == Abs!Ran(t, pad, cpu, LOCK)
  IN  /\ phase = "stepping" /\ cpu.pc = bvr /\ ~AtStop(t)
      /\ cpu' = r.ctx /\ LOCK' = r.lock
      /\ ran' = [ran EXCEPT ![t] = @ + 1]
      /\ clash' = (clash \/ r.lock > 1)
      /\ UNCHANGED <<pad, bvr, threads, current_thread, policy, phase, i, result_set>>

(***************************************************************************)
(* LabPolicyAba::next_thread; next_instruction goes on with thread 0 when  *)
(* there is none.                                                          *)
(***************************************************************************)
\* Mutant: with both at their end, the second goes on
next_thread_second(p, th) ==
  IF p.counter < p.param /\ ~th[0].did_stop THEN 0
  ELSE IF ~th[1].did_stop \/ th[0].did_stop THEN 1
  ELSE 0

\* Mutant: counts from 1
next_thread_late(p, th) ==
  IF p.counter <= p.param /\ ~th[0].did_stop THEN 0
  ELSE IF ~th[1].did_stop THEN 1
  ELSE 0

next_thread(p, th) ==
  IF p.counter < p.param /\ ~th[0].did_stop THEN 0
  ELSE IF ~th[1].did_stop THEN 1
  ELSE 0

\* Mutant: LabPolicyAba::check forgets an earlier failure
check_last(p) == [p EXCEPT !.is_ok = LOCK <= 1]

\* LabPolicyAba::check
check(p) == [p EXCEPT !.is_ok = @ /\ LOCK <= 1]

(***************************************************************************)
(* prefetch_abort and InterleaveScheduler::next_instruction                *)
(***************************************************************************)
\* Mutant: a thread is saved with the registers of the one chosen
next_instruction_mixed ==
  LET stopped == [threads EXCEPT ![current_thread].did_stop = @ \/ AtStop(current_thread)]
      n == next_thread(policy, stopped)
      saved == [stopped EXCEPT ![n].pc = cpu.pc, ![n].x = cpu.x]
  IN  /\ phase = "stepping" /\ cpu.pc # bvr
      /\ threads' = saved /\ current_thread' = n
      /\ policy' = check([policy EXCEPT !.counter = @ + 1])
      /\ cpu' = [pc |-> saved[n].pc, x |-> saved[n].x]
      /\ bvr' = saved[n].pc
      /\ UNCHANGED <<pad, LOCK, phase, i, result_set, ran, clash>>

next_instruction ==
  LET saved == [threads EXCEPT ![current_thread] =
                  [pc |-> cpu.pc, x |-> cpu.x, did_stop |-> @.did_stop \/ AtStop(current_thread)]]
      n == next_thread(policy, saved)
  IN  /\ phase = "stepping" /\ cpu.pc # bvr
      /\ threads' = saved /\ current_thread' = n
      /\ policy' = check([policy EXCEPT !.counter = @ + 1])
      /\ cpu' = [pc |-> saved[n].pc, x |-> saved[n].x]
      /\ bvr' = saved[n].pc
      /\ UNCHANGED <<pad, LOCK, phase, i, result_set, ran, clash>>

(***************************************************************************)
(* Past _interleave_stop.  Thread 0 was given run's return address and     *)
(* mode, and leaves through swi 13; thread 1 was given zeros.              *)
(***************************************************************************)
Return ==
  /\ phase = "stepping" /\ cpu.pc = bvr /\ AtStop(current_thread)
  /\ IF current_thread = 0
     THEN /\ phase' = "idle" /\ i' = i + 1
          /\ result_set' = result_set \cup {policy.is_ok}
     ELSE /\ phase' = "lost" /\ UNCHANGED <<i, result_set>>
  /\ UNCHANGED <<pad, machine, ran, clash>>

Next == run \/ Execute \/ next_instruction \/ Return

Spec == Init /\ [][Next]_vars
FairSpec == Spec /\ WF_vars(Next)

-----------------------------------------------------------------------------
\* Stepping is invisible to the threads: whatever the handler saves and loads,
\* each goes on with its own registers, one instruction at a time, and a run
\* begins only after both tests of the one before have returned.
ImplementsInterleaving == Abs!Spec

\* While the second test runs, the first has executed exactly the number of
\* instructions this run is about, or all it had: every run preempts it once
\* and every point of preemption gets a run of its own.
PreemptedOnce ==
  phase = "stepping" /\ ran[1] > 0 /\ ~threads[1].did_stop =>
    \/ ran[0] = policy.param
    \/ threads[0].did_stop /\ ran[0] < policy.param

\* The verdict of a run is about all of it: a clash after any instruction of
\* either thread, the last included, makes it negative, and nothing else does.
VerdictExact == phase = "stepping" /\ cpu.pc = bvr => (policy.is_ok <=> ~clash)

\* The checker finds the race in trylock, between its two loads, and a
\* schedule in which the lock does its work, however the tests are compiled.
RaceFound == i = Runs => result_set = BOOLEAN

\* Every run ends, and so does the loop over them: nobody leaves through
\* _interleave_stop with the zeros thread 1 was given, because it is never
\* resumed once it got there.
LoopEnds == <>(phase = "idle" /\ i = Runs)
=============================================================================
