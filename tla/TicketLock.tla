----------------------------- MODULE TicketLock -----------------------------
(***************************************************************************)
(* The ticket lock of quartz (arch/arm1176/sync/ticket.rs), one step per    *)
(* access to memory.  The lock is a 32-bit word whose lower half is the    *)
(* ticket being served and whose upper half the next one to be drawn.      *)
(* okboot's critical sections are this lock.                               *)
(***************************************************************************)
EXTENDS Integers, FiniteSets

CONSTANTS
  Threads,   \* each with its own registers, exclusive monitor and event register
  Half,      \* values of a half of the word: 2^16
  MaxCalls   \* bound on the calls one thread makes

ASSUME TicketAssumption == Half \in Nat /\ MaxCalls \in Nat

(* Every thread can wait at once without the tickets running out. *)
ASSUME FewThreads == IsFiniteSet(Threads) /\ Cardinality(Threads) + 1 < Half

HalfWord == 0 .. Half - 1
Raw      == [owner : HalfWord, next : HalfWord]

VARIABLES
  raw,      \* the word
  pc,       \* where each thread is
  val,      \* raw_val of lock: what the thread last read of the word
  monitor,  \* threads whose exclusive access is still good
  event,    \* threads whose event register is set
  calls     \* calls each thread has made

vars == <<raw, pc, val, monitor, event, calls>>

TypeOK ==
  /\ raw \in Raw
  /\ pc \in [Threads -> {"idle", "lock", "strex", "test", "wfe", "load",
                         "try", "try_strex", "locked", "sev"}]
  /\ val \in [Threads -> Raw]
  /\ monitor \in SUBSET Threads /\ event \in SUBSET Threads
  /\ calls \in [Threads -> 0 .. MaxCalls]

Init ==
  /\ raw = [owner |-> 0, next |-> 0]
  /\ pc = [t \in Threads |-> "idle"] /\ val = [t \in Threads |-> raw]
  /\ monitor = {} /\ event = {}
  /\ calls = [t \in Threads |-> 0]

-----------------------------------------------------------------------------
(* 32-bit additions to the word *)

Inc(h) == IF h = Half - 1 THEN 0 ELSE h + 1

(* + NEXT_LSB: out of the upper half the carry is lost *)
DrawFrom(r) == [r EXCEPT !.next = Inc(@)]

(* + 1: out of the lower half the carry goes into the upper one *)
Serve(r) ==
  [owner |-> Inc(r.owner), next |-> IF r.owner = Half - 1 THEN Inc(r.next) ELSE r.next]

Goto(t, l) == pc' = [pc EXCEPT ![t] = l]

(* A new call, or the loop of the one under way *)
Begin(t, loop) ==
  \/ pc[t] = "idle" /\ calls[t] < MaxCalls /\ calls' = [calls EXCEPT ![t] = @ + 1]
  \/ pc[t] = loop /\ UNCHANGED calls

-----------------------------------------------------------------------------
(* lock *)

Ldrex(t) ==
  /\ Begin(t, "lock") /\ Goto(t, "strex")
  /\ val' = [val EXCEPT ![t] = raw] /\ monitor' = monitor \cup {t}
  /\ UNCHANGED <<raw, event>>

StrexUnchecked(t) ==   \* mutant: bne is missing
  /\ pc[t] = "strex" /\ Goto(t, "test")
  /\ raw' = IF t \in monitor THEN DrawFrom(val[t]) ELSE raw
  /\ monitor' = IF t \in monitor THEN {} ELSE monitor
  /\ UNCHANGED <<val, event, calls>>

(* A store ends the exclusive accesses of all. *)
Strex(t) ==
  /\ pc[t] = "strex"
  /\ \/ /\ t \in monitor /\ Goto(t, "test")
        /\ raw' = DrawFrom(val[t]) /\ monitor' = {}
     \/ /\ t \notin monitor /\ Goto(t, "lock")
        /\ UNCHANGED <<raw, monitor>>
  /\ UNCHANGED <<val, event, calls>>

TestTicketPassed(t) ==   \* mutant: numbers that wrap are compared by size
  /\ pc[t] = "test"
  /\ Goto(t, IF val[t].owner >= val[t].next THEN "locked" ELSE "wfe")
  /\ UNCHANGED <<raw, val, monitor, event, calls>>

TestTicket(t) ==
  /\ pc[t] = "test"
  /\ Goto(t, IF val[t].owner = val[t].next THEN "locked" ELSE "wfe")
  /\ UNCHANGED <<raw, val, monitor, event, calls>>

(* wfe returns when the event register is set, or on an interrupt *)
Wfe(t) ==
  /\ pc[t] = "wfe" /\ Goto(t, "load")
  /\ event' = event \ {t}
  /\ UNCHANGED <<raw, val, monitor, calls>>

LoadOwner(t) ==
  /\ pc[t] = "load" /\ Goto(t, "test")
  /\ val' = [val EXCEPT ![t].owner = raw.owner]
  /\ UNCHANGED <<raw, monitor, event, calls>>

-----------------------------------------------------------------------------
(* try_lock *)

TryLdrex(t) ==
  /\ Begin(t, "try")
  /\ Goto(t, IF raw.owner = raw.next THEN "try_strex" ELSE "idle")
  /\ val' = [val EXCEPT ![t] = raw] /\ monitor' = monitor \cup {t}
  /\ UNCHANGED <<raw, event>>

TryStrex(t) ==
  /\ pc[t] = "try_strex"
  /\ \/ /\ t \in monitor /\ Goto(t, "locked")
        /\ raw' = DrawFrom(val[t]) /\ monitor' = {}
     \/ /\ t \notin monitor /\ Goto(t, "try")
        /\ UNCHANGED <<raw, monitor>>
  /\ UNCHANGED <<val, event, calls>>

-----------------------------------------------------------------------------
(* unlock *)

Unlock(t) ==   \* atomic_xadd
  /\ pc[t] = "locked" /\ Goto(t, "sev")
  /\ raw' = Serve(raw) /\ monitor' = {}
  /\ UNCHANGED <<val, event, calls>>

UnlockWithoutSev(t) ==   \* mutant
  /\ pc[t] = "sev" /\ Goto(t, "idle")
  /\ UNCHANGED <<raw, val, monitor, event, calls>>

Sev(t) ==
  /\ pc[t] = "sev" /\ Goto(t, "idle")
  /\ event' = Threads
  /\ UNCHANGED <<raw, val, monitor, calls>>

-----------------------------------------------------------------------------
LockStep(t) == Ldrex(t) \/ Strex(t) \/ TestTicket(t) \/ Wfe(t) \/ LoadOwner(t)
TryStep(t)  == TryLdrex(t) \/ TryStrex(t)
FreeStep(t) == Unlock(t) \/ Sev(t)

Next == \E t \in Threads : LockStep(t) \/ TryStep(t) \/ FreeStep(t)

Spec == Init /\ [][Next]_vars

(***************************************************************************)
(* A thread that has begun goes on, unless it sleeps in wfe and its event   *)
(* register is clear, and who holds the lock gives it back.                *)
(***************************************************************************)
Running(t) ==
  /\ pc[t] # "idle" /\ (pc[t] = "wfe" => t \in event)
  /\ LockStep(t) \/ TryStep(t) \/ FreeStep(t)

FairSpec == Spec /\ \A t \in Threads : WF_vars(Running(t))

-----------------------------------------------------------------------------
(* Properties *)

Line   == {t \in Threads : pc[t] \in {"test", "wfe", "load", "locked"}}
Inside == {t \in Threads : pc[t] = "locked"}

(* How many tickets are served before h, counting from the present one *)
Distance(h) == IF h >= raw.owner THEN h - raw.owner ELSE h + Half - raw.owner

(* The lock excludes: two threads never hold it at once (RawMutex::lock). *)
MutualExclusion == \A t, u \in Inside : t = u

(* Who is served before each thread in line *)
Ranked == [t \in Line |-> {u \in Line : Distance(val[u].next) < Distance(val[t].next)}]

Fair == INSTANCE FairLock WITH ahead <- Ranked, inside <- Inside

(***************************************************************************)
(* Threads enter in the order of their draws, whatever the exclusive        *)
(* stores, the wake-ups and the wrap-around of the two halves do in        *)
(* between, and try_lock never overtakes anyone (RawMutexFair).            *)
(***************************************************************************)
ImplementsFairLock == Fair!Spec

(* A thread that drew a ticket gets the lock, in a bounded number of turns  *)
(* (RawMutexFair): no wake-up is lost and no ticket is skipped.            *)
WaiterEnters == \A t \in Threads : t \in Line ~> t \in Inside

(* The carry out of `owner` has left a ticket that nobody will draw. *)
TicketLost == Distance(raw.next) # Cardinality(Line)

(***************************************************************************)
(* Until a ticket is lost, a thread that drew one gets the lock: no         *)
(* release and no event slips between its look at `owner` and its wfe.     *)
(***************************************************************************)
NoWakeupLost == \A t \in Threads : t \in Line ~> t \in Inside \/ TicketLost
=============================================================================
