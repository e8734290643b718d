---------------------------- MODULE MCTicketLock ----------------------------
(* Threads that lock, try and unlock a word with a few tickets only. *)
EXTENDS TicketLock

CONSTANTS t1, t2, t3

TwoThreads   == {t1, t2}
ThreeThreads == {t1, t2, t3}
=============================================================================
