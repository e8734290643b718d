----------------------------- MODULE MCOnceLock -----------------------------
(* Threads racing to initialise one cell. *)
EXTENDS OnceLock

CONSTANTS t1, t2, t3

AllThreads == {t1, t2, t3}
SomeSet    == {t1, t2}
=============================================================================
