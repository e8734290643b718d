------------------------------ MODULE OnceLock ------------------------------
(***************************************************************************)
(* OnceLock and OnceLockInit of quartz (sync/once.rs), one step per access  *)
(* to memory.  The two share their protocol: OnceLockInit::get is           *)
(* get_or_init with an initialiser kept in the lock, which is gone once it  *)
(* has been taken.                                                         *)
(***************************************************************************)
EXTENDS Naturals

CONSTANTS
  Callers,   \* the threads that use the cell
  Setters,   \* those that may call set, of a OnceLock
  MaxUses    \* bound on the calls one thread makes

None == "none"

ASSUME OnceAssumption == None \notin Callers /\ MaxUses \in Nat /\ Setters \subseteq Callers

VARIABLES
  kind,    \* which of the two
  state,   \* UNINIT, RUNNING or READY
  inner,   \* whose value was written, None while it is uninitialised
  init,    \* OnceLockInit: the initialiser is still there
  at,      \* where each thread is
  woken,   \* threads whose event register is set
  uses     \* calls each thread has made

cellVars == <<kind, state, inner, init, at, woken, uses>>

CellInit ==
  /\ kind \in {"OnceLock", "OnceLockInit"}
  /\ state = "UNINIT" /\ inner = None /\ init = (kind = "OnceLockInit")
  /\ at = [t \in Callers |-> "idle"] /\ woken = {}
  /\ uses = [t \in Callers |-> 0]

Goes(t, l) == at' = [at EXCEPT ![t] = l]

Use(t) ==
  /\ at[t] \in {"idle", "held", "refused"} /\ uses[t] < MaxUses
  /\ uses' = [uses EXCEPT ![t] = @ + 1]

-----------------------------------------------------------------------------
(* get_or_init, OnceLockInit::get *)

(* mutant: RUNNING is not stored *)
ExchangeLoadsOnly(t) ==
  /\ Use(t) /\ Goes(t, IF state = "UNINIT" THEN "init" ELSE "load")
  /\ UNCHANGED <<state, inner, init, woken>>

Exchange(t) ==
  /\ Use(t)
  /\ \/ state = "UNINIT" /\ state' = "RUNNING" /\ Goes(t, "init")
     \/ state # "UNINIT" /\ Goes(t, "load") /\ UNCHANGED state
  /\ UNCHANGED <<inner, init, woken>>

(* OnceLockInit: take().unwrap_unchecked(), undefined if the initialiser is *)
(* gone.  get_or_init has it as its argument.                              *)
TakeInit(t) ==
  /\ at[t] = "init" /\ Goes(t, "write")
  /\ init' = FALSE
  /\ UNCHANGED <<state, inner, woken, uses>>

WriteInner(t) ==
  /\ at[t] = "write" /\ Goes(t, "store")
  /\ inner' = t
  /\ UNCHANGED <<state, init, woken, uses>>

StoreReady(t) ==
  /\ at[t] = "store" /\ Goes(t, "sev")
  /\ state' = "READY"
  /\ UNCHANGED <<inner, init, woken, uses>>

SevLost(t) ==   \* mutant: nobody is told
  /\ at[t] = "sev" /\ Goes(t, "held")
  /\ UNCHANGED <<state, inner, init, woken, uses>>

SevReady(t) ==
  /\ at[t] = "sev" /\ Goes(t, "held")
  /\ woken' = Callers
  /\ UNCHANGED <<state, inner, init, uses>>

LoadRunning(t) ==   \* mutant: RUNNING is enough
  /\ at[t] = "load" /\ Goes(t, IF state # "UNINIT" THEN "held" ELSE "wfe")
  /\ UNCHANGED <<state, inner, init, woken, uses>>

LoadState(t) ==
  /\ at[t] = "load" /\ Goes(t, IF state = "READY" THEN "held" ELSE "wfe")
  /\ UNCHANGED <<state, inner, init, woken, uses>>

(* wfe returns when the event register is set, or on an interrupt *)
WfeReady(t) ==
  /\ at[t] = "wfe" /\ Goes(t, "load")
  /\ woken' = woken \ {t}
  /\ UNCHANGED <<state, inner, init, uses>>

-----------------------------------------------------------------------------
(* set and get of OnceLock *)

SetExchange(t) ==
  /\ kind = "OnceLock" /\ t \in Setters /\ Use(t)
  /\ \/ state = "UNINIT" /\ state' = "RUNNING" /\ Goes(t, "set")
     \/ state # "UNINIT" /\ Goes(t, "refused") /\ UNCHANGED state
  /\ UNCHANGED <<inner, init, woken>>

(* set returns here: it leaves RUNNING behind *)
SetInner(t) ==
  /\ at[t] = "set" /\ Goes(t, "idle")
  /\ inner' = t
  /\ UNCHANGED <<state, init, woken, uses>>

Get(t) ==
  /\ kind = "OnceLock" /\ Use(t)
  /\ Goes(t, IF state = "READY" THEN "held" ELSE "refused")
  /\ UNCHANGED <<state, inner, init, woken>>

-----------------------------------------------------------------------------
InitStep(t) == TakeInit(t) \/ WriteInner(t) \/ StoreReady(t) \/ SevReady(t)
WaitStep(t) == LoadState(t) \/ WfeReady(t)

CellNext ==
  /\ \E t \in Callers :
       Exchange(t) \/ InitStep(t) \/ WaitStep(t) \/ SetExchange(t) \/ SetInner(t) \/ Get(t)
  /\ UNCHANGED kind

CellSpec == CellInit /\ [][CellNext]_cellVars

(* A call that has begun goes on, unless it sleeps in wfe. *)
CallGoesOn(t) ==
  /\ at[t] = "wfe" => t \in woken
  /\ InitStep(t) \/ WaitStep(t) \/ SetInner(t)
  /\ UNCHANGED kind

FairCellSpec == CellSpec /\ \A t \in Callers : WF_cellVars(CallGoesOn(t))

-----------------------------------------------------------------------------
(* Properties *)

(* A reference that get, get_or_init or OnceLockInit::get has returned is   *)
(* to an initialised value (assume_init_ref).                              *)
ReadsInitialised == \A t \in Callers : at[t] = "held" => inner # None

(* The value is written at most once, whoever races to write it: a          *)
(* reference handed out earlier still reads the same (set, get_or_init).   *)
ValueNeverChanges == [][inner # None => inner' = inner]_cellVars

(* "SAFETY: runs exactly once": whoever takes the initialiser of a          *)
(* OnceLockInit finds it there.                                            *)
InitRunsOnce == kind = "OnceLockInit" => \A t \in Callers : at[t] = "init" => init

(* A thread that waits for another's initialiser is woken and returns: the  *)
(* event of sev is not lost between its load and its wfe.                  *)
GetReturns ==
  \A t, u \in Callers : at[t] = "load" /\ at[u] = "init" ~> at[t] = "held"
=============================================================================
