----------------------------- MODULE LockProofs -----------------------------
(***************************************************************************)
(* quartz's locks.  The ticket lock, for every number of threads that a     *)
(* half word can count: it excludes, and it serves in the order of the      *)
(* draws, also across the wrap-around of either half and after a ticket was *)
(* lost to the carry.  The once cells, for any callers: what they hand out  *)
(* is initialised, once.                                                    *)
(***************************************************************************)
EXTENDS TicketLock, OnceLock, FiniteSetTheorems, TLAPS

(* How far a half word h is ahead of o, going up and around *)
Gap(o, h) == IF h >= o THEN h - o ELSE h + Half - o

(* The gap is zero only between equal halves, and tells the halves apart. *)
LEMMA GapBasics ==
  ASSUME NEW o \in HalfWord, NEW g \in HalfWord, NEW h \in HalfWord
  PROVE  /\ Gap(o, h) \in HalfWord
         /\ Gap(o, h) = 0 <=> h = o
         /\ Gap(o, g) = Gap(o, h) => g = h
  BY TicketAssumption DEF Gap, HalfWord

(* An incremented half word is a half word, one further than before. *)
LEMMA GapInc ==
  ASSUME NEW o \in HalfWord, NEW h \in HalfWord
  PROVE  /\ Inc(h) \in HalfWord
         /\ Gap(o, h) < Half - 1 => Gap(o, Inc(h)) = Gap(o, h) + 1
  BY TicketAssumption DEF Gap, HalfWord, Inc

(* Serving a ticket brings every later one nearer by one. *)
LEMMA GapServe ==
  ASSUME NEW o \in HalfWord, NEW h \in HalfWord, h # o
  PROVE  Gap(Inc(o), h) = Gap(o, h) - 1
  BY TicketAssumption DEF Gap, HalfWord, Inc

-----------------------------------------------------------------------------
(***************************************************************************)
(* The inductive invariant.  A store that will succeed writes what the      *)
(* thread has read; the tickets in line are distinct and lie between owner  *)
(* and next; whoever holds the lock, or is about to see that it does, has   *)
(* the ticket being served.  Between owner and next there is a ticket for   *)
(* every thread in line and at most one more: the lost one, which is above  *)
(* owner, so that owner never wraps again.                                  *)
(***************************************************************************)
Reserved ==
  \A t \in Threads :
    /\ t \in monitor /\ pc[t] \in {"strex", "try_strex"} => val[t] = raw
    /\ pc[t] = "try_strex" => val[t].owner = val[t].next

Ticket(t) == val[t].next
Width     == Gap(raw.owner, raw.next)

InWindow == \A t \in Line : Gap(raw.owner, Ticket(t)) < Width
Distinct == \A t, u \in Line : Ticket(t) = Ticket(u) => t = u

Served ==
  \A t \in Line : pc[t] = "locked" \/ val[t].owner = Ticket(t) => Ticket(t) = raw.owner

Hole(h) ==
  /\ h >= raw.owner /\ h < Half - 1 /\ Gap(raw.owner, h) < Width
  /\ \A t \in Line : Ticket(t) # h

Counted ==
  \/ Width = Cardinality(Line)
  \/ Width = Cardinality(Line) + 1 /\ \E h \in HalfWord : Hole(h)

LineOK == InWindow /\ Distinct /\ Counted
IInv   == TypeOK /\ Reserved /\ Served /\ LineOK

(* The line is a finite set, with room for every thread outside it. *)
LEMMA LineFinite ==
  /\ IsFiniteSet(Line) /\ Cardinality(Line) \in Nat
  /\ Cardinality(Line) <= Cardinality(Threads)
  /\ \A t \in Threads \ Line : Cardinality(Line) + 1 <= Cardinality(Threads)
<1>1. Line \in SUBSET Threads
  BY DEF Line
<1>2. IsFiniteSet(Line) /\ Cardinality(Line) \in Nat /\ Cardinality(Threads) \in Nat
      /\ Cardinality(Line) <= Cardinality(Threads)
      /\ (Cardinality(Threads) = Cardinality(Line) => Threads = Line)
  BY <1>1, FewThreads, FS_Subset, FS_CardinalityType
<1> QED
  BY <1>2

(* What the type invariant says of the words in play. *)
LEMMA Halves ==
  ASSUME TypeOK
  PROVE  /\ raw.owner \in HalfWord /\ raw.next \in HalfWord
         /\ \A t \in Threads : val[t].owner \in HalfWord /\ Ticket(t) \in HalfWord
         /\ Width \in HalfWord
<1>1. raw \in Raw /\ \A t \in Threads : val[t] \in Raw
  BY DEF TypeOK
<1>2. raw.owner \in HalfWord /\ raw.next \in HalfWord
  BY <1>1 DEF Raw
<1> QED
  BY <1>1, <1>2, GapBasics DEF Raw, Ticket, Width

(* A step that changes neither the word nor the line nor its tickets. *)
LEMMA SameLine ==
  ASSUME LineOK, raw' = raw, Line' = Line, \A t \in Line : Ticket(t)' = Ticket(t)
  PROVE  LineOK'
<1>1. Width' = Width
  BY DEF Width
<1>2. InWindow' /\ Distinct'
  BY <1>1 DEF LineOK, InWindow, Distinct
<1>3. \A h \in HalfWord : Hole(h) => Hole(h)'
  BY <1>1 DEF Hole
<1> QED
  BY <1>1, <1>2, <1>3 DEF LineOK, Counted

(* A thread draws the next ticket and is in line behind all others. *)
LEMMA Joins ==
  ASSUME TypeOK, LineOK, NEW t \in Threads \ Line, val[t] = raw, val' = val,
         raw' = DrawFrom(raw), Line' = Line \cup {t}
  PROVE  /\ LineOK'
         /\ \A u \in Line : Gap(raw.owner, Ticket(u)) < Gap(raw.owner, Ticket(t))
         /\ raw'.owner = raw.owner
         /\ raw' \in Raw
<1> DEFINE n == Cardinality(Line)
<1>0. /\ raw.owner \in HalfWord /\ raw.next \in HalfWord /\ Width \in HalfWord
      /\ \A u \in Line : Ticket(u) \in HalfWord
  BY Halves DEF Line
<1>1. raw'.owner = raw.owner /\ raw'.next = Inc(raw.next) /\ raw' \in Raw
  <2>1. raw \in Raw
    BY DEF TypeOK
  <2>2. Inc(raw.next) \in HalfWord
    BY <1>0, GapInc
  <2> QED
    BY <2>1, <2>2 DEF DrawFrom, Raw
<1>2. n \in Nat /\ n + 1 <= Cardinality(Threads) /\ Cardinality(Threads) \in Nat
  BY LineFinite, FewThreads, FS_CardinalityType
<1>3. Width < Half - 1
  <2>1. Width <= n + 1
    BY <1>0, <1>2 DEF LineOK, Counted, HalfWord
  <2> QED
    BY <2>1, <1>0, <1>2, FewThreads, TicketAssumption DEF HalfWord
<1>4. Width' = Width + 1
  BY <1>0, <1>1, <1>3, GapInc DEF Width
<1>5. Ticket(t) = raw.next /\ Gap(raw.owner, Ticket(t)) = Width
  BY DEF Ticket, Width
<1>6. \A u \in Line : Gap(raw.owner, Ticket(u)) < Width
  BY DEF LineOK, InWindow
<1>7. ASSUME NEW u \in Line PROVE Gap(raw.owner, Ticket(u)) \in Int
  <2>1. Gap(raw.owner, Ticket(u)) \in HalfWord
    BY <1>0, GapBasics
  <2> QED
    BY <2>1, TicketAssumption DEF HalfWord
<1>8. \A u \in Line : Ticket(u) # Ticket(t)
  BY <1>5, <1>6, <1>7, <1>0 DEF HalfWord
<1>9. \A u \in Threads : Ticket(u)' = Ticket(u)
  BY DEF Ticket
<1>10. Line \subseteq Threads
  BY DEF Line
<1>11. InWindow'
  <2> SUFFICES ASSUME NEW u \in Line \cup {t}
               PROVE  Gap(raw.owner, Ticket(u)) < Width + 1
    BY <1>1, <1>4, <1>9, <1>10 DEF InWindow
  <2> QED
    BY <1>5, <1>6, <1>7, <1>0 DEF HalfWord
<1>12. Distinct'
  <2> SUFFICES ASSUME NEW u \in Line \cup {t}, NEW v \in Line \cup {t}, Ticket(u) = Ticket(v)
               PROVE  u = v
    BY <1>9, <1>10 DEF Distinct
  <2>1. CASE u \in Line /\ v \in Line
    BY <2>1 DEF LineOK, Distinct
  <2> QED
    BY <2>1, <1>8
<1>13. Cardinality(Line') = n + 1
  BY LineFinite, FS_AddElement
<1>14. ASSUME NEW h \in HalfWord, Hole(h)
       PROVE  Hole(h)'
  <2>1. Gap(raw.owner, h) < Width /\ h >= raw.owner /\ h < Half - 1
        /\ \A u \in Line : Ticket(u) # h
    BY <1>14 DEF Hole
  <2>2. Gap(raw.owner, h) \in Int /\ Width \in Int
    <3>1. Gap(raw.owner, h) \in HalfWord
      BY <1>0, GapBasics
    <3> QED
      BY <3>1, <1>0, TicketAssumption DEF HalfWord
  <2>3. Ticket(t) # h
    BY <2>1, <2>2, <1>5
  <2>4. \A u \in Line' : Ticket(u)' # h
    BY <2>1, <2>3, <1>9, <1>10
  <2> QED
    BY <2>1, <2>2, <2>4, <1>1, <1>4 DEF Hole
<1>15. Counted'
  <2>1. CASE Width = n
    BY <2>1, <1>4, <1>13 DEF Counted
  <2>2. CASE Width = n + 1 /\ \E h \in HalfWord : Hole(h)
    <3>1. \E h \in HalfWord : Hole(h)'
      BY <2>2, <1>14
    <3> QED
      BY <3>1, <2>2, <1>4, <1>13, <1>2 DEF Counted
  <2> QED
    BY <2>1, <2>2 DEF LineOK, Counted
<1> QED
  BY <1>1, <1>5, <1>6, <1>11, <1>12, <1>15 DEF LineOK

(* The holder gives the lock back and everyone behind it moves up. *)
LEMMA Leaves ==
  ASSUME TypeOK, LineOK, NEW t \in Line, Ticket(t) = raw.owner, val' = val,
         raw' = Serve(raw), Line' = Line \ {t}
  PROVE  /\ LineOK'
         /\ \A u \in Line \ {t} : /\ Ticket(u) # raw.owner
                                  /\ Gap(raw'.owner, Ticket(u)) = Gap(raw.owner, Ticket(u)) - 1
         /\ raw' \in Raw
<1> DEFINE n == Cardinality(Line)
<1>0. /\ raw.owner \in HalfWord /\ raw.next \in HalfWord /\ Width \in HalfWord
      /\ \A u \in Line : Ticket(u) \in HalfWord
  BY Halves DEF Line
<1>1. /\ raw'.owner = Inc(raw.owner)
      /\ raw'.next = IF raw.owner = Half - 1 THEN Inc(raw.next) ELSE raw.next
      /\ raw' \in Raw
  <2>1. Inc(raw.owner) \in HalfWord /\ Inc(raw.next) \in HalfWord
    BY <1>0, GapInc
  <2> QED
    BY <2>1, <1>0 DEF Serve, Raw
<1>2. \A u \in Line \ {t} : Ticket(u) # raw.owner
  BY DEF LineOK, Distinct
<1>3. \A u \in Line \ {t} : Gap(raw'.owner, Ticket(u)) = Gap(raw.owner, Ticket(u)) - 1
  BY <1>0, <1>1, <1>2, GapServe
<1>4. n \in Nat /\ n > 0 /\ Cardinality(Line') = n - 1 /\ n <= Cardinality(Threads)
  <2>1. IsFiniteSet(Line) /\ n \in Nat /\ n <= Cardinality(Threads)
    BY LineFinite
  <2>2. Cardinality(Line \ {t}) = n - 1 /\ IsFiniteSet(Line \ {t})
    BY <2>1, FS_RemoveElement
  <2>3. Cardinality(Line \ {t}) \in Nat
    BY <2>2, FS_CardinalityType
  <2> QED
    BY <2>1, <2>2, <2>3
<1>5. \A u \in Line : /\ Gap(raw.owner, Ticket(u)) \in Nat
                     /\ Gap(raw.owner, Ticket(u)) < Width
  <2>1. \A u \in Line : Gap(raw.owner, Ticket(u)) \in HalfWord
    BY <1>0, GapBasics
  <2> QED
    BY <2>1, TicketAssumption DEF LineOK, InWindow, HalfWord
<1>6. Width > 0 /\ raw.next # raw.owner
  <2>1. Width > 0
    BY <1>5, <1>0, TicketAssumption DEF HalfWord
  <2> QED
    BY <2>1, <1>0, GapBasics DEF Width
<1>7. \A u \in Line' : Ticket(u)' = Ticket(u) /\ u \in Line /\ u # t
  BY DEF Ticket
<1>8. Distinct'
  BY <1>7 DEF LineOK, Distinct
<1>9. CASE raw.owner = Half - 1   \* the carry: a ticket is lost
  <2>1. Width = n
    <3>1. \A h \in HalfWord : ~Hole(h)
      BY <1>9, TicketAssumption DEF Hole, HalfWord
    <3> QED
      BY <3>1 DEF LineOK, Counted
  <2>2. raw'.owner = 0 /\ raw'.next = Inc(raw.next) /\ raw.next = n - 1
    <3>1. raw'.owner = 0 /\ raw'.next = Inc(raw.next)
      BY <1>1, <1>9 DEF Inc
    <3>2. raw.next < raw.owner /\ Width = raw.next + Half - raw.owner
      BY <1>6, <1>9, <1>0, TicketAssumption DEF Width, Gap, HalfWord
    <3> QED
      BY <3>1, <3>2, <2>1, <1>9, <1>0, TicketAssumption DEF HalfWord
  <2>3. n < Half - 1
    BY <1>4, FewThreads, FS_CardinalityType, TicketAssumption
  <2>4. Width' = n
    BY <2>2, <2>3, <1>4, TicketAssumption DEF Width, Gap, Inc
  <2>5. InWindow'
    BY <1>3, <1>5, <1>7, <2>1, <2>4, <1>4 DEF InWindow
  <2> PICK h \in HalfWord : h = raw.next
    BY <1>0
  <2>6. Hole(h)'
    <3>1. \A u \in Line' : Ticket(u)' # h
      BY <1>5, <1>7 DEF Width
    <3>2. Gap(0, h) = n - 1
      BY <2>2, <1>4 DEF Gap
    <3> QED
      BY <3>1, <3>2, <2>2, <2>3, <2>4, <1>4, TicketAssumption DEF Hole
  <2>7. Counted'
    BY <2>4, <2>6, <1>4, <1>0 DEF Counted
  <2> QED
    BY <2>5, <2>7, <1>8, <1>1, <1>2, <1>3 DEF LineOK
<1>10. CASE raw.owner # Half - 1
  <2>1. raw'.owner = raw.owner + 1 /\ raw'.next = raw.next
    BY <1>1, <1>10 DEF Inc
  <2>2. Width' = Width - 1
    BY <1>0, <1>1, <1>6, <2>1, GapServe DEF Width
  <2>3. InWindow'
    BY <1>3, <1>5, <1>7, <2>2, <1>0 DEF InWindow, HalfWord
  <2>4. ASSUME NEW h \in HalfWord, Hole(h)
        PROVE  Hole(h)'
    <3>1. h >= raw.owner /\ h < Half - 1 /\ h # raw.owner /\ Gap(raw.owner, h) < Width
          /\ \A u \in Line : Ticket(u) # h
      BY <2>4 DEF Hole
    <3>2. Gap(raw'.owner, h) = Gap(raw.owner, h) - 1
      BY <3>1, <1>0, <1>1, GapServe
    <3>3. Gap(raw.owner, h) \in HalfWord
      BY <1>0, GapBasics
    <3>4. Gap(raw'.owner, h) < Width'
      BY <3>1, <3>2, <3>3, <2>2, <1>0, TicketAssumption DEF HalfWord
    <3>5. h >= raw'.owner
      BY <3>1, <2>1, <1>0, TicketAssumption DEF HalfWord
    <3> QED
      BY <3>1, <3>4, <3>5, <1>7 DEF Hole
  <2>5. Counted'
    <3>1. CASE Width = n
      BY <3>1, <2>2, <1>4 DEF Counted
    <3>2. CASE Width = n + 1 /\ \E h \in HalfWord : Hole(h)
      <4>1. \E h \in HalfWord : Hole(h)'
        BY <3>2, <2>4
      <4> QED
        BY <4>1, <3>2, <2>2, <1>4 DEF Counted
    <3> QED
      BY <3>1, <3>2 DEF LineOK, Counted
  <2> QED
    BY <2>3, <2>5, <1>8, <1>1, <1>2, <1>3 DEF LineOK
<1> QED
  BY <1>9, <1>10

-----------------------------------------------------------------------------
(* What the two additions to the word do. *)
LEMMA RawOps ==
  ASSUME NEW r \in Raw
  PROVE  /\ DrawFrom(r) \in Raw /\ Serve(r) \in Raw
         /\ DrawFrom(r).owner = r.owner
<1>1. r.owner \in HalfWord /\ r.next \in HalfWord
  BY DEF Raw
<1>2. Inc(r.owner) \in HalfWord /\ Inc(r.next) \in HalfWord
  BY <1>1, GapInc
<1> QED
  BY <1>1, <1>2 DEF Raw, DrawFrom, Serve

(* Every step of a thread keeps the types and moves no other thread. *)
LEMMA TypeStep ==
  ASSUME TypeOK, NEW t \in Threads, LockStep(t) \/ TryStep(t) \/ FreeStep(t)
  PROVE  /\ TypeOK'
         /\ \A u \in Threads \ {t} : pc'[u] = pc[u] /\ val'[u] = val[u]
<1> USE DEF TypeOK, Goto
<1>0. raw \in Raw /\ val[t] \in Raw
  OBVIOUS
<1>1. calls[t] < MaxCalls => calls[t] + 1 \in 0 .. MaxCalls
  BY TicketAssumption
<1>2. ASSUME NEW loop, Begin(t, loop)
      PROVE  calls' \in [Threads -> 0 .. MaxCalls]
  BY <1>1, <1>2 DEF Begin
<1>3. CASE Ldrex(t)
  BY <1>0, <1>2, <1>3 DEF Ldrex
<1>4. CASE Strex(t)
  BY <1>0, <1>4, RawOps DEF Strex
<1>5. CASE TestTicket(t)
  BY <1>5 DEF TestTicket
<1>6. CASE Wfe(t)
  BY <1>6 DEF Wfe
<1>7. CASE LoadOwner(t)
  <2>1. [val[t] EXCEPT !.owner = raw.owner] \in Raw
    BY <1>0 DEF Raw
  <2>2. val' = [val EXCEPT ![t] = [val[t] EXCEPT !.owner = raw.owner]]
    BY <1>7, Zenon DEF LoadOwner
  <2> QED
    BY <1>7, <2>1, <2>2 DEF LoadOwner
<1>8. CASE TryLdrex(t)
  BY <1>0, <1>2, <1>8 DEF TryLdrex
<1>9. CASE TryStrex(t)
  BY <1>0, <1>9, RawOps DEF TryStrex
<1>10. CASE Unlock(t)
  BY <1>0, <1>10, RawOps DEF Unlock
<1>11. CASE Sev(t)
  BY <1>11 DEF Sev
<1> QED
  BY <1>3, <1>4, <1>5, <1>6, <1>7, <1>8, <1>9, <1>10, <1>11 DEF LockStep, TryStep, FreeStep

(* The line and the holders after a step of t. *)
LEMMA LineAfter ==
  ASSUME NEW t \in Threads, \A u \in Threads \ {t} : pc'[u] = pc[u]
  PROVE  /\ Line' = IF pc'[t] \in {"test", "wfe", "load", "locked"} THEN Line \cup {t} ELSE Line \ {t}
         /\ Inside' = IF pc'[t] = "locked" THEN Inside \cup {t} ELSE Inside \ {t}
  BY DEF Line, Inside

(***************************************************************************)
(* Seen from the line, a step of t does nothing, enters, draws a ticket     *)
(* (with try_lock: and enters) or leaves.                                   *)
(***************************************************************************)
Quiet ==
  /\ raw' = raw /\ Line' = Line
  /\ \A u \in Line : Ticket(u)' = Ticket(u) /\ val'[u].owner \in {val[u].owner, raw.owner}
Stays == Quiet /\ Inside' = Inside
Enters(t) ==
  Quiet /\ t \in Line \ Inside /\ val[t].owner = Ticket(t) /\ Inside' = Inside \cup {t}
Draws(t) ==
  /\ t \in Threads \ Line /\ val[t] = raw /\ val' = val /\ raw' = DrawFrom(raw)
  /\ Line' = Line \cup {t}
  /\ \/ pc'[t] = "test" /\ Inside' = Inside
     \/ pc'[t] = "locked" /\ raw.owner = raw.next /\ Inside' = Inside \cup {t}
Frees(t) ==
  /\ t \in Inside /\ val' = val /\ raw' = Serve(raw)
  /\ Line' = Line \ {t} /\ Inside' = Inside \ {t}

(* Every step is one of the four. *)
LEMMA StepEffect ==
  ASSUME TypeOK, Reserved, NEW t \in Threads, LockStep(t) \/ TryStep(t) \/ FreeStep(t)
  PROVE  Stays \/ Enters(t) \/ Draws(t) \/ Frees(t)
<1> DEFINE InLine == {"test", "wfe", "load", "locked"}
<1>0. /\ \A u \in Threads \ {t} : pc'[u] = pc[u] /\ val'[u] = val[u]
      /\ Line' = IF pc'[t] \in InLine THEN Line \cup {t} ELSE Line \ {t}
      /\ Inside' = IF pc'[t] = "locked" THEN Inside \cup {t} ELSE Inside \ {t}
      /\ t \in Line <=> pc[t] \in InLine
      /\ t \in Inside <=> pc[t] = "locked"
      /\ Line \subseteq Threads
  <2>1. \A u \in Threads \ {t} : pc'[u] = pc[u] /\ val'[u] = val[u]
    BY TypeStep
  <2> QED
    BY <2>1, LineAfter DEF Line, Inside
<1>1. ASSUME NEW l, Goto(t, l)
      PROVE  pc'[t] = l
  BY <1>1 DEF Goto, TypeOK
<1>2. ASSUME raw' = raw, pc[t] \notin InLine, pc'[t] \notin InLine
      PROVE  Stays
  BY <1>0, <1>2 DEF Stays, Quiet, Ticket
<1>3. ASSUME raw' = raw, pc[t] \in InLine \ {"locked"}, pc'[t] \in InLine \ {"locked"},
             val'[t].next = val[t].next, val'[t].owner \in {val[t].owner, raw.owner}
      PROVE  Stays
  BY <1>0, <1>3 DEF Stays, Quiet, Ticket
<1>4. CASE Ldrex(t)
  <2>1. pc'[t] = "strex" /\ raw' = raw /\ pc[t] \in {"idle", "lock"}
    BY <1>1, <1>4 DEF Ldrex, Begin
  <2> QED
    BY <2>1, <1>2
<1>5. CASE Strex(t)
  <2>1. pc[t] = "strex" /\ val' = val
    BY <1>5 DEF Strex
  <2>2. CASE t \in monitor /\ Goto(t, "test") /\ raw' = DrawFrom(val[t])
    <3>1. pc'[t] = "test" /\ val[t] = raw
      BY <2>1, <2>2, <1>1 DEF Reserved
    <3> QED
      BY <3>1, <2>1, <2>2, <1>0 DEF Draws
  <2>3. CASE Goto(t, "lock") /\ raw' = raw
    BY <2>1, <2>3, <1>1, <1>2
  <2> QED
    BY <1>5, <2>2, <2>3 DEF Strex
<1>6. CASE TestTicket(t)
  <2>1. pc[t] = "test" /\ raw' = raw /\ val' = val
    BY <1>6 DEF TestTicket
  <2>2. CASE val[t].owner = val[t].next /\ Goto(t, "locked")
    <3>1. pc'[t] = "locked"
      BY <2>2, <1>1
    <3> QED
      BY <3>1, <2>1, <2>2, <1>0 DEF Enters, Quiet, Ticket
  <2>3. CASE Goto(t, "wfe")
    BY <2>1, <2>3, <1>1, <1>3
  <2> QED
    BY <1>6, <2>2, <2>3 DEF TestTicket
<1>7. CASE Wfe(t)
  <2>1. pc[t] = "wfe" /\ pc'[t] = "load" /\ raw' = raw /\ val' = val
    BY <1>7, <1>1 DEF Wfe
  <2> QED
    BY <2>1, <1>3
<1>8. CASE LoadOwner(t)
  <2>1. pc[t] = "load" /\ pc'[t] = "test" /\ raw' = raw
    BY <1>8, <1>1 DEF LoadOwner
  <2>2. val'[t] = [val[t] EXCEPT !.owner = raw.owner]
    BY <1>8 DEF LoadOwner, TypeOK
  <2>3. val'[t].next = val[t].next /\ val'[t].owner = raw.owner
    BY <2>2 DEF TypeOK, Raw
  <2> QED
    BY <2>1, <2>3, <1>3
<1>9. CASE TryLdrex(t)
  <2>1. raw' = raw /\ pc[t] \in {"idle", "try"} /\ pc'[t] \in {"idle", "try_strex"}
    BY <1>9, <1>1 DEF TryLdrex, Begin
  <2> QED
    BY <2>1, <1>2
<1>10. CASE TryStrex(t)
  <2>1. pc[t] = "try_strex" /\ val' = val
    BY <1>10 DEF TryStrex
  <2>2. CASE t \in monitor /\ Goto(t, "locked") /\ raw' = DrawFrom(val[t])
    <3>1. pc'[t] = "locked" /\ val[t] = raw /\ raw.owner = raw.next
      BY <2>1, <2>2, <1>1 DEF Reserved
    <3> QED
      BY <3>1, <2>1, <2>2, <1>0 DEF Draws
  <2>3. CASE Goto(t, "try") /\ raw' = raw
    BY <2>1, <2>3, <1>1, <1>2
  <2> QED
    BY <1>10, <2>2, <2>3 DEF TryStrex
<1>11. CASE Unlock(t)
  <2>1. pc[t] = "locked" /\ pc'[t] = "sev" /\ raw' = Serve(raw) /\ val' = val
    BY <1>11, <1>1 DEF Unlock
  <2> QED
    BY <2>1, <1>0 DEF Frees
<1>12. CASE Sev(t)
  <2>1. pc[t] = "sev" /\ pc'[t] = "idle" /\ raw' = raw
    BY <1>12, <1>1 DEF Sev
  <2> QED
    BY <2>1, <1>2
<1> QED
  BY <1>4, <1>5, <1>6, <1>7, <1>8, <1>9, <1>10, <1>11, <1>12 DEF LockStep, TryStep, FreeStep

(* A store, successful or not, leaves only good reservations behind. *)
LEMMA ReservedStep ==
  ASSUME TypeOK, Reserved, NEW t \in Threads, LockStep(t) \/ TryStep(t) \/ FreeStep(t)
  PROVE  Reserved'
<1>0. \A u \in Threads \ {t} : pc'[u] = pc[u] /\ val'[u] = val[u]
  BY TypeStep
<1>1. /\ raw' = raw \/ monitor' = {}
      /\ monitor' = {} \/ monitor' = monitor \/ monitor' = monitor \cup {t}
  BY DEF LockStep, TryStep, FreeStep, Ldrex, Strex, TestTicket, Wfe, LoadOwner, TryLdrex,
         TryStrex, Unlock, Sev
<1>2. /\ pc'[t] \in {"strex", "try_strex"} => val'[t] = raw /\ raw' = raw
      /\ pc'[t] = "try_strex" => raw.owner = raw.next
  BY DEF LockStep, TryStep, FreeStep, Ldrex, Strex, TestTicket, Wfe, LoadOwner, TryLdrex,
         TryStrex, Unlock, Sev, Goto, TypeOK
<1> QED
  BY <1>0, <1>1, <1>2 DEF Reserved

(* The invariant is inductive. *)
LEMMA IInvStep ==
  ASSUME IInv, NEW t \in Threads, LockStep(t) \/ TryStep(t) \/ FreeStep(t)
  PROVE  IInv'
<1>0. TypeOK /\ Reserved /\ Served /\ LineOK
  BY DEF IInv
<1>1. TypeOK' /\ Reserved'
  BY <1>0, TypeStep, ReservedStep
<1>2. \A u \in Threads : pc[u] = "locked" <=> u \in Inside
  BY DEF Inside
<1>3. \A u \in Threads : (pc[u] = "locked")' <=> u \in Inside'
  BY DEF Inside
<1>4. Line \subseteq Threads /\ Inside \subseteq Line
  BY DEF Line, Inside
<1>5. CASE Stays \/ Enters(t)
  <2>1. LineOK'
    BY <1>0, <1>5, SameLine DEF Stays, Enters, Quiet
  <2>2. Served'
    BY <1>0, <1>2, <1>3, <1>4, <1>5 DEF Stays, Enters, Quiet, Served, Ticket
  <2> QED
    BY <2>1, <2>2, <1>1 DEF IInv
<1>6. CASE Draws(t)
  <2>1. LineOK' /\ raw'.owner = raw.owner
    BY <1>0, <1>6, Joins DEF Draws
  <2>2. Served'
    BY <2>1, <1>0, <1>2, <1>3, <1>4, <1>6 DEF Draws, Served, Ticket
  <2> QED
    BY <2>1, <2>2, <1>1 DEF IInv
<1>7. CASE Frees(t)
  <2>1. t \in Line /\ Ticket(t) = raw.owner
    BY <1>0, <1>2, <1>4, <1>7 DEF Frees, Served
  <2>2. LineOK' /\ \A u \in Line \ {t} : Ticket(u) # raw.owner
    BY <2>1, <1>0, <1>7, Leaves DEF Frees
  <2>3. Served'
    BY <2>2, <1>0, <1>2, <1>3, <1>4, <1>7 DEF Frees, Served, Ticket
  <2> QED
    BY <2>2, <2>3, <1>1 DEF IInv
<1> QED
  BY <1>0, <1>5, <1>6, <1>7, StepEffect

(* At first nobody is in line and no ticket has been drawn. *)
LEMMA IInvInit == Init => IInv
<1> SUFFICES ASSUME Init PROVE IInv
  OBVIOUS
<1>1. raw = [owner |-> 0, next |-> 0] /\ 0 \in HalfWord /\ raw \in Raw
  <2>1. Cardinality(Threads) \in Nat
    BY FewThreads, FS_CardinalityType
  <2>2. 0 \in HalfWord
    BY <2>1, FewThreads, TicketAssumption DEF HalfWord
  <2> QED
    BY <2>2 DEF Init, Raw
<1>2. TypeOK /\ Reserved
  BY <1>1, TicketAssumption DEF Init, TypeOK, Reserved
<1>3. Line = {} /\ Cardinality(Line) = 0
  <2>1. Line = {}
    BY DEF Init, Line
  <2> QED
    BY <2>1, FS_EmptySet
<1>4. Width = 0
  BY <1>1, TicketAssumption DEF Width, Gap
<1> QED
  BY <1>2, <1>3, <1>4 DEF IInv, Served, LineOK, InWindow, Distinct, Counted

(* A step that changes nothing the invariant is about. *)
LEMMA IInvStutter == IInv /\ UNCHANGED vars => IInv'
  BY DEF IInv, TypeOK, Reserved, Served, LineOK, InWindow, Distinct, Counted, Hole,
         Width, Ticket, Line, vars

(* The invariant holds throughout. *)
LEMMA IInvAlways == Spec => []IInv
<1>1. IInv /\ [Next]_vars => IInv'
  BY IInvStep, IInvStutter DEF Next
<1> QED
  BY <1>1, IInvInit, PTL DEF Spec

(***************************************************************************)
(* For every number of threads and every width of the halves that counts   *)
(* them, two threads never hold the lock at once (lock, try_lock, unlock).  *)
(***************************************************************************)
THEOREM TicketLockExcludes == Spec => [](TypeOK /\ MutualExclusion)
<1>1. IInv => TypeOK /\ MutualExclusion
  <2> SUFFICES ASSUME IInv, NEW t \in Inside, NEW u \in Inside
               PROVE  t = u
    BY DEF IInv, MutualExclusion
  <2>1. t \in Line /\ u \in Line /\ pc[t] = "locked" /\ pc[u] = "locked"
    BY DEF Line, Inside
  <2>2. Ticket(t) = raw.owner /\ Ticket(u) = raw.owner
    BY <2>1 DEF IInv, Served
  <2> QED
    BY <2>1, <2>2 DEF IInv, LineOK, Distinct
<1> QED
  BY <1>1, IInvAlways, PTL

-----------------------------------------------------------------------------
(* The line of FairLock, as the tickets order it *)
Before(t) == {u \in Line : Gap(raw.owner, Ticket(u)) < Gap(raw.owner, Ticket(t))}
Ahead     == [t \in Line |-> Before(t)]

(* The refinement mapping of TicketLock, in these terms. *)
LEMMA AheadIs ==
  Ranked = Ahead /\ Ranked' = Ahead'
  BY DEF Ranked, Ahead, Before, Ticket, Distance, Gap

(* Nothing drawn or served: the order is as it was. *)
LEMMA QuietOrder ==
  ASSUME Quiet
  PROVE  Ahead' = Ahead
<1>1. \A t \in Line : Before(t)' = Before(t)
  BY DEF Quiet, Before
<1> QED
  BY <1>1 DEF Quiet, Ahead

(* A thread that draws is behind everyone, and before no one. *)
LEMMA DrawOrder ==
  ASSUME IInv, NEW t, Draws(t)
  PROVE  Ahead' = [u \in Line \cup {t} |-> IF u = t THEN Line ELSE Ahead[u]]
<1>0. /\ \A u \in Line : Gap(raw.owner, Ticket(u)) < Gap(raw.owner, Ticket(t))
      /\ raw'.owner = raw.owner
      /\ t \notin Line /\ Line' = Line \cup {t}
  BY Joins DEF IInv, Draws
<1>1. \A u \in Line \cup {t} : Ticket(u)' = Ticket(u) /\ Gap(raw.owner, Ticket(u)) \in Nat
  <2>1. raw.owner \in HalfWord /\ \A u \in Line \cup {t} : Ticket(u) \in HalfWord
    BY Halves DEF IInv, Draws, Line
  <2>2. \A u \in Line \cup {t} : Gap(raw.owner, Ticket(u)) \in HalfWord
    BY <2>1, GapBasics
  <2> QED
    BY <2>2, TicketAssumption DEF HalfWord, Draws, Ticket
<1>2. Before(t)' = Line
  BY <1>0, <1>1 DEF Before
<1>3. \A u \in Line : Before(u)' = Before(u)
  BY <1>0, <1>1 DEF Before
<1> QED
  BY <1>0, <1>2, <1>3 DEF Ahead

(* A thread that leaves was before everyone; the others keep their order. *)
LEMMA FreeOrder ==
  ASSUME IInv, NEW t, Frees(t)
  PROVE  t \in Line /\ Ahead' = [u \in Line \ {t} |-> Ahead[u] \ {t}]
<1>0. t \in Line /\ Ticket(t) = raw.owner
  BY DEF IInv, Frees, Inside, Line, Served
<1>1. /\ Line' = Line \ {t}
      /\ \A u \in Line \ {t} : Gap(raw'.owner, Ticket(u)) = Gap(raw.owner, Ticket(u)) - 1
  BY <1>0, Leaves DEF IInv, Frees
<1>2. \A u \in Line : Ticket(u)' = Ticket(u) /\ Gap(raw.owner, Ticket(u)) \in Nat
  <2>1. raw.owner \in HalfWord /\ \A u \in Line : Ticket(u) \in HalfWord
    BY Halves DEF IInv, Line
  <2>2. \A u \in Line : Gap(raw.owner, Ticket(u)) \in HalfWord
    BY <2>1, GapBasics
  <2> QED
    BY <2>2, TicketAssumption DEF HalfWord, Frees, Ticket
<1>3. \A u \in Line \ {t} : Before(u)' = Before(u) \ {t}
  BY <1>1, <1>2 DEF Before
<1> QED
  BY <1>0, <1>1, <1>3 DEF Ahead

(* Every step of a thread is a step of the fair lock, or invisible to it. *)
LEMMA FairStep ==
  ASSUME IInv, NEW t \in Threads, LockStep(t) \/ TryStep(t) \/ FreeStep(t)
  PROVE  Fair!Join(t) \/ Fair!Enter(t) \/ Fair!TryEnter(t) \/ Fair!Leave(t)
           \/ (Ahead' = Ahead /\ Inside' = Inside)
<1>0. DOMAIN Ahead = Line
  BY DEF Ahead
<1>1. CASE Stays
  BY <1>1, QuietOrder DEF Stays
<1>2. CASE Enters(t)
  <2>1. Ticket(t) = raw.owner /\ t \in Line \ Inside
    BY <1>2 DEF Enters, IInv, Served
  <2>2. Before(t) = {}
    <3>1. raw.owner \in HalfWord /\ \A u \in Line : Ticket(u) \in HalfWord
      BY Halves DEF IInv, Line
    <3>2. Gap(raw.owner, Ticket(t)) = 0 /\ \A u \in Line : Gap(raw.owner, Ticket(u)) \in HalfWord
      BY <3>1, <2>1, GapBasics
    <3> QED
      BY <3>2, TicketAssumption DEF Before, HalfWord
  <2>3. Ahead' = Ahead /\ Inside' = Inside \cup {t} /\ Ahead[t] = {}
    BY <1>2, <2>1, <2>2, QuietOrder DEF Enters, Ahead
  <2>4. Fair!Enter(t)
    BY <2>1, <2>3, <1>0, AheadIs DEF Fair!Enter, Fair!line
  <2> QED
    BY <2>4
<1>3. CASE Draws(t)
  <2>1. Ahead' = [u \in Line \cup {t} |-> IF u = t THEN Line ELSE Ahead[u]]
    BY <1>3, DrawOrder
  <2>2. Ahead' = Fair!Joined(t)
    <3>1. Fair!line = Line
      BY <1>0, AheadIs DEF Fair!line
    <3> QED
      BY <3>1, <2>1, AheadIs, Zenon DEF Fair!Joined
  <2>3. CASE Inside' = Inside
    BY <2>2, <2>3, <1>0, <1>3, AheadIs DEF Draws, Fair!Join, Fair!line
  <2>4. CASE raw.owner = raw.next /\ Inside' = Inside \cup {t}
    <3>1. Line = {}
      <4>1. Width = 0
        BY <2>4, Halves, GapBasics DEF IInv, Width
      <4>2. \A u \in Line : Gap(raw.owner, Ticket(u)) < 0 /\ Gap(raw.owner, Ticket(u)) \in HalfWord
        BY <4>1, Halves, GapBasics DEF IInv, LineOK, InWindow, Line
      <4> QED
        BY <4>2, TicketAssumption DEF HalfWord
    <3>2. Inside' = {t}
      BY <3>1, <2>4 DEF Line, Inside
    <3> QED
      BY <3>1, <3>2, <2>2, <1>0, AheadIs DEF Fair!TryEnter, Fair!line
  <2> QED
    BY <1>3, <2>3, <2>4 DEF Draws
<1>4. CASE Frees(t)
  <2>1. Ahead' = [u \in Line \ {t} |-> Ahead[u] \ {t}]
    BY <1>4, FreeOrder
  <2>2. Fair!Leave(t)
    BY <2>1, <1>0, <1>4, AheadIs DEF Frees, Fair!Leave, Fair!line
  <2> QED
    BY <2>2
<1> QED
  BY <1>1, <1>2, <1>3, <1>4, StepEffect DEF IInv

(***************************************************************************)
(* The lock is fair: threads enter in the order of their draws and          *)
(* try_lock overtakes no one, for every number of threads and every width   *)
(* of the halves that counts them (RawMutexFair).                           *)
(***************************************************************************)
THEOREM TicketLockIsFair == Spec => ImplementsFairLock
<1>1. Init => Fair!Init
  <2> SUFFICES ASSUME Init PROVE Fair!Init
    OBVIOUS
  <2>1. Line = {} /\ Inside = {}
    BY DEF Init, Line, Inside
  <2> QED
    BY <2>1 DEF Fair!Init, Ranked
<1>2. IInv /\ [Next]_vars => [Fair!Next]_<<Ranked, Inside>>
  <2>1. UNCHANGED vars => Ahead' = Ahead /\ Inside' = Inside
    BY DEF vars, Ahead, Before, Ticket, Line, Inside
  <2>2. IInv /\ [Next]_vars => Fair!Next \/ (Ahead' = Ahead /\ Inside' = Inside)
    BY <2>1, FairStep DEF Next, Fair!Next
  <2> QED
    BY <2>2, AheadIs
<1> QED
  BY <1>1, <1>2, IInvAlways, PTL DEF Spec, ImplementsFairLock, Fair!Spec
-----------------------------------------------------------------------------
(***************************************************************************)
(* The once cells, for any set of callers.  Whoever won the exchange is     *)
(* alone between it and the end of its write, and RUNNING says so (set      *)
(* leaves RUNNING behind); the value is there as soon as READY is.          *)
(***************************************************************************)
Winners == {t \in Callers : at[t] \in {"init", "write", "store", "set"}}

CellInv ==
  /\ at \in [Callers -> {"idle", "held", "refused", "init", "write", "store", "sev",
                         "load", "wfe", "set"}]
  /\ \A t, u \in Winners : t = u
  /\ \A t \in Winners :
       /\ state = "RUNNING"
       /\ inner # None <=> at[t] = "store"
       /\ at[t] = "init" /\ kind = "OnceLockInit" => init
  /\ state = "UNINIT" => inner = None /\ (kind = "OnceLockInit" => init)
  /\ state = "READY" => inner # None
  /\ \A t \in Callers : at[t] \in {"sev", "held"} => state = "READY"

(* The invariant holds at first. *)
LEMMA CellInvInit == CellInit => CellInv
  BY DEF CellInit, CellInv, Winners

CellStep(t) ==
  \/ Exchange(t) \/ InitStep(t) \/ WaitStep(t)
  \/ SetExchange(t) \/ SetInner(t) \/ Get(t)

(* Every step keeps the invariant and leaves a value that was written. *)
LEMMA CellStepKeeps ==
  ASSUME CellInv, NEW t \in Callers, CellStep(t), UNCHANGED kind
  PROVE  CellInv' /\ (inner # None => inner' = inner)
<1> USE OnceAssumption DEF CellInv, Winners, Goes
<1>1. CASE Exchange(t)
  BY <1>1 DEF Exchange, Use
<1>2. CASE TakeInit(t)
  BY <1>2 DEF TakeInit
<1>3. CASE WriteInner(t)
  BY <1>3 DEF WriteInner
<1>4. CASE StoreReady(t)
  BY <1>4 DEF StoreReady
<1>5. CASE SevReady(t)
  BY <1>5 DEF SevReady
<1>6. CASE LoadState(t)
  BY <1>6 DEF LoadState
<1>7. CASE WfeReady(t)
  BY <1>7 DEF WfeReady
<1>8. CASE SetExchange(t)
  BY <1>8 DEF SetExchange, Use
<1>9. CASE SetInner(t)
  BY <1>9 DEF SetInner
<1>10. CASE Get(t)
  BY <1>10 DEF Get, Use
<1> QED
  BY <1>1, <1>2, <1>3, <1>4, <1>5, <1>6, <1>7, <1>8, <1>9, <1>10
  DEF CellStep, InitStep, WaitStep

(* The same for every step of the specification. *)
LEMMA CellInvNext == CellInv /\ [CellNext]_cellVars => CellInv' /\ (inner # None => inner' = inner)
<1>1. CellInv /\ UNCHANGED cellVars => CellInv' /\ (inner # None => inner' = inner)
  BY DEF CellInv, Winners, cellVars
<1> QED
  BY <1>1, CellStepKeeps DEF CellNext, CellStep

(* The invariant holds throughout. *)
LEMMA CellInvAlways == CellSpec => []CellInv
  BY CellInvInit, CellInvNext, PTL DEF CellSpec

(* References are to initialised values, for any number of racing threads. *)
THEOREM OnceIsInitialised == CellSpec => []ReadsInitialised
<1>1. CellInv => ReadsInitialised
  BY DEF CellInv, Winners, ReadsInitialised
<1> QED
  BY <1>1, CellInvAlways, PTL

(* The initialiser of a OnceLockInit runs once, however many threads find  *)
(* the cell empty.                                                         *)
THEOREM InitialiserRunsOnce == CellSpec => []InitRunsOnce
<1>1. CellInv => InitRunsOnce
  BY DEF CellInv, Winners, InitRunsOnce
<1> QED
  BY <1>1, CellInvAlways, PTL

(* The value, once written, is never overwritten. *)
THEOREM OnceIsWrittenOnce == CellSpec => ValueNeverChanges
<1>1. CellInv /\ [CellNext]_cellVars => [inner # None => inner' = inner]_cellVars
  BY CellInvNext
<1> QED
  BY <1>1, CellInvAlways, PTL DEF CellSpec, ValueNeverChanges
=============================================================================
