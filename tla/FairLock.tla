------------------------------ MODULE FairLock ------------------------------
(* What a fair lock promises: threads enter one at a time, in the order in  *)
(* which they joined.                                                      *)
CONSTANT Threads
VARIABLES
  ahead,   \* for each thread in line, who joined before it and is still there
  inside   \* the threads that hold the lock

line == DOMAIN ahead

Init == ahead = [t \in {} |-> {}] /\ inside = {}

Joined(t) == [u \in line \cup {t} |-> IF u = t THEN line ELSE ahead[u]]

Join(t) == t \notin line /\ ahead' = Joined(t) /\ UNCHANGED inside

Enter(t) == t \in line \ inside /\ ahead[t] = {} /\ inside' = inside \cup {t} /\ UNCHANGED ahead

(* try_lock never waits *)
TryEnter(t) == line = {} /\ ahead' = Joined(t) /\ inside' = {t}

Leave(t) ==
  /\ t \in inside
  /\ inside' = inside \ {t}
  /\ ahead' = [u \in line \ {t} |-> ahead[u] \ {t}]

Next == \E t \in Threads : Join(t) \/ Enter(t) \/ TryEnter(t) \/ Leave(t)

Spec == Init /\ [][Next]_<<ahead, inside>>
=============================================================================
