----------------------------- MODULE SingleFlight -----------------------------
(***************************************************************************)
(* What sharing a piece of asynchronous work promises, whoever does it: for *)
(* each key one flight at a time, everybody who asks meanwhile waits for    *)
(* that flight, each is answered by the flight it waited for once it has    *)
(* landed, and any of them may leave without disturbing the rest.  The      *)
(* container loader keeps this promise for each registry entry, the session *)
(* token service for its renewals.                                          *)
(***************************************************************************)
EXTENDS Naturals

CONSTANTS
  Keys,            \* what is worked on
  Waiters,         \* those who ask
  Flights          \* the flights, numbered from 1 over all keys

VARIABLES
  flight,          \* of each key: the one in the air, 0 if none
  landed,          \* those that have come to an end
  waits,           \* the flight each waiter waits for, 0 if none
  answered         \* the flight that last answered each waiter, 0 if none

shared == <<flight, landed, waits, answered>>

Init ==
  /\ flight = [k \in Keys |-> 0] /\ landed = {}
  /\ waits = [w \in Waiters |-> 0]
  /\ answered = [w \in Waiters |-> 0]

\* Nothing is in the air: the waiter starts a flight, which may fail at once and land later.
Launch(w, k) ==
  /\ flight[k] = 0 /\ waits[w] = 0
  /\ \E f \in Flights \ (landed \cup {flight[j] : j \in Keys}) :
       /\ flight' = [flight EXCEPT ![k] = f]
       /\ waits' = [waits EXCEPT ![w] = f]
  /\ UNCHANGED <<landed, answered>>

Join(w, k) ==
  /\ flight[k] # 0 /\ waits[w] = 0
  /\ waits' = [waits EXCEPT ![w] = flight[k]]
  /\ UNCHANGED <<flight, landed, answered>>

Land(k) ==
  /\ flight[k] # 0
  /\ landed' = landed \cup {flight[k]}
  /\ flight' = [flight EXCEPT ![k] = 0]
  /\ UNCHANGED <<waits, answered>>

Answer(w) ==
  /\ waits[w] \in landed
  /\ answered' = [answered EXCEPT ![w] = waits[w]]
  /\ waits' = [waits EXCEPT ![w] = 0]
  /\ UNCHANGED <<flight, landed>>

Leave(w) ==
  /\ waits[w] # 0
  /\ waits' = [waits EXCEPT ![w] = 0]
  /\ UNCHANGED <<flight, landed, answered>>

Next ==
  \/ \E k \in Keys : Land(k)
  \/ \E w \in Waiters, k \in Keys : Launch(w, k) \/ Join(w, k)
  \/ \E w \in Waiters : Answer(w) \/ Leave(w)

Spec == Init /\ [][Next]_shared
=============================================================================
