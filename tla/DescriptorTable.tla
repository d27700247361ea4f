----------------------------- MODULE DescriptorTable -----------------------------
(***************************************************************************)
(* What the socket layer owes the process's descriptor table, without the  *)
(* sockets: a descriptor is opened for one user that holds none, and is    *)
(* released by that user and by nobody else.  No descriptor is shared,     *)
(* closed under its user, or left open without one.                        *)
(***************************************************************************)
CONSTANTS Users, Numbers, None

VARIABLES held,    \* the descriptor each user holds, or None
          open     \* the descriptors in use

table == <<held, open>>

Init == held = [u \in Users |-> None] /\ open = {}

Acquire(u, n) ==
  /\ held[u] = None /\ n \notin open
  /\ held' = [held EXCEPT ![u] = n]
  /\ open' = open \cup {n}

Release(u) ==
  /\ held[u] # None
  /\ held' = [held EXCEPT ![u] = None]
  /\ open' = open \ {held[u]}

Next == \E u \in Users : Release(u) \/ \E n \in Numbers : Acquire(u, n)

Spec == Init /\ [][Next]_table
==================================================================================
