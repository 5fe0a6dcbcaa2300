--------------------------- MODULE ConnectionLease ---------------------------
(***************************************************************************)
(* What a connection pool promises its users, whatever it is made of: a    *)
(* connection is lent to one user at a time, it changes hands only by      *)
(* coming back first, and one that a user lost is never lent again by this *)
(* process.  A user may have several.                                      *)
(***************************************************************************)
CONSTANTS Connection, User, NoOne

VARIABLES
  holder,   \* who has each connection
  lost      \* the connections that will not come back

Init ==
  /\ holder = [c \in Connection |-> NoOne]
  /\ lost = {}

Lend(c, u) ==
  /\ holder[c] = NoOne
  /\ c \notin lost
  /\ holder' = [holder EXCEPT ![c] = u]
  /\ UNCHANGED lost

TakeBack(c) ==
  /\ holder[c] # NoOne
  /\ holder' = [holder EXCEPT ![c] = NoOne]
  /\ UNCHANGED lost

Lose(c) ==
  /\ holder[c] # NoOne
  /\ holder' = [holder EXCEPT ![c] = NoOne]
  /\ lost' = lost \cup { c }

\* The process ends and a new one starts.
Restart ==
  /\ holder' = [c \in Connection |-> NoOne]
  /\ lost' = {}

Next ==
  \/ Restart
  \/ \E c \in Connection : TakeBack(c) \/ Lose(c) \/ \E u \in User : Lend(c, u)

Spec == Init /\ [][Next]_<< holder, lost >>
=============================================================================
