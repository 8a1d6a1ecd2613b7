----------------------------- MODULE TurnQueue ------------------------------
(***************************************************************************)
(* What the operations on one HomeBase are promised: a turn each, one at a *)
(* time, in the order in which they asked.  A client may give its turn     *)
(* back unused.                                                            *)
(***************************************************************************)
CONSTANT Clients

VARIABLES
  waiting,  \* clients without their turn yet
  served,   \* the client whose turn it is, if any
  before    \* whom a client has to wait for

turns == <<waiting, served, before>>

Present == waiting \cup served

Init ==
  /\ waiting = {}
  /\ served = {}
  /\ before = [c \in Clients |-> {}]

Join(c) ==
  /\ c \notin Present
  /\ waiting' = waiting \cup {c}
  /\ before' = [before EXCEPT ![c] = Present]
  /\ UNCHANGED served

Serve(c) ==
  /\ c \in waiting /\ before[c] = {} /\ served = {}
  /\ waiting' = waiting \ {c}
  /\ served' = {c}
  /\ UNCHANGED before

Leave(c) ==
  /\ c \in Present /\ before[c] = {}
  /\ waiting' = waiting \ {c}
  /\ served' = served \ {c}
  /\ before' = [d \in Clients |-> before[d] \ {c}]

Next == \E c \in Clients : Join(c) \/ Serve(c) \/ Leave(c)

Spec == Init /\ [][Next]_turns
=============================================================================
