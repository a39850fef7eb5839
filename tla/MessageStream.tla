---------------------------- MODULE MessageStream ----------------------------
(***************************************************************************)
(* What tcp_client and tcp_server promise together: a client tells its     *)
(* times one after the other, and the server hears some of them, each at   *)
(* most once and in their order.  Which ones it misses is not promised.    *)
(***************************************************************************)
EXTENDS Integers, Sequences

CONSTANT Clients

VARIABLES
  told,         \* how many messages each client has sent
  heard         \* the numbers of those the server has understood

Init == /\ told  = [c \in Clients |-> 0]
        /\ heard = [c \in Clients |-> <<>>]

Tell(c) == /\ told' = [told EXCEPT ![c] = @ + 1]
           /\ UNCHANGED heard

\* A message that was told, and later than all those heard before.
Hear(c) ==
  /\ \E m \in 1..told[c] :
       /\ \A i \in 1..Len(heard[c]) : heard[c][i] < m
       /\ heard' = [heard EXCEPT ![c] = Append(@, m)]
  /\ UNCHANGED told

Next == \E c \in Clients : Tell(c) \/ Hear(c)

Spec == Init /\ [][Next]_<<told, heard>>
=============================================================================
