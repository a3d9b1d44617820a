---------------------------- MODULE TaskPromise ----------------------------
(***************************************************************************)
(* What an asynchronous task may cost its user: the channels are tried in  *)
(* order, each is paid for at most once, and one is given back before the  *)
(* next is paid for.                                                       *)
(***************************************************************************)
EXTENDS Naturals

CONSTANT Channels    \* number of channels the task may be tried on

VARIABLES
    paid,   \* the attempt the user is paying for, 0 if none
    last    \* the last attempt that was ever charged

TypeOK == paid \in 0..Channels /\ last \in 0..Channels

Init == paid = 0 /\ last = 0

Pay ==
    /\ paid = 0
    /\ last < Channels
    /\ last' = last + 1
    /\ paid' = last'

GiveBack ==
    /\ paid # 0
    /\ paid' = 0
    /\ UNCHANGED last

Next == Pay \/ GiveBack

Spec == Init /\ [][Next]_<<paid, last>>
=============================================================================
