------------------------------ MODULE Delivery ------------------------------
(***************************************************************************)
(* What the send queue of a peer promises to the callers of setValue,      *)
(* without threads, locks, retries or radio: a first-in first-out channel  *)
(* from which a newer value of a parameter removes the older one.          *)
(* PacketQueue implements it (see Promise there).                          *)
(***************************************************************************)
EXTENDS Naturals, Sequences

CONSTANT ParamOf   \* the parameter set by the 1st, 2nd, ... call

VARIABLES
    next,       \* the number of the next call
    waiting,    \* calls whose packet has not been confirmed
    received    \* calls whose packet the device has got

vars == <<next, waiting, received>>

Init == next = 1 /\ waiting = {} /\ received = {}

\* A new call withdraws the waiting ones that set the same parameter ...
Supersede ==
    /\ next \in DOMAIN ParamOf
    /\ waiting' = {i \in waiting : ParamOf[i] # ParamOf[next]}
    /\ UNCHANGED <<next, received>>

\* ... and is queued behind all others.
Queue ==
    /\ next \in DOMAIN ParamOf
    /\ waiting' = waiting \union {next}
    /\ next' = next + 1
    /\ UNCHANGED received

\* The device gets the packets in the order of the calls: no call overtakes a
\* waiting one, and none comes after a newer call for its parameter.
Receive(i) ==
    /\ i < next /\ i \notin received
    /\ \A j \in waiting : j < i => j \in received
    /\ \A j \in received : ParamOf[j] = ParamOf[i] => j < i
    /\ received' = received \union {i}
    /\ UNCHANGED <<next, waiting>>

\* A call is over when the oldest waiting packet is known to have arrived.
Confirm(i) ==
    /\ i \in waiting \intersect received
    /\ \A j \in waiting : i <= j
    /\ waiting' = waiting \ {i}
    /\ UNCHANGED <<next, received>>

Next == Supersede \/ Queue \/ \E i \in DOMAIN ParamOf : Receive(i) \/ Confirm(i)

Spec == Init /\ [][Next]_vars
=============================================================================
