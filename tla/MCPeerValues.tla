------------------------------ MODULE MCPeerValues ------------------------------
(* Small instances of PeerValues.  The clients are alike, and so are the values. *)
(* The packet PARTY_MODE_SET has both parameters, of which the device reports    *)
(* the time alone.                                                               *)
EXTENDS PeerValues, TLC

CONSTANTS temperature, time

OneFrame == [p \in {temperature, time} |-> {temperature, time}]
\* Values of different parameters are never compared, so that it makes no difference
\* which of them each parameter has at the start.
StartAlike == Init /\ \E v \in Values : device = [p \in Params |-> v]
SpecAlike == StartAlike /\ [][Next]_vars

Alike == Permutations(Clients) \union Permutations(Values)
=============================================================================
