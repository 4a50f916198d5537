--------------------------- MODULE MCPacketQueue ---------------------------
(* Instances of PacketQueue for TLC: the parameters set by the RPC calls.   *)
EXTENDS PacketQueue

OneCall == <<"p">>
TwoCalls == <<"p", "q">>
\* The third call supersedes the second one while it waits, while it is about
\* to be sent or while it is on air, the fourth the first one.
SupersedingCall == <<"p", "q", "q", "p">>
=============================================================================
